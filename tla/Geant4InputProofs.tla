-------------------------- MODULE Geant4InputProofs --------------------------
(***************************************************************************)
(* mergeInteractions joins any number of interactions of any size without  *)
(* mixing them up (MergedWhole), and generatePrimaries, which walks down   *)
(* from the vertices of what was merged, finds all primaries               *)
(* (PrimariesComplete), hands each over once (AttachedOnce) and never      *)
(* calls itself deeper than there are particles (TypeOK).                  *)
(***************************************************************************)
EXTENDS Geant4Input, FiniteSetTheorems, TLAPS

\* Where particle i of interaction m is, and what it is, once it was moved by b.
Copy(m, i, b) ==
  LET p == interactions[m].particles[i]
  IN  [origin |-> <<m, i>>, kind |-> p.kind,
       parents |-> {x + b : x \in p.parents}, daughters |-> {x + b : x \in p.daughters}]

Moved(m, b) ==
  LET v == interactions[m].vertices
  IN  [k \in DOMAIN v |-> [in |-> {x + b : x \in v[k].in}, out |-> {x + b : x \in v[k].out}]]

\* Interaction m is in the output, all of it moved by b, and nothing else is from m.
PlacedAt(m, b) ==
  /\ \A i \in DOMAIN interactions[m].particles :
       b + i \in DOMAIN particles /\ particles[b + i] = Copy(m, i, b)
  /\ \A j \in DOMAIN particles :
       particles[j].origin[1] = m => j - b \in DOMAIN interactions[m].particles
  /\ interactions[m].vertices # <<>> <=> m \in DOMAIN vertices
  /\ m \in DOMAIN vertices => vertices[m] = Moved(m, b)

\* The invariant of the merging: MergedWhole says nothing of the identifiers from
\* offset on, which must be free for the interactions to come.
MergeInv ==
  /\ actions \in Seq(Mask) /\ calls \in 0 .. Len(actions)
  /\ offset \in Nat
  /\ \A m \in DOMAIN interactions : WellFormed(interactions[m])
  /\ merged \subseteq DOMAIN interactions
  /\ \A j \in DOMAIN particles :
       j \in Nat /\ j < offset /\ particles[j].origin[1] \in merged
  /\ DOMAIN vertices \subseteq merged
  /\ \A m \in merged : \E b \in Nat : PlacedAt(m, b)
  /\ phase \in {"primaries", "done"} => nextPID = offset - 1

-----------------------------------------------------------------------------
\* The interaction of an action that found no particles is an empty one.
LEMMA NothingWellFormed == WellFormed(Nothing)
<1>1. DOMAIN Nothing.particles = {} /\ Nothing.vertices = <<>>
  BY DEF Nothing
<1>2. IsFiniteSet({}) /\ Cardinality({}) = 0
  BY FS_EmptySet
<1>3. <<>> \in Seq(Vertex) /\ DOMAIN <<>> = {}
  OBVIOUS
<1> QED BY <1>1, <1>2, <1>3 DEF WellFormed

\* Particles of one interaction get identifiers from offset on, and the new offset
\* lies above all of them.
LEMMA BeyondProperty ==
  ASSUME MergeInv, NEW m \in DOMAIN interactions
  PROVE  /\ Beyond(m) \in Nat /\ offset <= Beyond(m)
         /\ \A i \in DOMAIN interactions[m].particles : i \in Nat /\ i + offset < Beyond(m)
<1> DEFINE n == Cardinality(DOMAIN interactions[m].particles)
           S == {offset} \cup {i + offset + 1 : i \in DOMAIN interactions[m].particles}
<1>1. n \in Nat /\ DOMAIN interactions[m].particles = 0 .. n - 1
  BY FS_CardinalityType DEF MergeInv, WellFormed
<1>2. offset \in Nat /\ S = {offset} \cup {i + offset + 1 : i \in 0 .. n - 1}
  BY <1>1 DEF MergeInv
<1> HIDE DEF n
<1>3. \E x \in S : \A y \in S : x >= y
  <2>1. offset + n \in S
    <3>1. CASE n = 0
      BY <1>1, <1>2, <3>1
    <3>2. CASE n # 0
      <4>1. n - 1 \in 0 .. n - 1 /\ offset + n = (n - 1) + offset + 1
        BY <1>1, <1>2, <3>2
      <4> QED BY <1>2, <4>1
    <3> QED BY <3>1, <3>2
  <2>2. \A y \in S : offset + n >= y
    BY <1>1, <1>2
  <2> QED BY <2>1, <2>2
<1>4. Beyond(m) \in S /\ \A y \in S : Beyond(m) >= y
  <2> HIDE DEF S
  <2>1. Max(S) \in S /\ \A y \in S : Max(S) >= y
    BY <1>3 DEF Max
  <2>2. Beyond(m) = Max(S)
    BY DEF Beyond, S
  <2> QED BY <2>1, <2>2
<1>5. S \subseteq Nat
  BY <1>1, <1>2
<1>6. offset \in S /\ \A i \in DOMAIN interactions[m].particles : i + offset + 1 \in S
  OBVIOUS
<1> HIDE DEF S
<1> QED BY <1>1, <1>2, <1>4, <1>5, <1>6

\* Of a step that leaves the interactions and the output alone.
LEMMA MergeInvKept ==
  ASSUME MergeInv, UNCHANGED <<actions, interactions, output>>, calls' \in 0 .. Len(actions),
         phase' \in {"primaries", "done"} => phase \in {"primaries", "done"}
  PROVE  MergeInv'
<1>1. UNCHANGED <<actions, interactions, merged, offset, particles, vertices, nextPID>>
  BY DEF output
<1>2. \A m, b : PlacedAt(m, b)' <=> PlacedAt(m, b)
  BY <1>1 DEF PlacedAt, Copy, Moved
<1> QED BY <1>1, <1>2 DEF MergeInv

\* Interactions that are there are not touched when another one is added.
LEMMA MergeInvAdd ==
  ASSUME MergeInv, Add
  PROVE  MergeInv'
<1>1. PICK r \in Inputs[mask] :
        interactions' = Emplace(interactions, [m \in {mask} |-> Taken(r)])
  BY DEF Add
<1>2. /\ mask \notin DOMAIN interactions
      /\ UNCHANGED <<actions, merged, offset, particles, vertices, nextPID, phase>>
      /\ calls < Len(actions) /\ calls' = calls + 1
  BY DEF Add, Called, output
<1>3. mask \in Mask /\ calls' \in 0 .. Len(actions)
  BY <1>2 DEF mask, MergeInv
<1>4. WellFormed(Taken(r))
  BY <1>3, NothingWellFormed, InputAssumptions DEF Taken
<1>5. /\ DOMAIN interactions' = DOMAIN interactions \cup {mask}
      /\ \A m \in DOMAIN interactions : interactions'[m] = interactions[m]
      /\ interactions'[mask] = Taken(r)
  BY <1>1, <1>2 DEF Emplace
<1>6. \A m \in merged : \A b : PlacedAt(m, b)' <=> PlacedAt(m, b)
  <2> SUFFICES ASSUME NEW m \in merged, NEW b
               PROVE  PlacedAt(m, b)' <=> PlacedAt(m, b)
    OBVIOUS
  <2>1. interactions'[m] = interactions[m]
    BY <1>5 DEF MergeInv
  <2>2. UNCHANGED <<particles, vertices>>
    BY <1>2
  <2>3. Moved(m, b)' = Moved(m, b)
    BY <2>1 DEF Moved
  <2>4. \A i : Copy(m, i, b)' = Copy(m, i, b)
    BY <2>1 DEF Copy
  <2> QED BY <2>1, <2>2, <2>3, <2>4 DEF PlacedAt
<1> QED BY <1>2, <1>4, <1>5, <1>6 DEF MergeInv

\* Everything that was there stays, and interaction m is added, moved by offset.
LEMMA MergeInvMerge ==
  ASSUME MergeInv, NEW m \in Mask, Merge(m)
  PROVE  MergeInv'
<1> DEFINE r == interactions[m]
<1>1. /\ m \in DOMAIN interactions /\ m \notin merged /\ merged' = merged \cup {m}
      /\ offset' = Beyond(m)
      /\ particles' = Emplace(particles, Rebased(m))
      /\ UNCHANGED <<actions, calls, interactions, nextPID, phase>>
      /\ phase = "merge"
  BY DEF Merge, input
<1>2. /\ Beyond(m) \in Nat /\ offset <= Beyond(m) /\ offset \in Nat
      /\ \A i \in DOMAIN r.particles : i \in Nat /\ i + offset < Beyond(m)
  BY <1>1, BeyondProperty DEF MergeInv
<1>3. /\ DOMAIN Rebased(m) = {i + offset : i \in DOMAIN r.particles}
      /\ \A i \in DOMAIN r.particles : Rebased(m)[i + offset] = Copy(m, i, offset)
  <2>1. DOMAIN Rebased(m) = {i + offset : i \in DOMAIN r.particles}
    BY DEF Rebased, Shift
  <2>2. ASSUME NEW i \in DOMAIN r.particles
        PROVE  Rebased(m)[i + offset] = Copy(m, i, offset)
    <3>1. i + offset \in Shift(DOMAIN r.particles) /\ (i + offset) - offset = i
      BY <1>2 DEF Shift
    <3> QED BY <3>1 DEF Rebased, Copy, Shift
  <2> QED BY <2>1, <2>2
<1>4. DOMAIN particles \cap DOMAIN Rebased(m) = {}
  BY <1>2, <1>3 DEF MergeInv
<1>5. /\ DOMAIN particles' = DOMAIN particles \cup DOMAIN Rebased(m)
      /\ \A j \in DOMAIN particles : particles'[j] = particles[j]
      /\ \A j \in DOMAIN Rebased(m) : particles'[j] = Rebased(m)[j]
  BY <1>1, <1>4 DEF Emplace
<1>6. \A j \in DOMAIN Rebased(m) : /\ j \in Nat /\ j < Beyond(m)
                                   /\ j - offset \in DOMAIN r.particles
                                   /\ Rebased(m)[j].origin[1] = m
  <2> SUFFICES ASSUME NEW i \in DOMAIN r.particles
               PROVE  /\ i + offset \in Nat /\ i + offset < Beyond(m)
                      /\ (i + offset) - offset \in DOMAIN r.particles
                      /\ Rebased(m)[i + offset].origin[1] = m
    BY <1>3
  <2>1. (i + offset) - offset = i
    BY <1>2
  <2>2. Rebased(m)[i + offset].origin[1] = m
    <3>1. Copy(m, i, offset).origin = <<m, i>>
      BY DEF Copy
    <3> QED BY <1>3, <3>1
  <2> QED BY <1>2, <2>1, <2>2
<1>7. \A j \in DOMAIN particles :
        j \in Nat /\ j < offset /\ particles[j].origin[1] \in merged
  BY DEF MergeInv
<1>8. /\ r.vertices = <<>> => UNCHANGED vertices
      /\ r.vertices # <<>> => /\ DOMAIN vertices' = DOMAIN vertices \cup {m}
                              /\ vertices'[m] = Moved(m, offset)
      /\ \A n \in DOMAIN vertices : vertices'[n] = vertices[n]
      /\ m \notin DOMAIN vertices
  <2>1. m \notin DOMAIN vertices
    BY <1>1 DEF MergeInv
  <2>2. RebasedVertices(m) = Moved(m, offset)
    BY DEF RebasedVertices, Moved, Shift
  <2>3. r.vertices \in Seq(Vertex)
    BY <1>1 DEF MergeInv, WellFormed
  <2> DEFINE T == {Moved(m, offset)[k] : k \in DOMAIN r.vertices}
  <2>4. Moved(m, offset) \in Seq(T)
    <3>1. DOMAIN r.vertices = 1 .. Len(r.vertices) /\ Len(r.vertices) \in Nat
      BY <2>3
    <3>2. Moved(m, offset) \in [1 .. Len(r.vertices) -> T]
      BY <3>1 DEF Moved
    <3> QED BY <3>1, <3>2
  <2> HIDE DEF T
  <2>5. Appended(m) \o RebasedVertices(m) = Moved(m, offset)
    BY <2>1, <2>2, <2>4 DEF Appended
  <2> QED BY <2>1, <2>5 DEF Merge, Emplace
<1>9. ASSUME NEW n \in merged
      PROVE  \E b \in Nat : PlacedAt(n, b)'
  <2>1. PICK b \in Nat : PlacedAt(n, b)
    BY DEF MergeInv
  <2>2. n # m
    BY <1>1
  <2>3. n \in DOMAIN vertices' <=> n \in DOMAIN vertices
    BY <1>8, <2>2
  <2>4. PlacedAt(n, b)'
    BY <1>1, <1>5, <1>6, <1>8, <2>1, <2>2, <2>3 DEF PlacedAt, Copy, Moved
  <2> QED BY <2>4
<1>10. \E b \in Nat : PlacedAt(m, b)'
  <2>0. PICK b \in Nat : b = offset
    BY <1>2
  <2>1. /\ \A i : Copy(m, i, b)' = Copy(m, i, b)
        /\ Moved(m, b)' = Moved(m, b)
    BY <1>1 DEF Copy, Moved
  <2>2. ASSUME NEW i \in DOMAIN r.particles
        PROVE  b + i \in DOMAIN particles' /\ particles'[b + i] = Copy(m, i, b)
    <3>1. b + i = i + b
      BY <1>2, <2>0
    <3> QED BY <1>3, <1>5, <2>0, <3>1
  <2>3. ASSUME NEW j \in DOMAIN particles', particles'[j].origin[1] = m
        PROVE  j - b \in DOMAIN r.particles
    BY <1>1, <1>5, <1>6, <1>7, <2>0, <2>3
  <2>4. /\ r.vertices # <<>> <=> m \in DOMAIN vertices'
        /\ m \in DOMAIN vertices' => vertices'[m] = Moved(m, b)
    BY <1>8, <2>0
  <2>5. interactions' = interactions
    BY <1>1
  <2>6. PlacedAt(m, b)'
    BY <2>1, <2>2, <2>3, <2>4, <2>5 DEF PlacedAt
  <2> QED BY <2>6
<1>11. DOMAIN vertices' \subseteq merged'
  BY <1>1, <1>8 DEF MergeInv
<1>12. \A j \in DOMAIN particles' :
         j \in Nat /\ j < offset' /\ particles'[j].origin[1] \in merged'
  BY <1>1, <1>2, <1>5, <1>6, <1>7
<1> QED BY <1>1, <1>2, <1>9, <1>10, <1>11, <1>12 DEF MergeInv

\* Nothing is there before the first action.
LEMMA MergeInvInit == Init => MergeInv
<1> SUFFICES ASSUME Init PROVE MergeInv
  OBVIOUS
<1>1. actions \in Seq(Mask) /\ calls = 0 /\ 0 \in 0 .. Len(actions)
  BY InputAssumptions DEF Init
<1>2. DOMAIN <<>> = {}
  OBVIOUS
<1> QED BY <1>1, <1>2 DEF Init, MergeInv

\* The next identifier is taken from the offset when all interactions are merged.
LEMMA MergeInvEndMerge ==
  ASSUME MergeInv, EndMerge
  PROVE  MergeInv'
<1>1. /\ nextPID' = offset - 1
      /\ UNCHANGED <<actions, calls, interactions, merged, offset, particles, vertices>>
  BY DEF EndMerge, input
<1>2. \A m, b : PlacedAt(m, b)' <=> PlacedAt(m, b)
  BY <1>1 DEF PlacedAt, Copy, Moved
<1> QED BY <1>1, <1>2 DEF MergeInv

\* The input actions but for Add, and the walk over the merged record.
LEMMA MergeInvOther ==
  ASSUME MergeInv,
         \/ ReadFails \/ AddTwice \/ StartMerge
         \/ \E x \in Root : StartRoot(x)
         \/ EndRoot \/ EndDecay \/ EndDrop \/ EndPrimaries
         \/ \E i \in DOMAIN particles : GetRelevant(i)
         \/ UNCHANGED vars
  PROVE  MergeInv'
<1>1. /\ UNCHANGED <<actions, interactions, output>>
      /\ calls' \in {calls, calls + 1} /\ (calls' # calls => calls < Len(actions))
      /\ phase' \in {"primaries", "done"} => phase \in {"primaries", "done"}
  <2>1. CASE ReadFails
    BY <2>1 DEF ReadFails, Called
  <2>2. CASE AddTwice
    BY <2>2 DEF AddTwice, Called
  <2>3. CASE StartMerge
    BY <2>3 DEF StartMerge, input
  <2>4. CASE \E x \in Root : StartRoot(x)
    BY <2>4 DEF StartRoot, input
  <2>5. CASE EndRoot \/ EndDecay \/ EndDrop
    BY <2>5 DEF EndRoot, EndDecay, EndDrop, input
  <2>6. CASE EndPrimaries
    BY <2>6 DEF EndPrimaries, input
  <2>7. CASE \E i \in DOMAIN particles : GetRelevant(i)
    <3> PICK i \in DOMAIN particles : GetRelevant(i)
      BY <2>7
    <3>1. CASE Skip(i) \/ Stable(i) \/ Ignore(i)
      BY <3>1 DEF Skip, Stable, Ignore, input
    <3>2. CASE Refuse(i)
      BY <3>2 DEF Refuse, input
    <3>3. CASE Decay(i) \/ Drop(i)
      BY <3>3 DEF Decay, Drop, input
    <3> QED BY <3>1, <3>2, <3>3 DEF GetRelevant
  <2>8. CASE UNCHANGED vars
    BY <2>8 DEF vars, input
  <2> QED BY <2>1, <2>2, <2>3, <2>4, <2>5, <2>6, <2>7, <2>8
<1>2. calls' \in 0 .. Len(actions)
  BY <1>1 DEF MergeInv
<1> QED BY <1>1, <1>2, MergeInvKept

\* The merging keeps its invariant.
LEMMA Merging == Spec => []MergeInv
<1>1. MergeInv /\ [Next]_vars => MergeInv'
  BY MergeInvAdd, MergeInvMerge, MergeInvEndMerge, MergeInvOther DEF Next
<1> QED BY MergeInvInit, <1>1, PTL DEF Spec

-----------------------------------------------------------------------------
\* Identifiers and origins of what is placed correspond one to one.
LEMMA PlacedIsWhole ==
  ASSUME MergeInv, NEW m \in merged, NEW i \in DOMAIN interactions[m].particles,
         NEW b \in Nat, PlacedAt(m, b),
         NEW S \in SUBSET DOMAIN interactions[m].particles
  PROVE  /\ {j \in DOMAIN particles : particles[j].origin = <<m, i>>} = {b + i}
         /\ Origin({x + b : x \in S}) = From(m, S)
<1>1. DOMAIN interactions[m].particles \subseteq Int
  <2>1. WellFormed(interactions[m])
    BY DEF MergeInv
  <2>2. Cardinality(DOMAIN interactions[m].particles) \in Nat
    BY <2>1, FS_CardinalityType DEF WellFormed
  <2> QED BY <2>1, <2>2 DEF WellFormed
<1>2. \A x, c : Copy(m, x, c).origin = <<m, x>>
  BY DEF Copy
<1>3. \A x \in DOMAIN interactions[m].particles :
        b + x \in DOMAIN particles /\ particles[b + x].origin = <<m, x>>
  BY <1>2 DEF PlacedAt
<1>4. ASSUME NEW j \in DOMAIN particles, particles[j].origin = <<m, i>>
      PROVE  j = b + i
  <2>1. j - b \in DOMAIN interactions[m].particles /\ j \in Nat
    BY <1>4 DEF PlacedAt, MergeInv
  <2>2. b + (j - b) = j
    BY <2>1
  <2>3. particles[j].origin = <<m, j - b>>
    BY <1>3, <2>1, <2>2
  <2>4. j - b = i
    BY <1>4, <2>3
  <2> QED BY <1>1, <2>1, <2>4
<1>5. \A x \in S : x + b = b + x
  BY <1>1
<1>6. Origin({x + b : x \in S}) = From(m, S)
  BY <1>3, <1>5 DEF Origin, From
<1> QED BY <1>3, <1>4, <1>6

\* mergeInteractions (Geant4InputHandling.cpp): whatever the interactions are,
\* every particle of each is in the output once, under an identifier of its own and
\* with its own parents, daughters and vertices, and nextPID gives a free one.
THEOREM MergesWhole == Spec => []MergedWhole
<1>1. MergeInv => MergedWhole
  <2> SUFFICES ASSUME MergeInv PROVE MergedWhole
    OBVIOUS
  <2>1. ASSUME NEW m \in merged, NEW i \in DOMAIN interactions[m].particles
        PROVE  LET p == interactions[m].particles[i]
                   copies == {j \in DOMAIN particles : particles[j].origin = <<m, i>>}
               IN  /\ Cardinality(copies) = 1
                   /\ \A j \in copies :
                        /\ particles[j].kind = p.kind
                        /\ Origin(particles[j].parents) = From(m, p.parents)
                        /\ Origin(particles[j].daughters) = From(m, p.daughters)
    <3> DEFINE p == interactions[m].particles[i]
    <3>1. PICK b \in Nat : PlacedAt(m, b)
      BY DEF MergeInv
    <3>2. p.parents \subseteq DOMAIN interactions[m].particles
          /\ p.daughters \subseteq DOMAIN interactions[m].particles
      BY DEF MergeInv, WellFormed
    <3>3. {j \in DOMAIN particles : particles[j].origin = <<m, i>>} = {b + i}
      BY <3>1, <3>2, PlacedIsWhole
    <3>4. particles[b + i] = Copy(m, i, b)
      BY <3>1 DEF PlacedAt
    <3>5. /\ particles[b + i].kind = p.kind
          /\ particles[b + i].parents = {x + b : x \in p.parents}
          /\ particles[b + i].daughters = {x + b : x \in p.daughters}
      BY <3>4 DEF Copy
    <3>6. /\ Origin(particles[b + i].parents) = From(m, p.parents)
          /\ Origin(particles[b + i].daughters) = From(m, p.daughters)
      BY <3>1, <3>2, <3>5, PlacedIsWhole
    <3>7. Cardinality({b + i}) = 1
      BY FS_Singleton
    <3> QED BY <3>3, <3>5, <3>6, <3>7
  <2>2. ASSUME NEW m \in merged
        PROVE  LET v == interactions[m].vertices
               IN  /\ v # <<>> <=> m \in DOMAIN vertices
                   /\ v # <<>> => /\ Len(vertices[m]) = Len(v)
                                  /\ \A k \in DOMAIN v :
                                       /\ Origin(vertices[m][k].in) = From(m, v[k].in)
                                       /\ Origin(vertices[m][k].out) = From(m, v[k].out)
    <3> DEFINE v == interactions[m].vertices
    <3>1. PICK b \in Nat : PlacedAt(m, b)
      BY DEF MergeInv
    <3>2. v # <<>> <=> m \in DOMAIN vertices
      BY <3>1 DEF PlacedAt
    <3>3. ASSUME v # <<>>
          PROVE  /\ Len(vertices[m]) = Len(v)
                 /\ \A k \in DOMAIN v : /\ Origin(vertices[m][k].in) = From(m, v[k].in)
                                        /\ Origin(vertices[m][k].out) = From(m, v[k].out)
      <4>1. vertices[m] = Moved(m, b)
        BY <3>1, <3>2, <3>3 DEF PlacedAt
      <4>2. DOMAIN v = 1 .. Len(v) /\ Len(v) \in Nat
        BY DEF MergeInv, WellFormed
      <4>3. DOMAIN vertices[m] = 1 .. Len(v)
        BY <4>1, <4>2 DEF Moved
      <4>4. Len(vertices[m]) = Len(v)
        BY <4>2, <4>3
      <4>5. ASSUME NEW k \in DOMAIN v
            PROVE  /\ Origin(vertices[m][k].in) = From(m, v[k].in)
                   /\ Origin(vertices[m][k].out) = From(m, v[k].out)
        <5>1. /\ vertices[m][k].in = {x + b : x \in v[k].in}
              /\ vertices[m][k].out = {x + b : x \in v[k].out}
          BY <4>1 DEF Moved
        <5>2. /\ v[k].in \subseteq DOMAIN interactions[m].particles
              /\ v[k].out \subseteq DOMAIN interactions[m].particles
          BY DEF MergeInv, WellFormed
        <5>3. CASE DOMAIN interactions[m].particles = {}
          BY <5>1, <5>2, <5>3 DEF Origin, From
        <5>4. CASE DOMAIN interactions[m].particles # {}
          BY <3>1, <5>1, <5>2, <5>4, PlacedIsWhole
        <5> QED BY <5>3, <5>4
      <4> QED BY <4>4, <4>5
    <3> QED BY <3>2, <3>3
  <2>3. phase \in {"primaries", "done"} => \A j \in DOMAIN particles : j <= nextPID
    BY DEF MergeInv
  <2> QED BY <2>1, <2>2, <2>3 DEF MergedWhole
<1> QED BY Merging, <1>1, PTL

-----------------------------------------------------------------------------
(***************************************************************************)
(* The walk.  Level 1 is the call from the vertex, level Len(stack) the    *)
(* innermost call of getRelevant; the levels below the innermost one do    *)
(* not move when a call is made or returns.                                *)
(***************************************************************************)
Level(n) == stack[Len(stack) - n + 1]
Mother(n) == Level(n).of[1]

Elements(s) == {s[n] : n \in DOMAIN s}
NoneTwice(s) == \A a, b \in DOMAIN s : s[a] = s[b] => a = b

\* The merged record: what the interactions say of their particles and vertices
\* holds of all of them together.
RecordInv ==
  /\ IsFiniteSet(DOMAIN particles) /\ DOMAIN particles \subseteq Nat
  /\ \A i \in DOMAIN particles :
       /\ particles[i].kind \in Kind
       /\ particles[i].daughters \subseteq DOMAIN particles
       /\ \A j \in DOMAIN particles :
            j \in particles[i].daughters => i \in particles[j].parents \/ particles[j].parents = {}
  /\ \A x \in Root : x[3] \in DOMAIN particles /\ particles[x[3]].parents = {}
  /\ \A x, y \in Root : x[3] = y[3] => x = y

\* Places primaries are hung to.
Place == {<<i>> : i \in DOMAIN particles} \cup {<<x[1], x[2]>> : x \in Root}
Call == [call : {"vertex", "decay", "drop"}, of : Place,
         left : SUBSET DOMAIN particles, found : Seq(DOMAIN particles)]

\* The particles the walk finds immediately below a place.
Below(at) ==
  IF Len(at) = 1 THEN particles[at[1]].daughters
  ELSE {x[3] : x \in Leaving(at[1], at[2])}

\* One call from a vertex, and on it calls for different particles, each for one of
\* those below the last.  A particle without parents was visited from its vertex, but
\* for those that are daughters as well: the call from their vertex may come later.
StackInv ==
  /\ rooted \subseteq Root /\ stack \in Seq(Call)
  /\ stack # <<>> =>
       \E x \in rooted :
         /\ Level(1).call = "vertex" /\ Level(1).of = <<x[1], x[2]>>
         /\ Level(1).left \subseteq {x[3]}
         /\ Level(1).left # {} =>
              /\ Len(stack) = 1 /\ Level(1).found = <<>>
              /\ x[3] \notin visited \/ Stripped(x[3])
  /\ \A n \in 2 .. Len(stack) :
       /\ Level(n).of = <<Mother(n)>> /\ Mother(n) \in visited
       /\ Mother(n) \in Below(Level(n - 1).of)
       /\ \/ Level(n).call = "decay" /\ particles[Mother(n)].kind = "decayed"
          \/ Level(n).call = "drop" /\ particles[Mother(n)].kind = "dropped"
       /\ Level(n).left \subseteq particles[Mother(n)].daughters
       /\ Parent(Mother(n))
  /\ \A n, o \in 1 .. Len(stack) : Level(n).of = Level(o).of => n = o
  /\ \A i \in visited :
       particles[i].parents = {} => Stripped(i) \/ \E x \in rooted : x[3] = i

\* What was visited can be reached, and what is still to be visited below it is left
\* to a call that did not return.
ReachInv ==
  /\ visited \subseteq Reached
  /\ prim = {i \in visited : particles[i].kind = "stable"
                              \/ (particles[i].kind = "decayed" /\ Parent(i))}
  /\ \A i \in visited : particles[i].kind = "broken" => ~Parent(i)
  /\ \A i \in visited : particles[i].kind \in {"decayed", "dropped"} =>
       \A d \in particles[i].daughters :
         d \in visited \/ \E n \in 2 .. Len(stack) : Mother(n) = i /\ d \in Level(n).left
  /\ \A x \in rooted : x[3] \in visited \/ (stack # <<>> /\ x[3] \in Level(1).left)

FoundBy(n) == Elements(Level(n).found)
Children == [n \in DOMAIN links |-> links[n].child]
Decaying == {Mother(n) : n \in {o \in 2 .. Len(stack) : Level(o).call = "decay"}}

\* What is hung a second time is a daughter without parents, hung to a vertex.
HungOnce ==
  \A n, o \in DOMAIN links : n < o /\ links[n].child = links[o].child =>
    Stripped(links[o].child) /\ Len(links[o].at) = 2

\* A primary is hung somewhere, found by one open call, or decaying in one: one of
\* these, and once, but for daughters without parents found from a vertex.
OnceInv ==
  /\ HungOnce
  /\ \A n \in 1 .. Len(stack) :
       /\ NoneTwice(Level(n).found)
       /\ \A i \in FoundBy(n) \cap Elements(Children) : n = 1 /\ Stripped(i)
       /\ FoundBy(n) \cap Decaying = {}
       /\ \A o \in 1 .. Len(stack) : n # o => FoundBy(n) \cap FoundBy(o) = {}
  /\ Decaying \cap Elements(Children) = {}
  /\ prim = Elements(Children) \cup Decaying \cup UNION {FoundBy(n) : n \in 1 .. Len(stack)}

\* Primaries are found, and hung, where they belong.
PlacedInv ==
  /\ links \in Seq([child : DOMAIN particles, at : Place])
  /\ \A n \in DOMAIN links :
       /\ links[n].child \in InPlaceOf(Below(links[n].at))
       /\ links[n].at \in {<<i>> : i \in prim} \cup {<<x[1], x[2]>> : x \in rooted}
  /\ \A n \in 1 .. Len(stack) : Elements(Level(n).found) \subseteq InPlaceOf(Below(Level(n).of))

WalkInv == StackInv /\ ReachInv /\ OnceInv /\ PlacedInv

Empty == rooted = {} /\ visited = {} /\ prim = {} /\ links = <<>> /\ stack = <<>>

\* The invariant of the whole event.
EventInv ==
  /\ actions \in ActionLists
  /\ DOMAIN interactions \subseteq {actions[n] : n \in 1 .. calls}
  /\ aborted \in BOOLEAN /\ nextPID \in {-2, offset - 1}
  /\ phase \in {"generate", "merge", "primaries", "done", "failed"}
  /\ phase \in {"generate", "merge"} => nextPID = -2 /\ Empty
  /\ phase = "done" => stack = <<>> /\ Root \subseteq rooted
  /\ (phase = "failed" /\ stack # <<>>) =>
       \E i \in Reached : particles[i].kind = "broken" /\ Parent(i)
  /\ WalkInv

-----------------------------------------------------------------------------
\* What was merged is well formed: families and vertices do not reach from one
\* interaction into another.
LEMMA MergedRecord == MergeInv => RecordInv
<1> SUFFICES ASSUME MergeInv PROVE RecordInv
  OBVIOUS
<1>1. IsFiniteSet(DOMAIN particles) /\ DOMAIN particles \subseteq Nat
  <2>1. offset \in Nat /\ DOMAIN particles \subseteq 0 .. offset
    BY DEF MergeInv
  <2>2. IsFiniteSet(0 .. offset)
    BY <2>1, FS_Interval
  <2> QED BY <2>1, <2>2, FS_Subset
<1>2. \A m \in merged : WellFormed(interactions[m])
  BY DEF MergeInv
<1>3. ASSUME NEW j \in DOMAIN particles
      PROVE  \E m \in merged : \E b \in Nat : \E i \in DOMAIN interactions[m].particles :
               PlacedAt(m, b) /\ j = b + i /\ particles[j] = Copy(m, i, b)
  <2>1. j \in Nat /\ particles[j].origin[1] \in merged
    BY DEF MergeInv
  <2>2. PICK m \in merged : m = particles[j].origin[1]
    BY <2>1
  <2>3. PICK b \in Nat : PlacedAt(m, b)
    BY DEF MergeInv
  <2>4. j - b \in DOMAIN interactions[m].particles /\ b + (j - b) = j
    BY <2>1, <2>2, <2>3 DEF PlacedAt
  <2>5. PICK i \in DOMAIN interactions[m].particles : i = j - b
    BY <2>4
  <2>6. j = b + i /\ particles[b + i] = Copy(m, i, b)
    BY <2>3, <2>4, <2>5 DEF PlacedAt
  <2> QED BY <2>3, <2>6
<1>4. ASSUME NEW m \in merged, NEW b \in Nat, PlacedAt(m, b),
             NEW i \in DOMAIN interactions[m].particles
      PROVE  /\ i \in Nat /\ b + i \in DOMAIN particles
             /\ particles[b + i].origin[1] = m
             /\ particles[b + i].kind \in Kind
             /\ particles[b + i].daughters = {x + b : x \in interactions[m].particles[i].daughters}
             /\ particles[b + i].parents = {x + b : x \in interactions[m].particles[i].parents}
             /\ interactions[m].particles[i].daughters \subseteq DOMAIN interactions[m].particles
             /\ interactions[m].particles[i].parents \subseteq DOMAIN interactions[m].particles
  <2>1. particles[b + i] = Copy(m, i, b) /\ b + i \in DOMAIN particles
    BY <1>4 DEF PlacedAt
  <2>2. /\ interactions[m].particles[i] \in Particle
        /\ interactions[m].particles[i].daughters \cup interactions[m].particles[i].parents
             \subseteq DOMAIN interactions[m].particles
    BY <1>2 DEF WellFormed
  <2>3. i \in Nat
    <3>1. Cardinality(DOMAIN interactions[m].particles) \in Nat
      BY <1>2, FS_CardinalityType DEF WellFormed
    <3> QED BY <1>2, <3>1 DEF WellFormed
  <2> QED BY <2>1, <2>2, <2>3 DEF Copy, Particle
<1>5. ASSUME NEW j \in DOMAIN particles
      PROVE  /\ particles[j].kind \in Kind
             /\ particles[j].daughters \subseteq DOMAIN particles
             /\ \A d \in DOMAIN particles :
                  d \in particles[j].daughters =>
                    j \in particles[d].parents \/ particles[d].parents = {}
  <2>1. PICK m \in merged : \E b \in Nat : \E i \in DOMAIN interactions[m].particles :
               PlacedAt(m, b) /\ j = b + i /\ particles[j] = Copy(m, i, b)
    BY <1>3
  <2>2. PICK b \in Nat : \E i \in DOMAIN interactions[m].particles :
               PlacedAt(m, b) /\ j = b + i /\ particles[j] = Copy(m, i, b)
    BY <2>1
  <2>3. PICK i \in DOMAIN interactions[m].particles : PlacedAt(m, b) /\ j = b + i
    BY <2>2
  <2>4. /\ particles[j].kind \in Kind /\ i \in Nat
        /\ particles[j].daughters = {x + b : x \in interactions[m].particles[i].daughters}
        /\ interactions[m].particles[i].daughters \subseteq DOMAIN interactions[m].particles
    BY <1>4, <2>3
  <2>5. ASSUME NEW d \in particles[j].daughters
        PROVE  /\ d \in DOMAIN particles
               /\ j \in particles[d].parents \/ particles[d].parents = {}
    <3>1. PICK x \in interactions[m].particles[i].daughters : d = x + b
      BY <2>4
    <3>2. x \in DOMAIN interactions[m].particles
      BY <2>4
    <3>3. /\ x \in Nat /\ b + x \in DOMAIN particles
          /\ particles[b + x].parents = {y + b : y \in interactions[m].particles[x].parents}
      BY <1>4, <2>3, <3>2
    <3>4. \/ i \in interactions[m].particles[x].parents
          \/ interactions[m].particles[x].parents = {}
      BY <1>2, <3>2 DEF WellFormed
    <3>5. d = b + x /\ j = i + b
      BY <2>3, <2>4, <3>1, <3>3
    <3> QED BY <3>3, <3>4, <3>5
  <2> QED BY <2>4, <2>5
<1>6. ASSUME NEW x \in Root
      PROVE  \E m \in merged : \E b \in Nat : \E k \in DOMAIN interactions[m].vertices :
               /\ PlacedAt(m, b)
               /\ interactions[m].vertices[k].out \subseteq DOMAIN interactions[m].particles
               /\ particles[x[3]].parents = {}
               /\ \E i \in interactions[m].vertices[k].out : x = <<m, k, i + b>>
  <2>1. PICK m \in DOMAIN vertices : x \in UNION {Leaving(m, k) : k \in DOMAIN vertices[m]}
    BY DEF Root
  <2>2. PICK k \in DOMAIN vertices[m] : x \in Leaving(m, k)
    BY <2>1
  <2>3. m \in merged
    BY DEF MergeInv
  <2>4. PICK b \in Nat : PlacedAt(m, b)
    BY <2>3 DEF MergeInv
  <2>5. k \in DOMAIN interactions[m].vertices
        /\ vertices[m][k].out = {y + b : y \in interactions[m].vertices[k].out}
    BY <2>4 DEF PlacedAt, Moved
  <2>6. PICK j \in vertices[m][k].out : x = <<m, k, j>> /\ particles[j].parents = {}
    BY <2>2 DEF Leaving
  <2>7. interactions[m].vertices[k].out \subseteq DOMAIN interactions[m].particles
    BY <1>2, <2>3, <2>5 DEF WellFormed
  <2>8. PICK i \in interactions[m].vertices[k].out : j = i + b
    BY <2>5
  <2>9. x[3] = j
    BY <2>6
  <2> QED BY <2>3, <2>4, <2>5, <2>6, <2>7, <2>8, <2>9
<1>7. ASSUME NEW x \in Root
      PROVE  x[3] \in DOMAIN particles /\ particles[x[3]].parents = {}
  <2>1. PICK m \in merged : \E b \in Nat : \E k \in DOMAIN interactions[m].vertices :
               /\ PlacedAt(m, b)
               /\ interactions[m].vertices[k].out \subseteq DOMAIN interactions[m].particles
               /\ particles[x[3]].parents = {}
               /\ \E i \in interactions[m].vertices[k].out : x = <<m, k, i + b>>
    BY <1>6
  <2>2. PICK b \in Nat : \E k \in DOMAIN interactions[m].vertices :
               /\ PlacedAt(m, b)
               /\ interactions[m].vertices[k].out \subseteq DOMAIN interactions[m].particles
               /\ particles[x[3]].parents = {}
               /\ \E i \in interactions[m].vertices[k].out : x = <<m, k, i + b>>
    BY <2>1
  <2>3. PICK i \in DOMAIN interactions[m].particles : x[3] = i + b
    BY <2>2
  <2>4. i \in Nat /\ b + i \in DOMAIN particles
    BY <1>4, <2>2, <2>3
  <2>5. b + i = i + b
    BY <2>4
  <2> QED BY <2>2, <2>3, <2>4, <2>5
<1>8. ASSUME NEW x \in Root, NEW y \in Root, x[3] = y[3]
      PROVE  x = y
  <2>1. PICK m \in merged : \E b \in Nat : \E k \in DOMAIN interactions[m].vertices :
               /\ PlacedAt(m, b)
               /\ interactions[m].vertices[k].out \subseteq DOMAIN interactions[m].particles
               /\ \E i \in interactions[m].vertices[k].out : x = <<m, k, i + b>>
    BY <1>6
  <2>2. PICK b \in Nat : \E k \in DOMAIN interactions[m].vertices :
               /\ PlacedAt(m, b)
               /\ interactions[m].vertices[k].out \subseteq DOMAIN interactions[m].particles
               /\ \E i \in interactions[m].vertices[k].out : x = <<m, k, i + b>>
    BY <2>1
  <2>3. PICK k \in DOMAIN interactions[m].vertices :
               /\ interactions[m].vertices[k].out \subseteq DOMAIN interactions[m].particles
               /\ \E i \in interactions[m].vertices[k].out : x = <<m, k, i + b>>
    BY <2>2
  <2>4. PICK i \in interactions[m].vertices[k].out : x = <<m, k, i + b>>
    BY <2>3
  <2>5. PICK n \in merged : \E c \in Nat : \E l \in DOMAIN interactions[n].vertices :
               /\ PlacedAt(n, c)
               /\ interactions[n].vertices[l].out \subseteq DOMAIN interactions[n].particles
               /\ \E i2 \in interactions[n].vertices[l].out : y = <<n, l, i2 + c>>
    BY <1>6
  <2>6. PICK c \in Nat : \E l \in DOMAIN interactions[n].vertices :
               /\ PlacedAt(n, c)
               /\ interactions[n].vertices[l].out \subseteq DOMAIN interactions[n].particles
               /\ \E i2 \in interactions[n].vertices[l].out : y = <<n, l, i2 + c>>
    BY <2>5
  <2>7. PICK l \in DOMAIN interactions[n].vertices :
               /\ interactions[n].vertices[l].out \subseteq DOMAIN interactions[n].particles
               /\ \E i2 \in interactions[n].vertices[l].out : y = <<n, l, i2 + c>>
    BY <2>6
  <2>8. PICK i2 \in interactions[n].vertices[l].out : y = <<n, l, i2 + c>>
    BY <2>7
  <2>9. i + b = i2 + c
    BY <1>8, <2>4, <2>8
  <2>10. /\ i \in Nat /\ particles[b + i].origin[1] = m
         /\ i2 \in Nat /\ particles[c + i2].origin[1] = n
    BY <1>4, <2>2, <2>3, <2>6, <2>7
  <2>11. b + i = c + i2
    BY <2>9, <2>10
  <2>12. m = n
    BY <2>10, <2>11
  <2>13. particles[b + i] = Copy(m, i, b) /\ particles[c + i2] = Copy(n, i2, c)
    BY <2>2, <2>3, <2>6, <2>7 DEF PlacedAt
  <2>14. i = i2
    BY <2>11, <2>13 DEF Copy
  <2>15. k = l
    <3>1. interactions[m].vertices[k].out \cap interactions[m].vertices[l].out # {}
      BY <2>12, <2>14
    <3> QED BY <1>2, <2>12, <3>1 DEF WellFormed
  <2> QED BY <2>4, <2>8, <2>9, <2>12, <2>15
<1> QED BY <1>1, <1>5, <1>7, <1>8 DEF RecordInv

\* Reached and InPlaceOf are closed, and Reached is the least set that is.
LEMMA Reaching ==
  ASSUME RecordInv
  PROVE  /\ \A x \in Root : x[3] \in Reached
         /\ \A i \in Reached : particles[i].kind \in {"decayed", "dropped"} =>
              particles[i].daughters \subseteq Reached
         /\ \A X \in SUBSET DOMAIN particles :
              ({x[3] : x \in Root} \subseteq X
               /\ \A j \in X : particles[j].kind \in {"decayed", "dropped"}
                                 => particles[j].daughters \subseteq X) => Reached \subseteq X
<1> DEFINE Closed(X) == /\ {x[3] : x \in Root} \subseteq X
                        /\ \A j \in X : particles[j].kind \in {"decayed", "dropped"}
                                          => particles[j].daughters \subseteq X
<1>1. \A i : i \in Reached <=> /\ i \in DOMAIN particles
                               /\ \A X \in SUBSET DOMAIN particles : Closed(X) => i \in X
  BY DEF Reached
<1>2. ASSUME NEW x \in Root
      PROVE  x[3] \in Reached
  <2>1. x[3] \in DOMAIN particles
    BY DEF RecordInv
  <2> QED BY <1>1, <2>1
<1>3. ASSUME NEW i \in Reached, particles[i].kind \in {"decayed", "dropped"},
             NEW d \in particles[i].daughters
      PROVE  d \in Reached
  <2>1. d \in DOMAIN particles
    BY <1>1 DEF RecordInv
  <2>2. \A X \in SUBSET DOMAIN particles : Closed(X) => d \in X
    BY <1>1, <1>3
  <2> QED BY <1>1, <2>1, <2>2
<1>4. \A X \in SUBSET DOMAIN particles : Closed(X) => Reached \subseteq X
  BY <1>1
<1> HIDE DEF Closed
<1> QED BY <1>2, <1>3, <1>4 DEF Closed

\* Particles found below a dropped one are in its place.
LEMMA InPlace ==
  ASSUME RecordInv, NEW S \in SUBSET DOMAIN particles
  PROVE  /\ S \subseteq InPlaceOf(S)
         /\ \A i \in S : particles[i].kind = "dropped" =>
              InPlaceOf(particles[i].daughters) \subseteq InPlaceOf(S)
BY DEF InPlaceOf, RecordInv

-----------------------------------------------------------------------------
\* Sequences: their elements, two of them joined, a function that is one.
LEMMA SequenceOf ==
  ASSUME NEW S, NEW s \in Seq(S)
  PROVE  /\ Len(s) \in Nat /\ DOMAIN s = 1 .. Len(s) /\ s \in [1 .. Len(s) -> S]
         /\ \A n \in DOMAIN s : s[n] \in S
OBVIOUS

\* A function on 1 .. m is a sequence.
LEMMA SequenceFrom ==
  ASSUME NEW S, NEW m \in Nat, NEW f \in [1 .. m -> S]
  PROVE  f \in Seq(S) /\ Len(f) = m
OBVIOUS

\* Two sequences joined: first the one, then the other.
LEMMA SequencesJoined ==
  ASSUME NEW S, NEW s \in Seq(S), NEW t \in Seq(S)
  PROVE  /\ s \o t \in Seq(S) /\ Len(s \o t) = Len(s) + Len(t)
         /\ DOMAIN (s \o t) = 1 .. Len(s) + Len(t)
         /\ \A n \in DOMAIN s : n \in DOMAIN (s \o t) /\ (s \o t)[n] = s[n]
         /\ \A n \in DOMAIN t : (s \o t)[n + Len(s)] = t[n]
         /\ \A n \in DOMAIN (s \o t) :
              n \notin DOMAIN s => n - Len(s) \in DOMAIN t /\ (s \o t)[n] = t[n - Len(s)]
OBVIOUS

\* The stack after the innermost call changed, after a new call, after a return.
LEMMA StackTop ==
  ASSUME NEW F, NEW s \in Seq(F), s # <<>>, NEW f \in F
  PROVE  LET t == <<f>> \o Tail(s)
         IN  /\ t \in Seq(F) /\ Len(t) = Len(s) /\ t[1] = f
             /\ \A n \in 2 .. Len(s) : t[n] = s[n]
<1>1. Len(s) \in Nat /\ Len(s) >= 1
  OBVIOUS
<1>2. /\ Tail(s) \in Seq(F) /\ Len(Tail(s)) = Len(s) - 1
      /\ \A n \in 1 .. Len(s) - 1 : Tail(s)[n] = s[n + 1]
  OBVIOUS
<1>3. <<f>> \in Seq(F) /\ Len(<<f>>) = 1
  OBVIOUS
<1> QED BY <1>1, <1>2, <1>3

\* A new call, above one that changed.
LEMMA StackPush ==
  ASSUME NEW F, NEW s \in Seq(F), s # <<>>, NEW f \in F, NEW g \in F
  PROVE  LET t == <<g, f>> \o Tail(s)
         IN  /\ t \in Seq(F) /\ Len(t) = Len(s) + 1 /\ t[1] = g /\ t[2] = f
             /\ \A n \in 2 .. Len(s) : t[n + 1] = s[n]
<1>1. Len(s) \in Nat /\ Len(s) >= 1
  OBVIOUS
<1>2. /\ Tail(s) \in Seq(F) /\ Len(Tail(s)) = Len(s) - 1
      /\ \A n \in 1 .. Len(s) - 1 : Tail(s)[n] = s[n + 1]
  OBVIOUS
<1>3. <<g, f>> \in Seq(F) /\ Len(<<g, f>>) = 2
  OBVIOUS
<1> QED BY <1>1, <1>2, <1>3

\* A return, to a call that changed.
LEMMA StackPop ==
  ASSUME NEW F, NEW s \in Seq(F), Len(s) >= 2, NEW f \in F
  PROVE  LET t == <<f>> \o Tail(Tail(s))
         IN  /\ t \in Seq(F) /\ Len(t) = Len(s) - 1 /\ t[1] = f
             /\ \A n \in 3 .. Len(s) : t[n - 1] = s[n]
<1>1. Len(s) \in Nat /\ s # <<>>
  OBVIOUS
<1>2. /\ Tail(s) \in Seq(F) /\ Len(Tail(s)) = Len(s) - 1
      /\ \A n \in 1 .. Len(s) - 1 : Tail(s)[n] = s[n + 1]
  BY <1>1
<1>3. Tail(s) # <<>>
  <2>1. Len(Tail(s)) # 0
    BY <1>1, <1>2
  <2>2. Len(<<>>) = 0
    OBVIOUS
  <2> QED BY <2>1, <2>2
<1>4. <<f>> \o Tail(Tail(s)) \in Seq(F) /\ Len(<<f>> \o Tail(Tail(s))) = Len(Tail(s))
      /\ (<<f>> \o Tail(Tail(s)))[1] = f
      /\ \A n \in 2 .. Len(Tail(s)) : (<<f>> \o Tail(Tail(s)))[n] = Tail(s)[n]
  BY <1>2, <1>3, StackTop
<1>5. ASSUME NEW n \in 3 .. Len(s)
      PROVE  (<<f>> \o Tail(Tail(s)))[n - 1] = s[n]
  <2>1. n - 1 \in 2 .. Len(Tail(s)) /\ n - 1 \in 1 .. Len(s) - 1 /\ (n - 1) + 1 = n
    BY <1>1, <1>2
  <2> QED BY <1>2, <1>4, <2>1
<1> QED BY <1>1, <1>2, <1>4, <1>5

\* The elements of a sequence of different ones and others after them.
LEMMA Joined ==
  ASSUME NEW S, NEW s \in Seq(S), NEW t \in Seq(S)
  PROVE  /\ Elements(s \o t) = Elements(s) \cup Elements(t)
         /\ NoneTwice(s) /\ NoneTwice(t) /\ Elements(s) \cap Elements(t) = {}
              => NoneTwice(s \o t)
<1>1. /\ Len(s) \in Nat /\ Len(t) \in Nat /\ Len(s \o t) = Len(s) + Len(t)
      /\ DOMAIN s = 1 .. Len(s) /\ DOMAIN t = 1 .. Len(t)
      /\ DOMAIN (s \o t) = 1 .. Len(s) + Len(t)
  OBVIOUS
<1>2. \A n \in DOMAIN s : n \in DOMAIN (s \o t) /\ (s \o t)[n] = s[n]
  BY <1>1
<1>3. \A n \in DOMAIN t : n + Len(s) \in DOMAIN (s \o t) /\ (s \o t)[n + Len(s)] = t[n]
  BY <1>1
<1>4. \A n \in DOMAIN (s \o t) :
        n \in DOMAIN s \/ (n - Len(s) \in DOMAIN t /\ (s \o t)[n] = t[n - Len(s)])
  BY <1>1
<1> DEFINE u == s \o t
<1>5. \A n \in DOMAIN u : n \in DOMAIN s \/ n - Len(s) \in DOMAIN t
  BY <1>4
<1>6. \A n \in DOMAIN u : n \in DOMAIN s => u[n] = s[n]
  BY <1>2
<1>7. \A n \in DOMAIN u : n \notin DOMAIN s => u[n] = t[n - Len(s)]
  BY <1>4
<1> HIDE DEF u
<1>8. Elements(u) = Elements(s) \cup Elements(t)
  <2>1. ASSUME NEW x \in Elements(u) PROVE x \in Elements(s) \cup Elements(t)
    <3>1. PICK n \in DOMAIN u : x = u[n]
      BY <2>1 DEF Elements
    <3> QED BY <3>1, <1>5, <1>6, <1>7 DEF Elements
  <2>2. ASSUME NEW x \in Elements(s) PROVE x \in Elements(u)
    BY <1>2, <2>2 DEF Elements, u
  <2>3. ASSUME NEW x \in Elements(t) PROVE x \in Elements(u)
    <3>1. PICK n \in DOMAIN t : x = t[n]
      BY <2>3 DEF Elements
    <3>2. n + Len(s) \in DOMAIN u /\ u[n + Len(s)] = x
      BY <1>3, <3>1 DEF u
    <3> QED BY <3>2 DEF Elements
  <2> QED BY <2>1, <2>2, <2>3
<1>9. ASSUME NoneTwice(s), NoneTwice(t), Elements(s) \cap Elements(t) = {},
             NEW a \in DOMAIN u, NEW b \in DOMAIN u, u[a] = u[b]
      PROVE  a = b
  <2>1. CASE a \in DOMAIN s /\ b \in DOMAIN s
    BY <1>6, <1>9, <2>1 DEF NoneTwice
  <2>2. CASE a \notin DOMAIN s /\ b \notin DOMAIN s
    <3>1. a - Len(s) = b - Len(s)
      BY <1>5, <1>7, <1>9, <2>2 DEF NoneTwice
    <3>2. a \in Int /\ b \in Int
      BY <1>1 DEF u
    <3> QED BY <1>1, <3>1, <3>2
  <2>3. CASE a \in DOMAIN s /\ b \notin DOMAIN s
    BY <1>5, <1>6, <1>7, <1>9, <2>3 DEF Elements
  <2>4. CASE a \notin DOMAIN s /\ b \in DOMAIN s
    BY <1>5, <1>6, <1>7, <1>9, <2>4 DEF Elements
  <2> QED BY <2>1, <2>2, <2>3, <2>4
<1> QED BY <1>8, <1>9 DEF NoneTwice, u

\* The sequence of nothing.
LEMMA NoElement == Elements(<<>>) = {} /\ NoneTwice(<<>>)
<1>1. DOMAIN <<>> = {}
  OBVIOUS
<1> QED BY <1>1 DEF Elements, NoneTwice

\* The sequences an answer is.
LEMMA OneElement ==
  ASSUME NEW x
  PROVE  /\ Elements(<<x>>) = {x} /\ NoneTwice(<<x>>)
         /\ Elements(<<>>) = {} /\ NoneTwice(<<>>)
<1>1. DOMAIN <<x>> = {1} /\ <<x>>[1] = x /\ DOMAIN <<>> = {}
  OBVIOUS
<1> QED BY <1>1 DEF Elements, NoneTwice

\* The record does not change during the walk, and what is said of it neither.
LEMMA Unmoved ==
  ASSUME UNCHANGED <<particles, vertices>>
  PROVE  /\ Root' = Root /\ Reached' = Reached /\ Place' = Place /\ Call' = Call
         /\ \A i : Parent(i)' <=> Parent(i)
         /\ \A i : Stripped(i)' <=> Stripped(i)
         /\ \A at : Below(at)' = Below(at)
         /\ \A S : InPlaceOf(S)' = InPlaceOf(S)
<1>1. \A m, k : Leaving(m, k)' = Leaving(m, k)
  BY DEF Leaving
<1>2. Root' = Root
  BY <1>1 DEF Root
<1>3. Place' = Place
  BY <1>2 DEF Place
<1>4. Reached' = Reached
  BY <1>2 DEF Reached
<1> QED BY <1>1, <1>2, <1>3, <1>4 DEF Call, Parent, Stripped, Below, InPlaceOf

\* Below the place of a call is what was below it before.
LEMMA BelowLevel ==
  ASSUME UNCHANGED <<particles, vertices>>, NEW n, Level(n)'.of = Level(n).of
  PROVE  /\ Below(Level(n).of)' = Below(Level(n).of)
         /\ InPlaceOf(Below(Level(n).of))' = InPlaceOf(Below(Level(n).of))
<1>1. \A m, k : Leaving(m, k)' = Leaving(m, k)
  BY DEF Leaving
<1>2. PICK at : at = Level(n).of
  OBVIOUS
<1>3. Below(Level(n).of)' = Below(at)
  BY <1>1, <1>2 DEF Below
<1>4. InPlaceOf(Below(Level(n).of))' = InPlaceOf(Below(at))
  BY <1>3 DEF InPlaceOf
<1> QED BY <1>2, <1>3, <1>4

\* The innermost call is at the top.
LEMMA TopLevel ==
  ASSUME StackInv, stack # <<>>
  PROVE  /\ Len(stack) \in Nat /\ Len(stack) >= 1
         /\ top = Level(Len(stack)) /\ top \in Call
         /\ \A n \in 1 .. Len(stack) : Level(n) \in Call
<1>1. stack \in Seq(Call)
  BY DEF StackInv
<1>2. Len(stack) \in Nat /\ Len(stack) >= 1
  BY <1>1
<1>3. \A n \in 1 .. Len(stack) : Len(stack) - n + 1 \in 1 .. Len(stack)
  BY <1>2
<1>4. \A n \in 1 .. Len(stack) : Level(n) \in Call
  BY <1>1, <1>2, <1>3 DEF Level
<1>5. Len(stack) - Len(stack) + 1 = 1
  BY <1>2
<1> QED BY <1>2, <1>4, <1>5 DEF Level, top

\* A particle is taken from the innermost call, which may find it.
Take(i, a) ==
  stack' = <<[top EXCEPT !.left = @ \ {i}, !.found = @ \o a]>> \o Tail(stack)

\* A particle is taken from the innermost call: the levels below it stay.
LEMMA TakeLevels ==
  ASSUME StackInv, stack # <<>>, NEW i, NEW a \in Seq(DOMAIN particles),
         UNCHANGED <<particles, vertices>>, Take(i, a)
  PROVE  /\ stack' \in Seq(Call') /\ Len(stack') = Len(stack)
         /\ \A n \in 1 .. Len(stack) :
              /\ Level(n)'.call = Level(n).call /\ Level(n)'.of = Level(n).of
              /\ Mother(n)' = Mother(n)
              /\ n # Len(stack) => Level(n)' = Level(n)
              /\ n = Len(stack) => /\ Level(n)'.left = Level(n).left \ {i}
                                   /\ Level(n)'.found = Level(n).found \o a
<1> DEFINE f == [top EXCEPT !.left = @ \ {i}, !.found = @ \o a]
<1>1. /\ Len(stack) \in Nat /\ Len(stack) >= 1 /\ stack \in Seq(Call)
      /\ top = Level(Len(stack)) /\ top \in Call
  BY TopLevel DEF StackInv
<1>2. /\ f \in Call /\ f.call = top.call /\ f.of = top.of
      /\ f.left = top.left \ {i} /\ f.found = top.found \o a
  <2>1. PICK t \in Call : t = top
    BY <1>1
  <2>2. t.found \o a \in Seq(DOMAIN particles) /\ t.left \ {i} \in SUBSET DOMAIN particles
    BY DEF Call
  <2>3. PICK z : z = t.found \o a
    OBVIOUS
  <2>4. f = [[t EXCEPT !.left = @ \ {i}] EXCEPT !.found = z]
    BY <2>1, <2>3
  <2>5. /\ f \in Call /\ f.call = t.call /\ f.of = t.of
        /\ f.left = t.left \ {i} /\ f.found = z
    BY <2>2, <2>3, <2>4 DEF Call
  <2> QED BY <2>1, <2>3, <2>5
<1> HIDE DEF f
<1>3. stack' = <<f>> \o Tail(stack)
  BY DEF Take, f
<1>4. /\ stack' \in Seq(Call) /\ Len(stack') = Len(stack) /\ stack'[1] = f
      /\ \A n \in 2 .. Len(stack) : stack'[n] = stack[n]
  BY <1>1, <1>2, <1>3, StackTop
<1>5. \A n \in 1 .. Len(stack) :
        /\ n = Len(stack) => Len(stack) - n + 1 = 1
        /\ n # Len(stack) => Len(stack) - n + 1 \in 2 .. Len(stack)
  BY <1>1
<1>6. \A n \in 1 .. Len(stack) :
        /\ n = Len(stack) => Level(n)' = f
        /\ n # Len(stack) => Level(n)' = Level(n)
  <2>1. \A n : Level(n)' = stack'[Len(stack) - n + 1] /\ Level(n) = stack[Len(stack) - n + 1]
    BY <1>4 DEF Level
  <2> QED BY <1>4, <1>5, <2>1
<1>7. Call' = Call
  BY Unmoved
<1> QED BY <1>1, <1>2, <1>4, <1>6, <1>7 DEF Mother

\* The innermost call calls getRelevant for a particle it takes.
CallFor(call, i) ==
  stack' = <<Frame(call, <<i>>, particles[i].daughters), [top EXCEPT !.left = @ \ {i}]>>
             \o Tail(stack)

\* getRelevant calls itself: a level is added.
LEMMA CallLevels ==
  ASSUME RecordInv, StackInv, stack # <<>>, NEW i \in DOMAIN particles,
         NEW call \in {"decay", "drop"},
         UNCHANGED <<particles, vertices>>, CallFor(call, i)
  PROVE  /\ stack' \in Seq(Call') /\ Len(stack') = Len(stack) + 1
         /\ \A n \in 1 .. Len(stack) :
              /\ Level(n)'.call = Level(n).call /\ Level(n)'.of = Level(n).of
              /\ Mother(n)' = Mother(n)
              /\ Level(n)'.found = Level(n).found
              /\ n # Len(stack) => Level(n)' = Level(n)
              /\ n = Len(stack) => Level(n)'.left = Level(n).left \ {i}
         /\ \A n \in {Len(stack) + 1} :
              /\ Mother(n)' = i /\ Level(n)'.call = call /\ Level(n)'.of = <<i>>
              /\ Level(n)'.left = particles[i].daughters /\ Level(n)'.found = <<>>
<1> DEFINE f == [top EXCEPT !.left = @ \ {i}]
           g == Frame(call, <<i>>, particles[i].daughters)
<1>1. /\ Len(stack) \in Nat /\ Len(stack) >= 1 /\ stack \in Seq(Call)
      /\ top = Level(Len(stack)) /\ top \in Call
  BY TopLevel DEF StackInv
<1>2. /\ f \in Call /\ f.call = top.call /\ f.of = top.of
      /\ f.left = top.left \ {i} /\ f.found = top.found
  BY <1>1 DEF Call
<1>3. /\ g \in Call /\ g.call = call /\ g.of = <<i>> /\ g.found = <<>>
      /\ g.left = particles[i].daughters
  <2>1. <<i>> \in Place /\ <<>> \in Seq(DOMAIN particles)
        /\ particles[i].daughters \in SUBSET DOMAIN particles
    BY DEF Place, RecordInv
  <2> QED BY <2>1 DEF Frame, Call
<1> HIDE DEF f, g
<1>4. stack' = <<g, f>> \o Tail(stack)
  BY DEF CallFor, f, g
<1>5. /\ stack' \in Seq(Call) /\ Len(stack') = Len(stack) + 1
      /\ stack'[1] = g /\ stack'[2] = f
      /\ \A n \in 2 .. Len(stack) : stack'[n + 1] = stack[n]
  BY <1>1, <1>2, <1>3, <1>4, StackPush
<1>6. ASSUME NEW n \in 1 .. Len(stack)
      PROVE  Level(n)' = IF n = Len(stack) THEN f ELSE Level(n)
  <2>1. Level(n)' = stack'[(Len(stack) + 1) - n + 1] /\ Level(n) = stack[Len(stack) - n + 1]
    BY <1>5 DEF Level
  <2>2. CASE n = Len(stack)
    <3>1. (Len(stack) + 1) - n + 1 = 2
      BY <1>1, <2>2
    <3> QED BY <1>5, <2>1, <2>2, <3>1
  <2>3. CASE n # Len(stack)
    <3>1. /\ (Len(stack) + 1) - n + 1 = (Len(stack) - n + 1) + 1
          /\ Len(stack) - n + 1 \in 2 .. Len(stack)
      BY <1>1, <2>3
    <3> QED BY <1>5, <2>1, <2>3, <3>1
  <2> QED BY <2>2, <2>3
<1>7. ASSUME NEW n \in {Len(stack) + 1}
      PROVE  Level(n)' = g /\ Mother(n)' = i
  <2>1. (Len(stack) + 1) - n + 1 = 1
    BY <1>1
  <2>2. Level(n)' = stack'[(Len(stack) + 1) - n + 1]
    BY <1>5 DEF Level
  <2>3. <<i>>[1] = i
    OBVIOUS
  <2> QED BY <1>3, <1>5, <2>1, <2>2, <2>3 DEF Mother
<1>8. Call' = Call
  BY Unmoved
<1> QED BY <1>1, <1>2, <1>3, <1>5, <1>6, <1>7, <1>8 DEF Mother

\* The innermost call returns what it found to the one before.
LEMMA ReturnLevels ==
  ASSUME StackInv, Len(stack) >= 2, NEW a \in Seq(DOMAIN particles),
         UNCHANGED <<particles, vertices>>, Found(a)
  PROVE  /\ stack' \in Seq(Call') /\ Len(stack') = Len(stack) - 1 /\ Len(stack) \in Nat
         /\ \A n \in 1 .. Len(stack) - 1 :
              /\ Level(n)'.call = Level(n).call /\ Level(n)'.of = Level(n).of
              /\ Mother(n)' = Mother(n)
              /\ Level(n)'.left = Level(n).left
              /\ n # Len(stack) - 1 => Level(n)' = Level(n)
              /\ n = Len(stack) - 1 => Level(n)'.found = Level(n).found \o a
<1> DEFINE f == [stack[2] EXCEPT !.found = @ \o a]
<1>1. Len(stack) \in Nat /\ stack \in Seq(Call) /\ stack[2] \in Call
  BY DEF StackInv
<1>2. /\ f \in Call /\ f.call = stack[2].call /\ f.of = stack[2].of
      /\ f.left = stack[2].left /\ f.found = stack[2].found \o a
  <2>1. PICK t \in Call : t = stack[2]
    BY <1>1
  <2>2. t.found \o a \in Seq(DOMAIN particles)
    BY DEF Call
  <2>3. PICK z : z = t.found \o a
    OBVIOUS
  <2>4. f = [t EXCEPT !.found = z]
    BY <2>1, <2>3
  <2>5. /\ f \in Call /\ f.call = t.call /\ f.of = t.of
        /\ f.left = t.left /\ f.found = z
    BY <2>2, <2>3, <2>4 DEF Call
  <2> QED BY <2>1, <2>3, <2>5
<1> HIDE DEF f
<1>3. stack' = <<f>> \o Tail(Tail(stack))
  BY DEF Found, f
<1>4. /\ stack' \in Seq(Call) /\ Len(stack') = Len(stack) - 1 /\ stack'[1] = f
      /\ \A n \in 3 .. Len(stack) : stack'[n - 1] = stack[n]
  <2> DEFINE t == <<f>> \o Tail(Tail(stack))
  <2>1. stack \in Seq(Call) /\ Len(stack) >= 2 /\ f \in Call
    BY <1>1, <1>2
  <2>2. /\ t \in Seq(Call) /\ Len(t) = Len(stack) - 1 /\ t[1] = f
        /\ \A n \in 3 .. Len(stack) : t[n - 1] = stack[n]
    BY ONLY <2>1, StackPop
  <2>3. stack' = t
    BY <1>3
  <2> HIDE DEF t
  <2> QED BY ONLY <2>2, <2>3
<1>5. ASSUME NEW n \in 1 .. Len(stack) - 1
      PROVE  IF n = Len(stack) - 1 THEN Level(n)' = f /\ Level(n) = stack[2]
             ELSE Level(n)' = Level(n)
  <2>1. Level(n)' = stack'[(Len(stack) - 1) - n + 1] /\ Level(n) = stack[Len(stack) - n + 1]
    BY <1>4 DEF Level
  <2>2. CASE n = Len(stack) - 1
    <3>1. Len(stack) - n + 1 = 2 /\ (Len(stack) - 1) - n + 1 = 1
      BY <1>1, <2>2
    <3> QED BY <1>4, <2>1, <2>2, <3>1
  <2>3. CASE n # Len(stack) - 1
    <3>1. /\ (Len(stack) - 1) - n + 1 = (Len(stack) - n + 1) - 1
          /\ Len(stack) - n + 1 \in 3 .. Len(stack)
      BY <1>1, <2>3
    <3> QED BY <1>4, <2>1, <2>3, <3>1
  <2> QED BY <2>2, <2>3
<1>6. Call' = Call
  BY Unmoved
<1> QED BY <1>1, <1>2, <1>4, <1>5, <1>6 DEF Mother

\* A particle without parents is left by the vertex its entry names.
LEMMA RootLeaves ==
  ASSUME NEW x \in Root
  PROVE  /\ x[3] \in Below(<<x[1], x[2]>>) /\ <<x[1], x[2]>> \in Place
         /\ \A i : <<i>> # <<x[1], x[2]>>
<1>1. PICK m \in DOMAIN vertices : \E k \in DOMAIN vertices[m] : x \in Leaving(m, k)
  BY DEF Root
<1>2. PICK k \in DOMAIN vertices[m] : x \in Leaving(m, k)
  BY <1>1
<1>3. PICK j : x = <<m, k, j>>
  BY <1>2 DEF Leaving
<1>4. x[1] = m /\ x[2] = k
  BY <1>3
<1>5. Len(<<x[1], x[2]>>) = 2 /\ <<x[1], x[2]>>[1] = x[1] /\ <<x[1], x[2]>>[2] = x[2]
  OBVIOUS
<1>6. \A i : Len(<<i>>) = 1
  OBVIOUS
<1>7. x[3] \in Below(<<x[1], x[2]>>)
  BY <1>2, <1>4, <1>5 DEF Below
<1>8. \A i : <<i>> # <<x[1], x[2]>>
  BY <1>5, <1>6
<1> QED BY <1>7, <1>8 DEF Place

\* Below a particle are its daughters.
LEMMA BelowParticle ==
  ASSUME NEW i
  PROVE  Below(<<i>>) = particles[i].daughters
<1>1. Len(<<i>>) = 1 /\ <<i>>[1] = i
  OBVIOUS
<1> QED BY <1>1 DEF Below

\* Below a place are particles.
LEMMA PlaceBelow ==
  ASSUME RecordInv, NEW at \in Place
  PROVE  Below(at) \subseteq DOMAIN particles
<1>1. CASE \E i \in DOMAIN particles : at = <<i>>
  BY <1>1, BelowParticle DEF RecordInv
<1>2. CASE \E x \in Root : at = <<x[1], x[2]>>
  <2>1. PICK x \in Root : at = <<x[1], x[2]>>
    BY <1>2
  <2>2. Len(at) = 2 /\ at[1] = x[1] /\ at[2] = x[2]
    BY <2>1
  <2>3. PICK m \in DOMAIN vertices : \E k \in DOMAIN vertices[m] : x \in Leaving(m, k)
    BY DEF Root
  <2>4. PICK k \in DOMAIN vertices[m] : x \in Leaving(m, k)
    BY <2>3
  <2>5. x[1] = m /\ x[2] = k
    BY <2>4 DEF Leaving
  <2>6. Leaving(at[1], at[2]) \subseteq Root
    BY <2>2, <2>4, <2>5 DEF Root
  <2> QED BY <2>2, <2>6 DEF Below, RecordInv
<1> QED BY <1>1, <1>2 DEF Place

\* The particle the innermost call goes on with is one the walk should reach, one of
\* those immediately below the place of the call, and passed over if it was visited,
\* unless it is a daughter without parents and the call is that from its vertex.
LEMMA ToVisit ==
  ASSUME RecordInv, StackInv, ReachInv, NEW i, At(i)
  PROVE  /\ stack # <<>> /\ i \in Level(Len(stack)).left
         /\ i \in DOMAIN particles /\ i \in Reached
         /\ i \in Below(Level(Len(stack)).of)
         /\ Below(Level(Len(stack)).of) \subseteq DOMAIN particles
         /\ particles[i].parents = {} => Stripped(i) \/ \E x \in rooted : x[3] = i
         /\ ~Seen(i) => \/ i \notin visited
                        \/ Len(stack) = 1 /\ Stripped(i) /\ Level(1).found = <<>>
<1>1. stack # <<>> /\ i \in top.left
  BY DEF At, Walking
<1>2. /\ Len(stack) \in Nat /\ Len(stack) >= 1 /\ top = Level(Len(stack))
      /\ top \in Call
  BY <1>1, TopLevel
<1>3. i \in DOMAIN particles
  BY <1>1, <1>2 DEF Call
<1>4. CASE Len(stack) = 1
  <2>1. PICK x \in rooted : /\ Level(1).call = "vertex" /\ Level(1).of = <<x[1], x[2]>>
                            /\ Level(1).left \subseteq {x[3]}
                            /\ Level(1).left # {} =>
                                 /\ Len(stack) = 1 /\ Level(1).found = <<>>
                                 /\ x[3] \notin visited \/ Stripped(x[3])
    BY <1>1 DEF StackInv
  <2>2. /\ i = x[3] /\ x \in Root /\ Level(1).found = <<>>
        /\ i \notin visited \/ Stripped(i)
    BY <1>1, <1>2, <1>4, <2>1 DEF StackInv
  <2>3. i \in Reached
    BY <2>2, Reaching
  <2>4. i \in Below(Level(1).of)
    BY <2>1, <2>2, RootLeaves
  <2>5. Below(Level(1).of) \subseteq DOMAIN particles
    BY <1>2, <1>4, PlaceBelow DEF Call
  <2> QED BY <1>1, <1>2, <1>3, <1>4, <2>2, <2>3, <2>4, <2>5
<1>5. CASE Len(stack) # 1
  <2> DEFINE n == Len(stack)
  <2>1. n \in 2 .. n
    <3>1. n \in Nat /\ n >= 1 /\ n # 1
      BY <1>2, <1>5
    <3> HIDE DEF n
    <3> QED BY <3>1
  <2>2. /\ Level(n).of = <<Mother(n)>> /\ Mother(n) \in visited
        /\ Level(n).call # "vertex"
        /\ particles[Mother(n)].kind \in {"decayed", "dropped"}
        /\ Level(n).left \subseteq particles[Mother(n)].daughters
    BY <2>1 DEF StackInv
  <2>3. Mother(n) \in Reached /\ Mother(n) \in DOMAIN particles
    BY <2>2 DEF ReachInv, Reached
  <2>4. i \in particles[Mother(n)].daughters
    BY <1>1, <1>2, <2>2
  <2>5. i \in Reached
    BY <2>2, <2>3, <2>4, Reaching
  <2>6. Below(Level(n).of) = particles[Mother(n)].daughters
    BY <2>2, BelowParticle
  <2>7. particles[i].parents = {} => Stripped(i)
    BY <1>3, <2>3, <2>4 DEF Stripped
  <2>8. Below(Level(n).of) \subseteq DOMAIN particles
    BY <2>3, <2>6 DEF RecordInv
  <2>9. ~Seen(i) => i \notin visited
    BY <1>2, <2>2 DEF Seen
  <2> QED BY <1>1, <1>2, <1>3, <2>4, <2>5, <2>6, <2>7, <2>8, <2>9
<1> QED BY <1>4, <1>5

\* The stack after a particle was taken from the innermost call.
LEMMA TakeStack ==
  ASSUME RecordInv, StackInv, ReachInv, NEW i, At(i), NEW a \in Seq(DOMAIN particles),
         UNCHANGED <<particles, vertices, rooted>>, Take(i, a), visited' = visited \cup {i}
  PROVE  StackInv'
<1>1. /\ Root' = Root /\ \A j : (Parent(j)' <=> Parent(j)) /\ (Stripped(j)' <=> Stripped(j))
      /\ \A at : Below(at)' = Below(at)
  BY Unmoved
<1>2. /\ stack # <<>> /\ i \in Level(Len(stack)).left
      /\ particles[i].parents = {} => Stripped(i) \/ \E x \in rooted : x[3] = i
  BY ToVisit
<1>3. Len(stack) \in Nat /\ Len(stack) >= 1
  BY <1>2, TopLevel
<1>4. /\ stack' \in Seq(Call') /\ Len(stack') = Len(stack)
      /\ \A n \in 1 .. Len(stack) :
           /\ Level(n)'.call = Level(n).call /\ Level(n)'.of = Level(n).of
           /\ Mother(n)' = Mother(n)
           /\ n # Len(stack) => Level(n)' = Level(n)
           /\ n = Len(stack) => Level(n)'.left = Level(n).left \ {i}
  BY <1>2, TakeLevels
<1>5. \E x \in rooted' : /\ Level(1)'.call = "vertex" /\ Level(1)'.of = <<x[1], x[2]>>
                         /\ Level(1)'.left \subseteq {x[3]}
                         /\ Level(1)'.left # {} =>
                              /\ Len(stack') = 1 /\ Level(1)'.found = <<>>
                              /\ x[3] \notin visited' \/ Stripped(x[3])'
  <2>1. PICK x \in rooted : /\ Level(1).call = "vertex" /\ Level(1).of = <<x[1], x[2]>>
                            /\ Level(1).left \subseteq {x[3]}
                            /\ Level(1).left # {} =>
                                 /\ Len(stack) = 1 /\ Level(1).found = <<>>
                                 /\ x[3] \notin visited \/ Stripped(x[3])
    BY <1>2 DEF StackInv
  <2>2. 1 \in 1 .. Len(stack)
    BY <1>3
  <2>3. Level(1)'.left = {}
    BY <1>2, <1>4, <2>1, <2>2
  <2> QED BY <1>4, <2>1, <2>2, <2>3
<1>6. ASSUME NEW n \in 2 .. Len(stack')
      PROVE  /\ Level(n)'.of = <<Mother(n)'>> /\ Mother(n)' \in visited'
             /\ Mother(n)' \in Below(Level(n - 1).of)'
             /\ \/ Level(n)'.call = "decay" /\ particles'[Mother(n)'].kind = "decayed"
                \/ Level(n)'.call = "drop" /\ particles'[Mother(n)'].kind = "dropped"
             /\ Level(n)'.left \subseteq particles'[Mother(n)'].daughters
             /\ Parent(Mother(n))'
  <2>1. n \in 1 .. Len(stack) /\ n \in 2 .. Len(stack) /\ n - 1 \in 1 .. Len(stack)
    BY <1>3, <1>4
  <2>2. /\ Level(n)'.call = Level(n).call /\ Level(n)'.of = Level(n).of
        /\ Mother(n)' = Mother(n) /\ Level(n - 1)'.of = Level(n - 1).of
        /\ Level(n)'.left \subseteq Level(n).left
    BY <1>4, <2>1
  <2>3. Below(Level(n - 1).of)' = Below(Level(n - 1).of)
    BY <2>2, BelowLevel
  <2>4. Parent(Mother(n))' <=> Parent(Mother(n))
    BY <2>2 DEF Parent
  <2> QED BY <2>1, <2>2, <2>3, <2>4 DEF StackInv
<1>7. \A n, o \in 1 .. Len(stack') : Level(n)'.of = Level(o)'.of => n = o
  BY <1>4 DEF StackInv
<1>8. \A j \in visited' :
        particles'[j].parents = {} => Stripped(j)' \/ \E x \in rooted' : x[3] = j
  BY <1>1, <1>2 DEF StackInv
<1>9. rooted' \subseteq Root'
  BY <1>1 DEF StackInv
<1> QED BY <1>4, <1>5, <1>6, <1>7, <1>8, <1>9 DEF StackInv

\* The stack after the innermost call called getRelevant for a particle that was not
\* visited before, or by none of the open calls, and is on the stack nowhere else.
LEMMA CallStack ==
  ASSUME RecordInv, StackInv, ReachInv, NEW i, At(i), i \notin visited \/ Len(stack) = 1, Parent(i),
         NEW call \in {"decay", "drop"},
         particles[i].kind = IF call = "decay" THEN "decayed" ELSE "dropped",
         UNCHANGED <<particles, vertices, rooted>>, CallFor(call, i),
         visited' = visited \cup {i}
  PROVE  StackInv'
<1>1. /\ Root' = Root /\ \A j : (Parent(j)' <=> Parent(j)) /\ (Stripped(j)' <=> Stripped(j))
      /\ \A at : Below(at)' = Below(at)
  BY Unmoved
<1>2. /\ stack # <<>> /\ i \in Level(Len(stack)).left /\ i \in DOMAIN particles
      /\ i \in Below(Level(Len(stack)).of)
      /\ particles[i].parents = {} => Stripped(i) \/ \E x \in rooted : x[3] = i
  BY ToVisit
<1>3. Len(stack) \in Nat /\ Len(stack) >= 1
  BY <1>2, TopLevel
<1>4. /\ stack' \in Seq(Call') /\ Len(stack') = Len(stack) + 1
      /\ \A n \in 1 .. Len(stack) :
           /\ Level(n)'.call = Level(n).call /\ Level(n)'.of = Level(n).of
           /\ Mother(n)' = Mother(n)
           /\ n # Len(stack) => Level(n)' = Level(n)
           /\ n = Len(stack) => Level(n)'.left = Level(n).left \ {i}
      /\ \A n \in {Len(stack) + 1} :
           /\ Mother(n)' = i /\ Level(n)'.call = call /\ Level(n)'.of = <<i>>
           /\ Level(n)'.left = particles[i].daughters
  BY <1>2, CallLevels
<1>5. /\ \E x \in rooted' : /\ Level(1)'.call = "vertex" /\ Level(1)'.of = <<x[1], x[2]>>
                            /\ Level(1)'.left \subseteq {x[3]}
                            /\ Level(1)'.left # {} =>
                                 /\ Len(stack') = 1 /\ Level(1)'.found = <<>>
                                 /\ x[3] \notin visited' \/ Stripped(x[3])'
      /\ Level(1).of # <<i>>
  <2>1. PICK x \in rooted : /\ Level(1).call = "vertex" /\ Level(1).of = <<x[1], x[2]>>
                            /\ Level(1).left \subseteq {x[3]}
                            /\ Level(1).left # {} =>
                                 /\ Len(stack) = 1 /\ Level(1).found = <<>>
                                 /\ x[3] \notin visited \/ Stripped(x[3])
    BY <1>2 DEF StackInv
  <2>2. 1 \in 1 .. Len(stack)
    BY <1>3
  <2>3. Level(1)'.left = {}
    BY <1>2, <1>4, <2>1, <2>2
  <2>4. x \in Root
    BY DEF StackInv
  <2> QED BY <1>4, <2>1, <2>2, <2>3, <2>4, RootLeaves
<1>6. ASSUME NEW n \in 2 .. Len(stack')
      PROVE  /\ Level(n)'.of = <<Mother(n)'>> /\ Mother(n)' \in visited'
             /\ Mother(n)' \in Below(Level(n - 1).of)'
             /\ \/ Level(n)'.call = "decay" /\ particles'[Mother(n)'].kind = "decayed"
                \/ Level(n)'.call = "drop" /\ particles'[Mother(n)'].kind = "dropped"
             /\ Level(n)'.left \subseteq particles'[Mother(n)'].daughters
             /\ Parent(Mother(n))'
  <2>1. CASE n = Len(stack) + 1
    <3>1. n - 1 = Len(stack) /\ Len(stack) \in 1 .. Len(stack)
      BY <1>3, <2>1
    <3>2. Level(n - 1)'.of = Level(Len(stack)).of
      BY <1>4, <3>1
    <3>3. Below(Level(n - 1).of)' = Below(Level(Len(stack)).of)
      BY <1>1, <3>2 DEF Below, Leaving
    <3>4. Parent(Mother(n))'
      BY <1>4, <2>1 DEF Parent
    <3> QED BY <1>2, <1>4, <2>1, <3>3, <3>4
  <2>2. CASE n # Len(stack) + 1
    <3>1. n \in 1 .. Len(stack) /\ n \in 2 .. Len(stack) /\ n - 1 \in 1 .. Len(stack)
      BY <1>3, <1>4, <2>2
    <3>2. /\ Level(n)'.call = Level(n).call /\ Level(n)'.of = Level(n).of
          /\ Mother(n)' = Mother(n) /\ Level(n - 1)'.of = Level(n - 1).of
          /\ Level(n)'.left \subseteq Level(n).left
      BY <1>4, <3>1
    <3>3. Below(Level(n - 1).of)' = Below(Level(n - 1).of)
      BY <3>2, BelowLevel
    <3>4. Parent(Mother(n))' <=> Parent(Mother(n))
      BY <3>2 DEF Parent
    <3> QED BY <3>1, <3>2, <3>3, <3>4 DEF StackInv
  <2> QED BY <2>1, <2>2
<1>7. \A n, o \in 1 .. Len(stack') : Level(n)'.of = Level(o)'.of => n = o
  <2>1. ASSUME NEW n \in 1 .. Len(stack)
        PROVE  Level(n)'.of # <<i>>
    <3>1. CASE n = 1
      BY <1>4, <1>5, <3>1
    <3>2. CASE n # 1
      <4>1. Level(n).of = <<Mother(n)>> /\ Mother(n) \in visited
        BY <1>3, <3>2 DEF StackInv
      <4>2. n \in 1 .. Len(stack) /\ n # 1 /\ Len(stack) \in Nat
        BY <1>3, <3>2
      <4>3. Len(stack) # 1
        BY ONLY <4>2
      <4>5. Mother(n) # i
        BY <4>1, <4>3
      <4>4. <<Mother(n)>> # <<i>>
        BY <4>5
      <4> QED BY <1>4, <4>1, <4>4
    <3> QED BY <3>1, <3>2
  <2>2. \A n \in 1 .. Len(stack') : n \in 1 .. Len(stack) \/ n = Len(stack) + 1
    BY <1>3, <1>4
  <2>3. \A n, o \in 1 .. Len(stack) : Level(n)'.of = Level(o)'.of => n = o
    BY <1>4 DEF StackInv
  <2> QED BY <1>4, <2>1, <2>2, <2>3
<1>8. \A j \in visited' :
        particles'[j].parents = {} => Stripped(j)' \/ \E x \in rooted' : x[3] = j
  BY <1>1, <1>2 DEF StackInv
<1>9. rooted' \subseteq Root'
  BY <1>1 DEF StackInv
<1> QED BY <1>4, <1>5, <1>6, <1>7, <1>8, <1>9 DEF StackInv

\* The stack after a return.
LEMMA ReturnStack ==
  ASSUME StackInv, Len(stack) >= 2, NEW a \in Seq(DOMAIN particles),
         UNCHANGED <<particles, vertices, rooted, visited>>, Found(a)
  PROVE  StackInv'
<1>1. /\ Root' = Root /\ \A j : (Parent(j)' <=> Parent(j)) /\ (Stripped(j)' <=> Stripped(j))
      /\ \A at : Below(at)' = Below(at)
  BY Unmoved
<1>2. /\ stack' \in Seq(Call') /\ Len(stack') = Len(stack) - 1 /\ Len(stack) \in Nat
      /\ \A n \in 1 .. Len(stack) - 1 :
           /\ Level(n)'.call = Level(n).call /\ Level(n)'.of = Level(n).of
           /\ Mother(n)' = Mother(n) /\ Level(n)'.left = Level(n).left
  BY ReturnLevels
<1>3. \E x \in rooted' : /\ Level(1)'.call = "vertex" /\ Level(1)'.of = <<x[1], x[2]>>
                         /\ Level(1)'.left \subseteq {x[3]}
                         /\ Level(1)'.left # {} =>
                              /\ Len(stack') = 1 /\ Level(1)'.found = <<>>
                              /\ x[3] \notin visited' \/ Stripped(x[3])'
  <2>1. stack # <<>>
    <3>1. Len(<<>>) = 0
      OBVIOUS
    <3> QED BY <1>2, <3>1
  <2>2. PICK x \in rooted : /\ Level(1).call = "vertex" /\ Level(1).of = <<x[1], x[2]>>
                            /\ Level(1).left \subseteq {x[3]}
                            /\ Level(1).left # {} =>
                                 /\ Len(stack) = 1 /\ Level(1).found = <<>>
                                 /\ x[3] \notin visited \/ Stripped(x[3])
    BY <2>1 DEF StackInv
  <2>3. 1 \in 1 .. Len(stack) - 1 /\ Level(1).left = {}
    BY <1>2, <2>2
  <2> QED BY <1>2, <2>2, <2>3
<1>4. ASSUME NEW n \in 2 .. Len(stack')
      PROVE  /\ Level(n)'.of = <<Mother(n)'>> /\ Mother(n)' \in visited'
             /\ Mother(n)' \in Below(Level(n - 1).of)'
             /\ \/ Level(n)'.call = "decay" /\ particles'[Mother(n)'].kind = "decayed"
                \/ Level(n)'.call = "drop" /\ particles'[Mother(n)'].kind = "dropped"
             /\ Level(n)'.left \subseteq particles'[Mother(n)'].daughters
             /\ Parent(Mother(n))'
  <2>1. n \in 1 .. Len(stack) - 1 /\ n \in 2 .. Len(stack) /\ n - 1 \in 1 .. Len(stack) - 1
    BY <1>2
  <2>2. /\ Level(n)'.call = Level(n).call /\ Level(n)'.of = Level(n).of
        /\ Mother(n)' = Mother(n) /\ Level(n - 1)'.of = Level(n - 1).of
        /\ Level(n)'.left = Level(n).left
    BY <1>2, <2>1
  <2>3. Below(Level(n - 1).of)' = Below(Level(n - 1).of)
    BY <2>2, BelowLevel
  <2>4. Parent(Mother(n))' <=> Parent(Mother(n))
    BY <2>2 DEF Parent
  <2> QED BY <2>1, <2>2, <2>3, <2>4 DEF StackInv
<1>5. \A n, o \in 1 .. Len(stack') : Level(n)'.of = Level(o)'.of => n = o
  <2>1. \A n \in 1 .. Len(stack') : n \in 1 .. Len(stack) - 1 /\ n \in 1 .. Len(stack)
    BY <1>2
  <2>2. \A n \in 1 .. Len(stack') : Level(n)'.of = Level(n).of
    BY <1>2, <2>1
  <2>3. \A n, o \in 1 .. Len(stack) : Level(n).of = Level(o).of => n = o
    BY DEF StackInv
  <2> QED BY <2>1, <2>2, <2>3, Zenon
<1>6. /\ rooted' \subseteq Root'
      /\ \A j \in visited' :
           particles'[j].parents = {} => Stripped(j)' \/ \E x \in rooted' : x[3] = j
  BY <1>1 DEF StackInv
<1> QED BY <1>2, <1>3, <1>4, <1>5, <1>6 DEF StackInv

\* The walk starts from a vertex: the stack has one level.
LEMMA StartLevels ==
  ASSUME RecordInv, NEW x \in Root, StartRoot(x)
  PROVE  /\ UNCHANGED <<particles, vertices, visited, prim, links>>
         /\ stack = <<>> /\ rooted' = rooted \cup {x} /\ x \notin rooted
         /\ stack' \in Seq(Call') /\ Len(stack') = 1 /\ stack' # <<>>
         /\ Level(1)'.call = "vertex" /\ Level(1)'.of = <<x[1], x[2]>>
         /\ Level(1)'.left = {x[3]} /\ Level(1)'.found = <<>>
<1> DEFINE f == Frame("vertex", <<x[1], x[2]>>, {x[3]})
<1>1. /\ UNCHANGED <<particles, vertices, visited, prim, links>>
      /\ stack = <<>> /\ rooted' = rooted \cup {x} /\ x \notin rooted
      /\ stack' = <<f>>
  BY DEF StartRoot, output
<1>2. /\ f.call = "vertex" /\ f.of = <<x[1], x[2]>> /\ f.left = {x[3]} /\ f.found = <<>>
      /\ f \in Call
  <2>1. <<x[1], x[2]>> \in Place /\ x[3] \in DOMAIN particles /\ <<>> \in Seq(DOMAIN particles)
    BY RootLeaves DEF RecordInv
  <2> QED BY <2>1 DEF Frame, Call
<1> HIDE DEF f
<1>3. /\ <<f>> \in Seq(Call) /\ Len(<<f>>) = 1 /\ <<f>>[1] = f /\ <<f>> # <<>>
  BY <1>2
<1>4. 1 - 1 + 1 = 1
  OBVIOUS
<1>5. Call' = Call
  BY <1>1, Unmoved
<1> QED BY <1>1, <1>2, <1>3, <1>4, <1>5 DEF Level

\* The call from a vertex is the only one.
LEMMA StartStack ==
  ASSUME RecordInv, StackInv, NEW x \in Root, StartRoot(x)
  PROVE  StackInv'
<1>1. /\ UNCHANGED <<particles, vertices, visited>>
      /\ rooted' = rooted \cup {x} /\ x \notin rooted
      /\ stack' \in Seq(Call') /\ Len(stack') = 1
      /\ Level(1)'.call = "vertex" /\ Level(1)'.of = <<x[1], x[2]>>
      /\ Level(1)'.left = {x[3]} /\ Level(1)'.found = <<>>
  BY StartLevels
<1>2. Root' = Root /\ \A j : Stripped(j)' <=> Stripped(j)
  BY <1>1, Unmoved
<1>3. x[3] \notin visited \/ Stripped(x[3])
  <2>1. particles[x[3]].parents = {}
    BY DEF RecordInv
  <2>2. x[3] \in visited => Stripped(x[3]) \/ \E y \in rooted : y[3] = x[3] /\ y \in Root
    BY <2>1 DEF StackInv
  <2> QED BY <1>1, <2>2 DEF RecordInv
<1>4. \A n : n \notin 2 .. Len(stack')
  BY <1>1
<1>5. \A n, o \in 1 .. Len(stack') : n = o
  BY <1>1
<1>6. \A j \in visited' :
        particles'[j].parents = {} => Stripped(j)' \/ \E y \in rooted' : y[3] = j
  BY <1>1, <1>2 DEF StackInv
<1>7. rooted' \subseteq Root'
  BY <1>1, <1>2 DEF StackInv
<1> QED BY <1>1, <1>2, <1>3, <1>4, <1>5, <1>6, <1>7 DEF StackInv

-----------------------------------------------------------------------------
\* The particles that should have primaries, of those that were visited.
Relevant(S) == {i \in S : particles[i].kind = "stable"
                            \/ (particles[i].kind = "decayed" /\ Parent(i))}

\* A particle is visited that leads to no others, or was visited before.
LEMMA TakeReach ==
  ASSUME RecordInv, StackInv, ReachInv, NEW i, At(i), NEW a \in Seq(DOMAIN particles),
         i \in visited \/ ~Parent(i) \/ particles[i].kind \in {"stable", "vetoed"},
         UNCHANGED <<particles, vertices, rooted>>, Take(i, a), visited' = visited \cup {i},
         prim' = Relevant(visited')
  PROVE  ReachInv'
<1>1. /\ Reached' = Reached /\ \A j : Parent(j)' <=> Parent(j)
  BY Unmoved
<1>2. stack # <<>> /\ i \in Reached
  BY ToVisit
<1>3. Len(stack) \in Nat /\ Len(stack) >= 1
  BY <1>2, TopLevel
<1>4. /\ Len(stack') = Len(stack)
      /\ \A n \in 1 .. Len(stack) :
           /\ Mother(n)' = Mother(n)
           /\ \A d : d \in Level(n).left /\ d # i => d \in Level(n)'.left
  BY <1>2, TakeLevels
<1>5. stack' # <<>>
  <2>1. Len(<<>>) = 0
    OBVIOUS
  <2> QED BY <1>3, <1>4, <2>1
<1>6. visited' \subseteq Reached'
  BY <1>1, <1>2 DEF ReachInv
<1>7. prim' = {j \in visited' : particles'[j].kind = "stable"
                                  \/ (particles'[j].kind = "decayed" /\ Parent(j)')}
  BY <1>1 DEF Relevant
<1>8. ASSUME NEW j \in visited'
      PROVE  /\ particles'[j].kind = "broken" => ~Parent(j)'
             /\ particles'[j].kind \in {"decayed", "dropped"} =>
                  \A d \in particles'[j].daughters :
                    d \in visited' \/ \E n \in 2 .. Len(stack') : Mother(n)' = j /\ d \in Level(n)'.left
  <2>1. CASE j \in visited
    <3>1. particles[j].kind = "broken" => ~Parent(j)
      BY <2>1 DEF ReachInv
    <3>2. ASSUME particles[j].kind \in {"decayed", "dropped"}, NEW d \in particles[j].daughters
          PROVE  d \in visited' \/ \E n \in 2 .. Len(stack') : Mother(n)' = j /\ d \in Level(n)'.left
      <4>1. CASE d \in visited \/ d = i
        BY <4>1
      <4>2. CASE ~(d \in visited \/ d = i)
        <5>1. PICK n \in 2 .. Len(stack) : Mother(n) = j /\ d \in Level(n).left
          BY <2>1, <3>2, <4>2 DEF ReachInv
        <5>2. n \in 1 .. Len(stack)
          BY <1>3
        <5>3. Mother(n)' = j /\ d \in Level(n)'.left
          BY <1>4, <4>2, <5>1, <5>2
        <5> QED BY <1>4, <5>3
      <4> QED BY <4>1, <4>2
    <3> QED BY <1>1, <3>1, <3>2
  <2>2. CASE j \notin visited
    <3>1. j = i /\ (~Parent(i) \/ particles[i].kind \in {"stable", "vetoed"})
      BY <2>2
    <3>2. ~Parent(i) => particles[i].daughters = {}
      BY DEF Parent
    <3> QED BY <1>1, <3>1, <3>2
  <2> QED BY <2>1, <2>2
<1>9. ASSUME NEW x \in rooted'
      PROVE  x[3] \in visited' \/ (stack' # <<>> /\ x[3] \in Level(1)'.left)
  <2>1. x[3] \in visited \/ x[3] \in Level(1).left
    BY DEF ReachInv
  <2>2. 1 \in 1 .. Len(stack)
    BY <1>3
  <2> QED BY <1>4, <1>5, <2>1, <2>2
<1> QED BY <1>6, <1>7, <1>8, <1>9 DEF ReachInv

\* A particle is visited that leads to others: they are left to the new call.
LEMMA CallReach ==
  ASSUME RecordInv, StackInv, ReachInv, NEW i, At(i), NEW call \in {"decay", "drop"},
         particles[i].kind # "broken",
         UNCHANGED <<particles, vertices, rooted>>, CallFor(call, i),
         visited' = visited \cup {i}, prim' = Relevant(visited')
  PROVE  ReachInv'
<1>1. /\ Reached' = Reached /\ \A j : Parent(j)' <=> Parent(j)
  BY Unmoved
<1>2. stack # <<>> /\ i \in Reached /\ i \in DOMAIN particles
  BY ToVisit
<1>3. Len(stack) \in Nat /\ Len(stack) >= 1
  BY <1>2, TopLevel
<1>4. /\ Len(stack') = Len(stack) + 1
      /\ \A n \in 1 .. Len(stack) :
           /\ Mother(n)' = Mother(n)
           /\ \A d : d \in Level(n).left /\ d # i => d \in Level(n)'.left
      /\ \A n \in {Len(stack) + 1} :
           Mother(n)' = i /\ Level(n)'.left = particles[i].daughters
  BY <1>2, CallLevels
<1>5. stack' # <<>>
  <2>1. Len(<<>>) = 0
    OBVIOUS
  <2> QED BY <1>3, <1>4, <2>1
<1>6. visited' \subseteq Reached'
  BY <1>1, <1>2 DEF ReachInv
<1>7. prim' = {j \in visited' : particles'[j].kind = "stable"
                                  \/ (particles'[j].kind = "decayed" /\ Parent(j)')}
  BY <1>1 DEF Relevant
<1>8. ASSUME NEW j \in visited'
      PROVE  /\ particles'[j].kind = "broken" => ~Parent(j)'
             /\ particles'[j].kind \in {"decayed", "dropped"} =>
                  \A d \in particles'[j].daughters :
                    d \in visited' \/ \E n \in 2 .. Len(stack') : Mother(n)' = j /\ d \in Level(n)'.left
  <2>1. CASE j \in visited
    <3>1. particles[j].kind = "broken" => ~Parent(j)
      BY <2>1 DEF ReachInv
    <3>2. ASSUME particles[j].kind \in {"decayed", "dropped"}, NEW d \in particles[j].daughters
          PROVE  d \in visited' \/ \E n \in 2 .. Len(stack') : Mother(n)' = j /\ d \in Level(n)'.left
      <4>1. CASE d \in visited \/ d = i
        BY <4>1
      <4>2. CASE ~(d \in visited \/ d = i)
        <5>1. PICK n \in 2 .. Len(stack) : Mother(n) = j /\ d \in Level(n).left
          BY <2>1, <3>2, <4>2 DEF ReachInv
        <5>2. n \in 1 .. Len(stack) /\ n \in 2 .. Len(stack')
          BY <1>3, <1>4
        <5>3. Mother(n)' = j /\ d \in Level(n)'.left
          BY <1>4, <4>2, <5>1, <5>2
        <5> QED BY <5>2, <5>3
      <4> QED BY <4>1, <4>2
    <3> QED BY <1>1, <3>1, <3>2
  <2>2. CASE j \notin visited
    <3>1. j = i
      BY <2>2
    <3>2. Len(stack) + 1 \in 2 .. Len(stack')
      BY <1>3, <1>4
    <3>3. \A d \in particles[j].daughters :
            \E n \in 2 .. Len(stack') : Mother(n)' = j /\ d \in Level(n)'.left
      BY <1>4, <3>1, <3>2
    <3> QED BY <3>1, <3>3
  <2> QED BY <2>1, <2>2
<1>9. ASSUME NEW x \in rooted'
      PROVE  x[3] \in visited' \/ (stack' # <<>> /\ x[3] \in Level(1)'.left)
  <2>1. x[3] \in visited \/ x[3] \in Level(1).left
    BY DEF ReachInv
  <2>2. 1 \in 1 .. Len(stack)
    BY <1>3
  <2> QED BY <1>4, <1>5, <2>1, <2>2
<1> QED BY <1>6, <1>7, <1>8, <1>9 DEF ReachInv

\* A call returns when nothing is left to it.
LEMMA ReturnReach ==
  ASSUME StackInv, ReachInv, Len(stack) >= 2, Level(Len(stack)).left = {},
         NEW a \in Seq(DOMAIN particles),
         UNCHANGED <<particles, vertices, rooted, visited, prim>>, Found(a)
  PROVE  ReachInv'
<1>1. /\ Reached' = Reached /\ \A j : Parent(j)' <=> Parent(j)
  BY Unmoved
<1>2. /\ Len(stack') = Len(stack) - 1 /\ Len(stack) \in Nat
      /\ \A n \in 1 .. Len(stack) - 1 :
           Mother(n)' = Mother(n) /\ Level(n)'.left = Level(n).left
  BY ReturnLevels
<1>3. stack' # <<>> /\ 1 \in 1 .. Len(stack) - 1
  <2>1. Len(<<>>) = 0
    OBVIOUS
  <2> QED BY <1>2, <2>1
<1>4. ASSUME NEW n \in 2 .. Len(stack), NEW d \in Level(n).left
      PROVE  n \in 2 .. Len(stack') /\ Mother(n)' = Mother(n) /\ d \in Level(n)'.left
  <2>1. n # Len(stack)
    BY <1>4
  <2>2. n \in 1 .. Len(stack) - 1 /\ n \in 2 .. Len(stack')
    BY <1>2, <2>1
  <2> QED BY <1>2, <2>2
<1>5. \A j \in visited : particles[j].kind \in {"decayed", "dropped"} =>
        \A d \in particles[j].daughters :
          d \in visited \/ \E n \in 2 .. Len(stack') : Mother(n)' = j /\ d \in Level(n)'.left
  BY <1>4 DEF ReachInv
<1>6. \A x \in rooted : x[3] \in visited \/ x[3] \in Level(1)'.left
  BY <1>2, <1>3 DEF ReachInv
<1>7. /\ visited' \subseteq Reached'
      /\ \A j \in visited : particles[j].kind = "broken" => ~Parent(j)'
      /\ prim' = {j \in visited' : particles'[j].kind = "stable"
                                     \/ (particles'[j].kind = "decayed" /\ Parent(j)')}
  BY <1>1 DEF ReachInv
<1> QED BY <1>3, <1>5, <1>6, <1>7 DEF ReachInv

\* The particle of a vertex is left to the call from it.
LEMMA StartReach ==
  ASSUME RecordInv, ReachInv, NEW x \in Root, StartRoot(x)
  PROVE  ReachInv'
<1>1. /\ UNCHANGED <<particles, vertices, visited, prim>>
      /\ stack = <<>> /\ rooted' = rooted \cup {x} /\ stack' # <<>>
      /\ Level(1)'.left = {x[3]}
  BY StartLevels
<1>2. /\ Reached' = Reached /\ \A j : Parent(j)' <=> Parent(j)
  BY <1>1, Unmoved
<1>3. \A n : n \notin 2 .. Len(stack)
  <2>1. Len(stack) = 0
    BY <1>1
  <2> QED BY <2>1
<1>4. \A j \in visited : particles[j].kind \in {"decayed", "dropped"} =>
        \A d \in particles[j].daughters : d \in visited
  BY <1>3 DEF ReachInv
<1>5. \A y \in rooted' : y[3] \in visited \/ y[3] \in Level(1)'.left
  BY <1>1 DEF ReachInv
<1>6. /\ visited' \subseteq Reached'
      /\ \A j \in visited : particles[j].kind = "broken" => ~Parent(j)'
      /\ prim' = {j \in visited' : particles'[j].kind = "stable"
                                     \/ (particles'[j].kind = "decayed" /\ Parent(j)')}
  BY <1>1, <1>2 DEF ReachInv
<1> QED BY <1>1, <1>4, <1>5, <1>6 DEF ReachInv

\* Only the call at the bottom of the stack is one from a vertex.
LEMMA TopCall ==
  ASSUME StackInv, stack # <<>>
  PROVE  IF top.call = "vertex" THEN Len(stack) = 1
         ELSE /\ Len(stack) >= 2 /\ top.of = <<Mother(Len(stack))>>
              /\ top.call \in {"decay", "drop"}
<1>1. Len(stack) \in Nat /\ Len(stack) >= 1 /\ top = Level(Len(stack))
  BY TopLevel
<1>2. CASE Len(stack) = 1
  BY <1>1, <1>2 DEF StackInv
<1>3. CASE Len(stack) # 1
  <2> DEFINE n == Len(stack)
  <2>1. n \in 2 .. n
    <3>1. n \in Nat /\ n >= 1 /\ n # 1
      BY <1>1, <1>3
    <3> HIDE DEF n
    <3> QED BY <3>1
  <2> QED BY <1>1, <1>3, <2>1 DEF StackInv
<1> QED BY <1>2, <1>3

\* The call from a vertex returns.
LEMMA EndRootStack ==
  ASSUME StackInv, ReachInv, EndRoot
  PROVE  StackInv' /\ ReachInv' /\ Len(stack) = 1
<1>1. /\ UNCHANGED <<particles, vertices, rooted, visited, prim>> /\ stack' = <<>>
      /\ stack # <<>> /\ top.left = {} /\ top.call = "vertex"
  BY DEF EndRoot, Returned, Walking, output
<1>2. /\ Root' = Root /\ Reached' = Reached /\ Call' = Call
      /\ \A j : (Parent(j)' <=> Parent(j)) /\ (Stripped(j)' <=> Stripped(j))
  BY <1>1, Unmoved
<1>3. Len(stack) = 1 /\ Level(1).left = {}
  BY <1>1, TopCall, TopLevel
<1>4. Len(stack') = 0 /\ stack' \in Seq(Call')
  BY <1>1
<1>5. StackInv'
  BY <1>1, <1>2, <1>4 DEF StackInv
<1>6. \A n : n \notin 2 .. Len(stack)
  BY <1>3
<1>7. \A j \in visited : particles[j].kind \in {"decayed", "dropped"} =>
        \A d \in particles[j].daughters : d \in visited
  BY <1>6 DEF ReachInv
<1>8. \A x \in rooted : x[3] \in visited
  BY <1>3 DEF ReachInv
<1>9. /\ visited' \subseteq Reached'
      /\ \A j \in visited : particles[j].kind = "broken" => ~Parent(j)'
      /\ prim' = {j \in visited' : particles'[j].kind = "stable"
                                     \/ (particles'[j].kind = "decayed" /\ Parent(j)')}
  BY <1>1, <1>2 DEF ReachInv
<1> QED BY <1>1, <1>3, <1>5, <1>7, <1>8, <1>9 DEF ReachInv

-----------------------------------------------------------------------------
\* What a call found becomes children, in the same order.
LEMMA HungChildren ==
  ASSUME StackInv, stack # <<>>, links \in Seq([child : DOMAIN particles, at : Place]),
         links' = links \o Hung
  PROVE  /\ Children \in Seq(DOMAIN particles) /\ Children' = Children \o top.found
         /\ links' \in Seq([child : DOMAIN particles, at : Place])
         /\ \A n \in DOMAIN links' : \/ n \in DOMAIN links /\ links'[n] = links[n]
                                     \/ /\ links'[n].child \in Elements(top.found)
                                        /\ links'[n].at = top.of
         /\ \A n \in DOMAIN links : links'[n] = links[n]
         /\ DOMAIN links \subseteq DOMAIN links' /\ DOMAIN links' \subseteq Nat
         /\ Len(links) \in Nat /\ DOMAIN links = 1 .. Len(links)
         /\ \A n \in DOMAIN links' : n \notin DOMAIN links =>
              /\ n - Len(links) \in DOMAIN top.found
              /\ links'[n].child = top.found[n - Len(links)] /\ links'[n].at = top.of
<1>1. top \in Call
  BY TopLevel
<1>2. /\ top.found \in Seq(DOMAIN particles) /\ top.of \in Place
      /\ DOMAIN top.found = 1 .. Len(top.found) /\ Len(top.found) \in Nat
      /\ \A n \in DOMAIN top.found : top.found[n] \in DOMAIN particles
  <2>1. top.found \in Seq(DOMAIN particles) /\ top.of \in Place
    BY <1>1 DEF Call
  <2> HIDE DEF top
  <2> QED BY <2>1
<1>3. /\ DOMAIN links = 1 .. Len(links) /\ Len(links) \in Nat
      /\ \A n \in DOMAIN links : links[n] \in [child : DOMAIN particles, at : Place]
  BY SequenceOf
<1>4. /\ Hung \in Seq([child : DOMAIN particles, at : Place]) /\ Len(Hung) = Len(top.found)
      /\ \A n \in DOMAIN top.found :
           Hung[n].child = top.found[n] /\ Hung[n].at = top.of
  <2> DEFINE f == top.found
             R == [child : DOMAIN particles, at : Place]
  <2>1. Hung = [n \in 1 .. Len(f) |-> [child |-> f[n], at |-> top.of]]
    BY <1>2 DEF Hung
  <2>2. \A n \in 1 .. Len(f) : [child |-> f[n], at |-> top.of] \in R
    BY <1>2
  <2>3. Len(f) \in Nat /\ DOMAIN f = 1 .. Len(f)
    BY <1>2
  <2> HIDE DEF f, R
  <2>4. Hung \in [1 .. Len(f) -> R]
    BY <2>1, <2>2
  <2>5. Hung \in Seq(R) /\ Len(Hung) = Len(f)
    BY <2>3, <2>4, SequenceFrom
  <2>6. \A n \in DOMAIN f : Hung[n].child = f[n] /\ Hung[n].at = top.of
    BY <2>1, <2>3
  <2> QED BY <2>5, <2>6 DEF f, R
<1> HIDE DEF Hung, top
<1>5. /\ links' \in Seq([child : DOMAIN particles, at : Place])
      /\ Len(links') = Len(links) + Len(top.found)
      /\ \A n \in DOMAIN links : links'[n] = links[n]
      /\ DOMAIN links' = 1 .. Len(links) + Len(top.found)
      /\ \A n \in DOMAIN links' : n \notin DOMAIN links =>
           n - Len(links) \in DOMAIN Hung /\ links'[n] = Hung[n - Len(links)]
  <2> DEFINE R == [child : DOMAIN particles, at : Place]
  <2>1. links \in Seq(R) /\ Hung \in Seq(R)
    BY <1>4
  <2> HIDE DEF R
  <2> DEFINE l == links \o Hung
  <2>2. /\ l \in Seq(R) /\ Len(l) = Len(links) + Len(Hung)
        /\ DOMAIN l = 1 .. Len(links) + Len(Hung)
        /\ \A n \in DOMAIN links : n \in DOMAIN l /\ l[n] = links[n]
        /\ \A n \in DOMAIN l :
             n \notin DOMAIN links => n - Len(links) \in DOMAIN Hung /\ l[n] = Hung[n - Len(links)]
    BY <2>1, SequencesJoined
  <2> HIDE DEF l
  <2>3. links' = l
    BY DEF l
  <2> QED BY <1>4, <2>2, <2>3 DEF R
<1>6. /\ Children \in Seq(DOMAIN particles) /\ Len(Children) = Len(links)
      /\ \A n \in DOMAIN links : Children[n] = links[n].child
  <2>1. Children \in [1 .. Len(links) -> DOMAIN particles]
    BY <1>3 DEF Children
  <2> QED BY <1>3, <2>1 DEF Children
<1>7. DOMAIN Hung = DOMAIN top.found
  BY <1>2, <1>4, SequenceOf
<1>8. Children' = Children \o top.found
  <2> DEFINE c == Children \o top.found
  <2>1. /\ DOMAIN c = 1 .. Len(links) + Len(top.found)
        /\ \A n \in DOMAIN links : c[n] = Children[n]
        /\ \A n \in DOMAIN c : n \notin DOMAIN links => c[n] = top.found[n - Len(links)]
        /\ c = [n \in DOMAIN c |-> c[n]]
    <3>1. DOMAIN Children = DOMAIN links
      BY DEF Children
    <3>2. Children \in Seq(DOMAIN particles) /\ top.found \in Seq(DOMAIN particles)
      BY <1>2, <1>6
    <3>3. /\ c \in Seq(DOMAIN particles)
          /\ DOMAIN c = 1 .. Len(Children) + Len(top.found)
          /\ \A n \in DOMAIN Children : c[n] = Children[n]
          /\ \A n \in DOMAIN c :
               n \notin DOMAIN Children => c[n] = top.found[n - Len(Children)]
      BY <3>2, SequencesJoined
    <3> HIDE DEF c
    <3>4. c \in [1 .. Len(c) -> DOMAIN particles]
      BY <3>3, SequenceOf
    <3>5. c = [n \in DOMAIN c |-> c[n]]
      BY <3>4
    <3> QED BY <1>6, <3>1, <3>3, <3>5
  <2> HIDE DEF c
  <2>2. DOMAIN Children' = DOMAIN links' /\ \A n \in DOMAIN links' : Children'[n] = links'[n].child
    BY DEF Children
  <2>3. \A n \in DOMAIN links' : Children'[n] = c[n]
    BY <1>4, <1>5, <1>6, <1>7, <2>1, <2>2
  <2>4. Children' = [n \in DOMAIN links' |-> Children'[n]]
    BY DEF Children
  <2>5. Children' = c
    BY <1>5, <2>1, <2>3, <2>4
  <2> QED BY <2>5 DEF c
<1>9. \A n \in DOMAIN links' :
        \/ n \in DOMAIN links /\ links'[n] = links[n]
        \/ /\ links'[n].child \in Elements(top.found)
           /\ links'[n].at = top.of
  BY <1>4, <1>5, <1>7 DEF Elements
<1>10. /\ DOMAIN links \subseteq DOMAIN links' /\ DOMAIN links' \subseteq Nat
       /\ \A n \in DOMAIN links : links'[n] = links[n]
       /\ \A n \in DOMAIN links' : n \notin DOMAIN links =>
            /\ n - Len(links) \in DOMAIN top.found
            /\ links'[n].child = top.found[n - Len(links)] /\ links'[n].at = top.of
  <2>1. Len(top.found) \in Nat
    BY <1>2
  <2>2. DOMAIN links \subseteq DOMAIN links' /\ DOMAIN links' \subseteq Nat
    BY <1>3, <1>5, <2>1
  <2> QED BY <1>4, <1>5, <1>7, <2>2
<1> QED BY <1>3, <1>5, <1>6, <1>8, <1>9, <1>10

\* What a call found is hung, none of it before but daughters without parents.
LEMMA HungMore ==
  ASSUME StackInv, stack # <<>>, links \in Seq([child : DOMAIN particles, at : Place]),
         links' = links \o Hung, UNCHANGED <<particles, vertices>>,
         HungOnce, NoneTwice(top.found),
         \A i \in Elements(top.found) \cap Elements(Children) : Stripped(i) /\ Len(top.of) = 2
  PROVE  HungOnce'
<1> SUFFICES ASSUME NEW n \in DOMAIN links', NEW o \in DOMAIN links',
                    n < o, links'[n].child = links'[o].child
             PROVE  Stripped(links'[o].child) /\ Len(links'[o].at) = 2
  <2>1. \A i : Stripped(i)' <=> Stripped(i)
    BY Unmoved
  <2>2. \A i : Stripped(i) <=> Stripped(i)'
    BY <2>1
  <2> QED BY <2>2 DEF HungOnce, Stripped
<1>1. /\ DOMAIN links' \subseteq Nat
      /\ Len(links) \in Nat /\ DOMAIN links = 1 .. Len(links)
      /\ \A k \in DOMAIN links' : k \notin DOMAIN links =>
           /\ k - Len(links) \in DOMAIN top.found
           /\ links'[k].child = top.found[k - Len(links)] /\ links'[k].at = top.of
      /\ \A k \in DOMAIN links : links'[k] = links[k]
  BY HungChildren
<1>2. CASE o \in DOMAIN links
  <2>1. n \in DOMAIN links
    BY <1>1, <1>2
  <2> QED BY <1>1, <1>2, <2>1 DEF HungOnce
<1>3. CASE o \notin DOMAIN links /\ n \in DOMAIN links
  <2>1. links'[o].child \in Elements(top.found) \cap Elements(Children)
    BY <1>1, <1>3 DEF Elements, Children
  <2> QED BY <1>1, <1>3, <2>1
<1>4. CASE o \notin DOMAIN links /\ n \notin DOMAIN links
  <2>1. /\ n - Len(links) \in DOMAIN top.found /\ links'[n].child = top.found[n - Len(links)]
        /\ o - Len(links) \in DOMAIN top.found /\ links'[o].child = top.found[o - Len(links)]
    BY <1>1, <1>4
  <2>2. n - Len(links) = o - Len(links)
    BY ONLY <2>1, links'[n].child = links'[o].child, NoneTwice(top.found) DEF NoneTwice
  <2>3. n \in Nat /\ o \in Nat
    BY <1>1
  <2> QED BY <1>1, <2>2, <2>3
<1> QED BY <1>2, <1>3, <1>4

\* Nothing more is hung.
LEMMA HungKept ==
  ASSUME UNCHANGED <<particles, vertices, links>>
  PROVE  /\ HungOnce' <=> HungOnce
         /\ Elements(Children)' = Elements(Children)
         /\ \A i : Stripped(i)' <=> Stripped(i)
<1>1. \A i : Stripped(i)' <=> Stripped(i)
  BY Unmoved
<1>2. Children' = Children
  BY DEF Children
<1>3. \A n : (Stripped(links[n].child)' <=> Stripped(links[n].child))
  BY DEF Stripped
<1> QED BY <1>1, <1>2, <1>3 DEF HungOnce, Elements

\* What a call has found does not change, or is followed by others.
LEMMA FoundKept ==
  ASSUME NEW n, Level(n)'.found = Level(n).found
  PROVE  FoundBy(n)' = FoundBy(n) /\ (NoneTwice(Level(n).found)' <=> NoneTwice(Level(n).found))
BY DEF FoundBy, Elements, NoneTwice

\* What a call found grows.
LEMMA FoundMore ==
  ASSUME NEW n, NEW a \in Seq(DOMAIN particles), Level(n).found \in Seq(DOMAIN particles),
         NoneTwice(Level(n).found), NoneTwice(a), FoundBy(n) \cap Elements(a) = {},
         Level(n)'.found = Level(n).found \o a
  PROVE  FoundBy(n)' = FoundBy(n) \cup Elements(a) /\ NoneTwice(Level(n).found)'
<1>1. PICK s \in Seq(DOMAIN particles) : s = Level(n).found
  OBVIOUS
<1>2. NoneTwice(s) /\ Elements(s) \cap Elements(a) = {} /\ FoundBy(n) = Elements(s)
  BY <1>1 DEF FoundBy
<1>3. PICK t : t = s \o a
  OBVIOUS
<1>4. Elements(t) = Elements(s) \cup Elements(a) /\ NoneTwice(t)
  BY <1>2, <1>3, Joined
<1>5. Level(n)'.found = t
  BY <1>1, <1>3
<1>6. FoundBy(n)' = Elements(t) /\ (NoneTwice(Level(n).found)' <=> NoneTwice(t))
  BY <1>5 DEF FoundBy, Elements, NoneTwice
<1> QED BY <1>2, <1>4, <1>6

\* A new primary is found by the innermost call, or none is.
LEMMA TakeOnce ==
  ASSUME StackInv, stack # <<>>, OnceInv, NEW i \in DOMAIN particles,
         NEW a \in {<<>>, <<i>>}, i \in prim => a = <<>>,
         UNCHANGED <<particles, vertices, links>>, Take(i, a),
         prim' = prim \cup Elements(a)
  PROVE  OnceInv'
<1>1. Len(stack) \in Nat /\ Len(stack) >= 1 /\ \A n \in 1 .. Len(stack) : Level(n) \in Call
  BY TopLevel
<1>2. /\ a \in Seq(DOMAIN particles) /\ NoneTwice(a) /\ Elements(a) \cap prim = {}
  <2>1. CASE a = <<>>
    <3>1. <<>> \in Seq(DOMAIN particles)
      OBVIOUS
    <3> QED BY <2>1, <3>1, NoElement
  <2>2. CASE a # <<>>
    <3>1. a = <<i>> /\ i \notin prim
      BY <2>2
    <3>2. <<i>> \in Seq(DOMAIN particles)
      OBVIOUS
    <3> QED BY <3>1, <3>2, OneElement
  <2> QED BY <2>1, <2>2
<1>3. /\ Len(stack') = Len(stack)
      /\ \A n \in 1 .. Len(stack) :
           /\ Level(n)'.call = Level(n).call /\ Mother(n)' = Mother(n)
           /\ n # Len(stack) => Level(n)'.found = Level(n).found
           /\ n = Len(stack) => Level(n)'.found = Level(n).found \o a
  BY <1>2, TakeLevels
<1>4. Children' = Children /\ Decaying' = Decaying
  <2>1. Children' = Children
    BY DEF Children
  <2>2. \A n \in 2 .. Len(stack) : Level(n)'.call = Level(n).call /\ Mother(n)' = Mother(n)
    BY <1>1, <1>3
  <2>3. {o \in 2 .. Len(stack') : Level(o)'.call = "decay"}
          = {o \in 2 .. Len(stack) : Level(o).call = "decay"}
    BY <1>3, <2>2
  <2>4. Decaying' = Decaying
    BY <2>2, <2>3 DEF Decaying
  <2> QED BY <2>1, <2>4
<1>5. \A n \in 1 .. Len(stack) : FoundBy(n) \subseteq prim
  BY DEF OnceInv
<1>6. Decaying \subseteq prim /\ Elements(Children) \subseteq prim
  BY DEF OnceInv
<1>7. ASSUME NEW n \in 1 .. Len(stack)
      PROVE  /\ FoundBy(n)' = FoundBy(n) \cup (IF n = Len(stack) THEN Elements(a) ELSE {})
             /\ NoneTwice(Level(n).found)'
  <2>1. Level(n).found \in Seq(DOMAIN particles) /\ NoneTwice(Level(n).found)
    BY <1>1 DEF Call, OnceInv
  <2>2. CASE n # Len(stack)
    BY <1>3, <2>1, <2>2, FoundKept
  <2>3. CASE n = Len(stack)
    BY <1>2, <1>3, <1>5, <2>1, <2>3, FoundMore
  <2> QED BY <2>2, <2>3
<1>8. \A n \in 1 .. Len(stack) : /\ \A j \in FoundBy(n) \cap Elements(Children) :
                                      n = 1 /\ Stripped(j)
                                 /\ FoundBy(n) \cap Decaying = {}
                                 /\ \A o \in 1 .. Len(stack) : n # o => FoundBy(n) \cap FoundBy(o) = {}
  BY DEF OnceInv
<1>9. /\ HungOnce /\ Decaying \cap Elements(Children) = {}
      /\ prim = Elements(Children) \cup Decaying \cup UNION {FoundBy(n) : n \in 1 .. Len(stack)}
  BY DEF OnceInv
<1>10. UNION {FoundBy(n)' : n \in 1 .. Len(stack)}
          = (UNION {FoundBy(n) : n \in 1 .. Len(stack)}) \cup Elements(a)
  <2>1. Len(stack) \in 1 .. Len(stack)
    BY <1>1
  <2> QED BY <1>7, <2>1
<1>11. /\ HungOnce' /\ Elements(Children)' = Elements(Children)
       /\ \A j : Stripped(j)' <=> Stripped(j)
  BY <1>9, HungKept
<1>12. ASSUME NEW n \in 1 .. Len(stack)
       PROVE  /\ \A j \in FoundBy(n)' \cap Elements(Children)' : n = 1 /\ Stripped(j)'
              /\ FoundBy(n)' \cap Decaying' = {}
              /\ \A o \in 1 .. Len(stack) : n # o => FoundBy(n)' \cap FoundBy(o)' = {}
  <2>1. FoundBy(n)' \cap Elements(Children) = FoundBy(n) \cap Elements(Children)
    BY <1>2, <1>6, <1>7
  <2>2. FoundBy(n)' \cap Decaying' = {}
    BY <1>2, <1>4, <1>6, <1>7, <1>8
  <2>3. \A o \in 1 .. Len(stack) : n # o => FoundBy(n)' \cap FoundBy(o)' = {}
    BY <1>2, <1>5, <1>7, <1>8
  <2> QED BY <1>8, <1>11, <2>1, <2>2, <2>3
<1>13. prim' = Elements(Children)' \cup Decaying' \cup UNION {FoundBy(n)' : n \in 1 .. Len(stack)}
  BY <1>4, <1>9, <1>10, <1>11
<1> QED BY <1>3, <1>4, <1>7, <1>9, <1>11, <1>12, <1>13 DEF OnceInv

\* A daughter without parents is found from its vertex once more.
LEMMA TakeAgain ==
  ASSUME StackInv, OnceInv, NEW i \in DOMAIN particles, i \in prim, Stripped(i),
         Len(stack) = 1, Level(1).found = <<>>,
         UNCHANGED <<particles, vertices, links, prim>>, Take(i, <<i>>)
  PROVE  OnceInv'
<1>1. stack # <<>>
  <2>1. Len(<<>>) = 0
    OBVIOUS
  <2> QED BY <2>1
<1>2. /\ <<i>> \in Seq(DOMAIN particles) /\ <<>> \o <<i>> = <<i>>
      /\ Elements(<<i>>) = {i} /\ NoneTwice(<<i>>)
  BY OneElement
<1>3. Len(stack') = 1 /\ Level(1)'.found = <<i>>
  <2>1. 1 \in 1 .. Len(stack)
    OBVIOUS
  <2>2. Len(stack') = Len(stack) /\ Level(1)'.found = Level(1).found \o <<i>>
    BY <1>1, <1>2, <2>1, TakeLevels
  <2> QED BY <1>2, <2>2
<1>4. FoundBy(1) = {} /\ FoundBy(1)' = {i} /\ NoneTwice(Level(1).found)'
  BY <1>2, <1>3, NoElement DEF FoundBy, Elements, NoneTwice
<1>5. /\ \A n \in 1 .. Len(stack) : n = 1
      /\ \A n \in 1 .. Len(stack') : n = 1
      /\ 2 .. Len(stack) = {} /\ 2 .. Len(stack') = {} /\ 1 \in 1 .. Len(stack')
  BY <1>3
<1>6. Decaying = {} /\ Decaying' = {}
  BY <1>5 DEF Decaying
<1>7. UNION {FoundBy(n) : n \in 1 .. Len(stack)} = {}
  BY <1>4, <1>5
<1>8. UNION {FoundBy(n)' : n \in 1 .. Len(stack')} = {i}
  BY <1>4, <1>5
<1>9. /\ HungOnce' /\ Elements(Children)' = Elements(Children) /\ Stripped(i)'
  BY HungKept DEF OnceInv
<1>10. prim' = Elements(Children)' \cup Decaying' \cup UNION {FoundBy(n)' : n \in 1 .. Len(stack')}
  BY <1>6, <1>7, <1>8, <1>9 DEF OnceInv
<1> QED BY <1>4, <1>5, <1>6, <1>9, <1>10 DEF OnceInv

\* A call for a particle with a predefined decay: it is a primary before it is found.
LEMMA CallOnce ==
  ASSUME RecordInv, StackInv, stack # <<>>, OnceInv, NEW i \in DOMAIN particles, i \notin prim,
         NEW call \in {"decay", "drop"},
         UNCHANGED <<particles, vertices, links>>, CallFor(call, i),
         prim' = prim \cup (IF call = "decay" THEN {i} ELSE {})
  PROVE  OnceInv'
<1> DEFINE New == IF call = "decay" THEN {i} ELSE {}
<1>1. Len(stack) \in Nat /\ Len(stack) >= 1
  BY TopLevel
<1>2. /\ Len(stack') = Len(stack) + 1
      /\ \A n \in 1 .. Len(stack) :
           /\ Level(n)'.call = Level(n).call /\ Mother(n)' = Mother(n)
           /\ Level(n)'.found = Level(n).found
      /\ \A n \in {Len(stack) + 1} :
           Mother(n)' = i /\ Level(n)'.call = call /\ Level(n)'.found = <<>>
  BY CallLevels
<1>4. Decaying' = Decaying \cup New
  <2>1. \A n \in 2 .. Len(stack) : Level(n)'.call = Level(n).call /\ Mother(n)' = Mother(n)
    BY <1>1, <1>2
  <2>2. \A n : n \in 2 .. Len(stack') <=> n \in 2 .. Len(stack) \/ n = Len(stack) + 1
    BY <1>1, <1>2
  <2>3. {o \in 2 .. Len(stack') : Level(o)'.call = "decay"}
          = {o \in 2 .. Len(stack) : Level(o).call = "decay"}
              \cup {o \in {Len(stack) + 1} : call = "decay"}
    BY <1>2, <2>1, <2>2
  <2> DEFINE A == {o \in 2 .. Len(stack) : Level(o).call = "decay"}
             B == {o \in {Len(stack) + 1} : call = "decay"}
  <2>4. Decaying' = {Mother(n)' : n \in A \cup B}
    BY <2>3 DEF Decaying
  <2>5. Decaying = {Mother(n) : n \in A} /\ \A n \in A : Mother(n)' = Mother(n)
    BY <2>1 DEF Decaying
  <2>6. New = {Mother(n)' : n \in B}
    BY <1>2
  <2> HIDE DEF A, B, New
  <2> QED BY <2>4, <2>5, <2>6
<1>5. \A n \in 1 .. Len(stack) : FoundBy(n)' = FoundBy(n) /\ NoneTwice(Level(n).found)'
  BY <1>2 DEF OnceInv, FoundBy, Elements, NoneTwice
<1>6. \A n \in {Len(stack) + 1} : FoundBy(n)' = {} /\ NoneTwice(Level(n).found)'
  BY <1>2, OneElement DEF FoundBy, Elements, NoneTwice
<1>7. \A n \in 1 .. Len(stack') : n \in 1 .. Len(stack) \/ n = Len(stack) + 1
  BY <1>1, <1>2
<1>8. UNION {FoundBy(n)' : n \in 1 .. Len(stack')} = UNION {FoundBy(n) : n \in 1 .. Len(stack)}
  <2>1. \A n \in 1 .. Len(stack) : n \in 1 .. Len(stack')
    BY <1>1, <1>2
  <2> QED BY <1>5, <1>6, <1>7, <2>1
<1>9. New \cap prim = {} /\ prim' = prim \cup New
  OBVIOUS
<1>10. /\ \A n \in 1 .. Len(stack) : FoundBy(n) \subseteq prim
       /\ Decaying \subseteq prim /\ Elements(Children) \subseteq prim
  BY DEF OnceInv
<1> HIDE DEF New
<1>11. ASSUME NEW n \in 1 .. Len(stack')
       PROVE  /\ NoneTwice(Level(n).found)'
              /\ \A j \in FoundBy(n)' \cap Elements(Children)' : n = 1 /\ Stripped(j)'
              /\ FoundBy(n)' \cap Decaying' = {}
              /\ \A o \in 1 .. Len(stack') : n # o => FoundBy(n)' \cap FoundBy(o)' = {}
  <2>1. CASE n = Len(stack) + 1
    BY <1>6, <2>1
  <2>2. CASE n # Len(stack) + 1
    <3>1. n \in 1 .. Len(stack)
      BY <1>7, <2>2
    <3>2. FoundBy(n) \cap New = {}
      BY <1>9, <1>10, <3>1
    <3>3. /\ \A j \in FoundBy(n) \cap Elements(Children) : n = 1 /\ Stripped(j)
          /\ FoundBy(n) \cap Decaying = {}
          /\ \A o \in 1 .. Len(stack) : n # o => FoundBy(n) \cap FoundBy(o) = {}
      BY <3>1 DEF OnceInv
    <3>4. Elements(Children)' = Elements(Children) /\ \A j : Stripped(j)' <=> Stripped(j)
      BY HungKept
    <3>5. \A o \in 1 .. Len(stack') : n # o => FoundBy(n)' \cap FoundBy(o)' = {}
      BY <1>5, <1>6, <1>7, <3>1, <3>3
    <3> QED BY <1>4, <1>5, <3>1, <3>2, <3>3, <3>4, <3>5
  <2> QED BY <2>1, <2>2
<1>12. /\ HungOnce' /\ Elements(Children)' = Elements(Children)
       /\ Decaying' \cap Elements(Children)' = {}
  <2>1. HungOnce' /\ Elements(Children)' = Elements(Children)
    BY HungKept DEF OnceInv
  <2> QED BY <1>4, <1>9, <1>10, <2>1 DEF OnceInv
<1>13. prim' = Elements(Children)' \cup Decaying' \cup UNION {FoundBy(n)' : n \in 1 .. Len(stack')}
  BY <1>4, <1>8, <1>9, <1>12 DEF OnceInv
<1> QED BY <1>11, <1>12, <1>13 DEF OnceInv

\* What a call for a rejected particle found is found by the call before.
LEMMA EndDropOnce ==
  ASSUME StackInv, OnceInv, EndDrop
  PROVE  OnceInv'
<1>1. /\ UNCHANGED <<particles, vertices, prim, links>> /\ stack # <<>> /\ top.call = "drop"
      /\ Found(top.found)
  BY DEF EndDrop, Returned, Walking, output
<1> DEFINE m == Len(stack)
<1>2. /\ m \in Nat /\ m >= 2 /\ top = Level(m)
      /\ \A n \in 1 .. m : Level(n).found \in Seq(DOMAIN particles)
  BY <1>1, TopLevel, TopCall DEF Call
<1>3. m \in 1 .. m /\ m \notin 1 .. m - 1 /\ m - 1 \in 1 .. m - 1 /\ m - 1 \in 1 .. m /\ m - 1 # m
      /\ \A n \in 1 .. m - 1 : n \in 1 .. m
  BY <1>2
<1>4. /\ Len(stack') = m - 1
      /\ \A n \in 1 .. m - 1 :
           /\ Level(n)'.call = Level(n).call /\ Mother(n)' = Mother(n)
           /\ n # m - 1 => Level(n)' = Level(n)
           /\ n = m - 1 => Level(n)'.found = Level(n).found \o Level(m).found
  BY <1>1, <1>2, <1>3, ReturnLevels
<1>6. Decaying' = Decaying
  <2> DEFINE A == {o \in 2 .. m : Level(o).call = "decay"}
  <2>1. {o \in 2 .. m - 1 : Level(o)'.call = "decay"} = A /\ \A n \in A : Mother(n)' = Mother(n)
    <3>1. \A n \in 2 .. m - 1 : n \in 1 .. m - 1 /\ n \in 2 .. m
      BY <1>2
    <3>2. \A n \in 2 .. m : n \in 2 .. m - 1 \/ n = m
      BY <1>2
    <3>3. Level(m).call # "decay"
      BY <1>1, <1>2
    <3> HIDE DEF m
    <3> QED BY <1>4, <3>1, <3>2, <3>3
  <2>2. Decaying' = {Mother(n)' : n \in A}
    BY <1>4, <2>1 DEF Decaying
  <2>3. Decaying = {Mother(n) : n \in A}
    BY DEF Decaying
  <2> HIDE DEF A, m
  <2> QED BY <2>1, <2>2, <2>3
<1>7. ASSUME NEW n \in 1 .. m - 1
      PROVE  /\ FoundBy(n)' = FoundBy(n) \cup (IF n = m - 1 THEN FoundBy(m) ELSE {})
             /\ NoneTwice(Level(n).found)'
  <2>1. CASE n # m - 1
    BY <1>3, <1>4, <2>1, FoundKept DEF OnceInv
  <2>2. CASE n = m - 1
    <3>1. NoneTwice(Level(n).found) /\ NoneTwice(Level(m).found) /\ FoundBy(n) \cap FoundBy(m) = {}
      BY <1>3, <2>2 DEF OnceInv
    <3>2. Level(n)'.found = Level(n).found \o Level(m).found
      BY <1>4, <2>2
    <3>3. FoundBy(m) = Elements(Level(m).found)
      BY DEF FoundBy
    <3>4. Level(n).found \in Seq(DOMAIN particles) /\ Level(m).found \in Seq(DOMAIN particles)
      BY <1>2, <1>3
    <3> HIDE DEF m
    <3> QED BY <2>2, <3>1, <3>2, <3>3, <3>4, FoundMore
  <2> QED BY <2>1, <2>2
<1>8. UNION {FoundBy(n)' : n \in 1 .. m - 1} = UNION {FoundBy(n) : n \in 1 .. m}
  <2>1. \A n \in 1 .. m : n \in 1 .. m - 1 \/ n = m
    BY <1>2
  <2> HIDE DEF m
  <2> QED BY <1>3, <1>7, <2>1
<1>9. /\ UNCHANGED prim /\ Elements(Children)' = Elements(Children) /\ HungOnce'
      /\ \A j : Stripped(j)' <=> Stripped(j)
  BY <1>1, HungKept DEF OnceInv
<1>10. \A n \in 1 .. m : /\ \A j \in FoundBy(n) \cap Elements(Children) : n = 1 /\ Stripped(j)
                         /\ FoundBy(n) \cap Decaying = {}
                         /\ \A o \in 1 .. m : n # o => FoundBy(n) \cap FoundBy(o) = {}
  BY DEF OnceInv
<1>11. /\ Decaying \cap Elements(Children) = {}
       /\ prim = Elements(Children) \cup Decaying \cup UNION {FoundBy(n) : n \in 1 .. m}
  BY DEF OnceInv
<1> HIDE DEF m
<1>12. ASSUME NEW n \in 1 .. m - 1
       PROVE  /\ NoneTwice(Level(n).found)'
              /\ \A j \in FoundBy(n)' \cap Elements(Children)' : n = 1 /\ Stripped(j)'
              /\ FoundBy(n)' \cap Decaying' = {}
              /\ \A o \in 1 .. m - 1 : n # o => FoundBy(n)' \cap FoundBy(o)' = {}
  <2>1. \A o \in 1 .. m - 1 : n # o => FoundBy(n)' \cap FoundBy(o)' = {}
    BY <1>3, <1>7, <1>10
  <2>2. FoundBy(m) \cap Elements(Children) = {}
    BY <1>2, <1>3, <1>10
  <2>3. FoundBy(n)' \cap Elements(Children)' = FoundBy(n) \cap Elements(Children)
    BY <1>7, <1>9, <2>2
  <2> QED BY <1>3, <1>6, <1>7, <1>9, <1>10, <2>1, <2>3
<1> QED BY <1>4, <1>6, <1>8, <1>9, <1>11, <1>12 DEF OnceInv

\* What a call for a decaying particle found becomes its children; the particle itself
\* is found by the call before.
LEMMA EndDecayOnce ==
  ASSUME StackInv, OnceInv, PlacedInv, EndDecay
  PROVE  OnceInv'
<1>1. /\ UNCHANGED <<particles, vertices, prim>> /\ stack # <<>> /\ top.call = "decay"
      /\ Found(top.of) /\ links' = links \o Hung
  BY DEF EndDecay, Returned, Walking, output
<1> DEFINE m == Len(stack)
<1>2. /\ m \in Nat /\ m >= 2 /\ top = Level(m) /\ top.of = <<Mother(m)>>
      /\ \A n \in 1 .. m : Level(n) \in Call /\ Level(n).found \in Seq(DOMAIN particles)
  BY <1>1, TopLevel, TopCall DEF Call
<1>3. m \in 1 .. m /\ m \notin 1 .. m - 1 /\ m - 1 \in 1 .. m - 1 /\ m - 1 \in 1 .. m /\ m - 1 # m
      /\ m \in 2 .. m /\ \A n \in 1 .. m - 1 : n \in 1 .. m
  BY <1>2
<1> DEFINE i == Mother(m)
<1>4. <<i>> \in Seq(DOMAIN particles) /\ Elements(<<i>>) = {i} /\ NoneTwice(<<i>>)
  <2>1. <<i>> \in Place
    BY <1>2 DEF Call
  <2>2. i \in DOMAIN particles
    <3>1. CASE \E j \in DOMAIN particles : <<i>> = <<j>>
      BY <3>1
    <3>2. CASE \E x \in Root : <<i>> = <<x[1], x[2]>>
      BY <3>2, RootLeaves
    <3> QED BY <2>1, <3>1, <3>2 DEF Place
  <2> QED BY <2>2, OneElement
<1>5. /\ Len(stack') = m - 1
      /\ \A n \in 1 .. m - 1 :
           /\ Level(n)'.call = Level(n).call /\ Mother(n)' = Mother(n)
           /\ n # m - 1 => Level(n)' = Level(n)
           /\ n = m - 1 => Level(n)'.found = Level(n).found \o <<i>>
  BY <1>1, <1>2, <1>3, <1>4, ReturnLevels
<1>6. /\ Children \in Seq(DOMAIN particles) /\ Children' = Children \o Level(m).found
  BY <1>1, <1>2, HungChildren DEF PlacedInv
<1>7. i \in Decaying /\ Decaying' = Decaying \ {i}
  <2> DEFINE A == {o \in 2 .. m : Level(o).call = "decay"}
  <2>1. Level(m).call = "decay" /\ m \in A
    BY <1>1, <1>2, <1>3
  <2>2. \A n \in 2 .. m : n # m => Mother(n) # i
    <3>1. ASSUME NEW n \in 2 .. m, n # m
          PROVE  Mother(n) # i
      <4>1. Level(n).of = <<Mother(n)>> /\ Level(m).of = <<i>> /\ n \in 1 .. m
        BY <1>2, <1>3 DEF StackInv
      <4>2. Level(n).of # Level(m).of
        BY <1>3, <3>1, <4>1 DEF StackInv
      <4> QED BY <4>1, <4>2
    <3> QED BY <3>1
  <2>3. {o \in 2 .. m - 1 : Level(o)'.call = "decay"} = A \ {m}
        /\ \A n \in A \ {m} : Mother(n)' = Mother(n)
    <3>1. \A n \in 2 .. m - 1 : n \in 1 .. m - 1 /\ n \in 2 .. m /\ n # m
      BY <1>2
    <3>2. \A n \in 2 .. m : n \in 2 .. m - 1 \/ n = m
      BY <1>2
    <3> HIDE DEF m
    <3> QED BY <1>5, <3>1, <3>2
  <2>4. Decaying' = {Mother(n)' : n \in A \ {m}}
    BY <1>5, <2>3 DEF Decaying
  <2>5. Decaying = {Mother(n) : n \in A} /\ A \subseteq 2 .. m
    BY DEF Decaying
  <2> HIDE DEF A, m
  <2> QED BY <2>1, <2>2, <2>3, <2>4, <2>5
<1>8. \A n \in 1 .. m : /\ \A j \in FoundBy(n) \cap Elements(Children) : n = 1 /\ Stripped(j)
                        /\ FoundBy(n) \cap Decaying = {} /\ NoneTwice(Level(n).found)
                        /\ \A o \in 1 .. m : n # o => FoundBy(n) \cap FoundBy(o) = {}
  BY DEF OnceInv
<1>9. /\ Decaying \cap Elements(Children) = {} /\ HungOnce
      /\ prim = Elements(Children) \cup Decaying \cup UNION {FoundBy(n) : n \in 1 .. m}
  BY DEF OnceInv
<1> HIDE DEF i
<1>10. /\ Elements(Children)' = Elements(Children) \cup FoundBy(m)
       /\ FoundBy(m) \cap Elements(Children) = {} /\ HungOnce'
       /\ \A j : Stripped(j)' <=> Stripped(j)
  <2>1. Elements(Children \o Level(m).found) = Elements(Children) \cup FoundBy(m)
    <3>1. Level(m).found \in Seq(DOMAIN particles) /\ Children \in Seq(DOMAIN particles)
      BY <1>2, <1>3, <1>6
    <3> HIDE DEF m
    <3> QED BY ONLY <3>1, Joined DEF FoundBy
  <2>2. FoundBy(m) \cap Elements(Children) = {} /\ NoneTwice(top.found)
    BY <1>2, <1>3, <1>8
  <2>3. Elements(top.found) = FoundBy(m)
    BY <1>2 DEF FoundBy
  <2>4. HungOnce'
    BY <1>1, <1>9, <2>2, <2>3, HungMore DEF PlacedInv
  <2> QED BY <1>1, <1>6, <2>1, <2>2, <2>4, Unmoved DEF Elements
<1>11. ASSUME NEW n \in 1 .. m - 1
       PROVE  /\ FoundBy(n)' = FoundBy(n) \cup (IF n = m - 1 THEN {i} ELSE {})
              /\ NoneTwice(Level(n).found)'
  <2>1. CASE n # m - 1
    BY <1>3, <1>5, <1>8, <2>1, FoundKept
  <2>2. CASE n = m - 1
    <3>1. Level(n)'.found = Level(n).found \o <<i>>
      BY <1>5, <2>2
    <3>2. Level(n).found \in Seq(DOMAIN particles)
      BY <1>2, <1>3
    <3>3. NoneTwice(Level(n).found) /\ FoundBy(n) \cap Elements(<<i>>) = {}
      BY <1>3, <1>4, <1>7, <1>8
    <3> HIDE DEF m
    <3> QED BY <1>4, <2>2, <3>1, <3>2, <3>3, FoundMore
  <2> QED BY <2>1, <2>2
<1>12. (UNION {FoundBy(n)' : n \in 1 .. m - 1}) \cup FoundBy(m)
         = (UNION {FoundBy(n) : n \in 1 .. m}) \cup {i}
  <2>1. \A n \in 1 .. m : n \in 1 .. m - 1 \/ n = m
    BY <1>2
  <2> HIDE DEF m
  <2> QED BY <1>3, <1>11, <2>1
<1> HIDE DEF m
<1>13. ASSUME NEW n \in 1 .. m - 1
       PROVE  /\ NoneTwice(Level(n).found)'
              /\ \A j \in FoundBy(n)' \cap Elements(Children)' : n = 1 /\ Stripped(j)'
              /\ FoundBy(n)' \cap Decaying' = {}
              /\ \A o \in 1 .. m - 1 : n # o => FoundBy(n)' \cap FoundBy(o)' = {}
  <2>1. \A o \in 1 .. m - 1 : n # o => FoundBy(n)' \cap FoundBy(o)' = {}
    BY <1>3, <1>7, <1>8, <1>11
  <2>2. FoundBy(n)' \cap Elements(Children)' = FoundBy(n) \cap Elements(Children)
    BY <1>3, <1>7, <1>8, <1>9, <1>10, <1>11
  <2> QED BY <1>3, <1>7, <1>8, <1>10, <1>11, <2>1, <2>2
<1>14. Decaying' \cap Elements(Children)' = {}
  BY <1>3, <1>7, <1>8, <1>9, <1>10
<1>15. prim' = Elements(Children)' \cup Decaying' \cup UNION {FoundBy(n)' : n \in 1 .. m - 1}
  <2>1. PICK X : X = UNION {FoundBy(n)' : n \in 1 .. m - 1}
    OBVIOUS
  <2>2. PICK Y : Y = UNION {FoundBy(n) : n \in 1 .. m}
    OBVIOUS
  <2>3. X \cup FoundBy(m) = Y \cup {i} /\ prim = Elements(Children) \cup Decaying \cup Y
    BY <1>9, <1>12, <2>1, <2>2
  <2>4. prim = Elements(Children) \cup FoundBy(m) \cup (Decaying \ {i}) \cup X
    BY <1>7, <2>3
  <2> QED BY <1>1, <1>7, <1>10, <2>1, <2>4
<1> QED BY <1>5, <1>10, <1>13, <1>14, <1>15 DEF OnceInv

\* What was found from a vertex is hung to it.
LEMMA EndRootOnce ==
  ASSUME StackInv, OnceInv, PlacedInv, EndRoot
  PROVE  OnceInv'
<1>1. /\ UNCHANGED <<particles, vertices, prim>> /\ stack # <<>> /\ top.call = "vertex"
      /\ stack' = <<>> /\ links' = links \o Hung
  BY DEF EndRoot, Returned, Walking, output
<1>2. /\ Len(stack) = 1 /\ top = Level(1) /\ Level(1).found \in Seq(DOMAIN particles)
  BY <1>1, TopCall, TopLevel DEF Call
<1>3. /\ Children \in Seq(DOMAIN particles) /\ Children' = Children \o Level(1).found
  BY <1>1, <1>2, HungChildren DEF PlacedInv
<1>4. /\ \A j \in FoundBy(1) \cap Elements(Children) : Stripped(j)
      /\ NoneTwice(Level(1).found) /\ HungOnce
      /\ prim = Elements(Children) \cup Decaying \cup FoundBy(1)
  BY <1>2 DEF OnceInv
<1>5. Decaying = {}
  BY <1>2 DEF Decaying
<1>6. Len(stack') = 0
  BY <1>1
<1>7. Decaying' = {}
  BY <1>6 DEF Decaying
<1>8. Elements(Children)' = prim' /\ HungOnce'
  <2>1. Elements(Children \o Level(1).found) = Elements(Children) \cup FoundBy(1)
    BY <1>2, <1>3, Joined DEF FoundBy
  <2>2. Len(top.of) = 2
    <3>1. PICK x \in rooted : Level(1).of = <<x[1], x[2]>>
      BY <1>1 DEF StackInv
    <3> QED BY <1>2, <3>1
  <2>3. HungOnce'
    BY <1>1, <1>2, <1>4, <2>2, HungMore DEF PlacedInv, FoundBy
  <2> QED BY <1>1, <1>3, <1>4, <1>5, <2>1, <2>3 DEF Elements
<1>9. \A n : n \notin 1 .. Len(stack')
  BY <1>6
<1> QED BY <1>7, <1>8, <1>9 DEF OnceInv

\* The call from a vertex has found nothing.
LEMMA StartOnce ==
  ASSUME RecordInv, OnceInv, NEW x \in Root, StartRoot(x)
  PROVE  OnceInv'
<1>1. /\ UNCHANGED <<particles, vertices, prim, links>> /\ stack = <<>> /\ Len(stack') = 1
      /\ Level(1)'.found = <<>>
  BY StartLevels
<1>2. Len(stack) = 0
  BY <1>1
<1>3. /\ 1 .. Len(stack) = {} /\ 2 .. Len(stack) = {}
      /\ 2 .. Len(stack') = {} /\ \A n \in 1 .. Len(stack') : n = 1
  BY <1>1, <1>2
<1>4. Decaying = {} /\ Decaying' = {}
  BY <1>3 DEF Decaying
<1>5. FoundBy(1)' = {} /\ NoneTwice(Level(1).found)'
  BY <1>1, OneElement DEF FoundBy, Elements, NoneTwice
<1>6. UNION {FoundBy(n)' : n \in 1 .. Len(stack')} = {}
  BY <1>3, <1>5
<1>8. Elements(Children)' = Elements(Children) /\ HungOnce' /\ prim = Elements(Children)
  <2>1. Elements(Children)' = Elements(Children) /\ HungOnce'
    BY <1>1, HungKept DEF OnceInv
  <2> QED BY <1>3, <1>4, <2>1 DEF OnceInv
<1> QED BY <1>1, <1>3, <1>4, <1>5, <1>6, <1>8 DEF OnceInv

-----------------------------------------------------------------------------
\* What has to be shown of the links and of what the calls found.
LEMMA PlacedNext ==
  ASSUME UNCHANGED <<particles, vertices>>,
         links' \in Seq([child : DOMAIN particles, at : Place]),
         \A n \in DOMAIN links' :
           /\ links'[n].child \in InPlaceOf(Below(links'[n].at))
           /\ links'[n].at \in {<<i>> : i \in prim'} \cup {<<x[1], x[2]>> : x \in rooted'},
         \A n \in 1 .. Len(stack') :
           Elements(Level(n).found)' \subseteq InPlaceOf(Below(Level(n).of))'
  PROVE  PlacedInv'
<1>1. Place' = Place
  BY Unmoved
<1>2. \A m, k : Leaving(m, k)' = Leaving(m, k)
  BY DEF Leaving
<1>3. \A n : Below(links[n].at)' = Below(links'[n].at)
  BY <1>2 DEF Below
<1>4. \A n : InPlaceOf(Below(links[n].at))' = InPlaceOf(Below(links'[n].at))
  BY <1>3 DEF InPlaceOf
<1> QED BY <1>1, <1>4 DEF PlacedInv

\* What is hung stays hung, in its place.
LEMMA LinksKept ==
  ASSUME PlacedInv, UNCHANGED links, prim \subseteq prim', rooted \subseteq rooted'
  PROVE  /\ links' \in Seq([child : DOMAIN particles, at : Place])
         /\ \A n \in DOMAIN links' :
              /\ links'[n].child \in InPlaceOf(Below(links'[n].at))
              /\ links'[n].at \in {<<i>> : i \in prim'} \cup {<<x[1], x[2]>> : x \in rooted'}
BY DEF PlacedInv

\* Primaries are found in place: a new one, none by a call that was just made.
LEMMA TakePlaced ==
  ASSUME RecordInv, StackInv, ReachInv, PlacedInv, NEW i, At(i), NEW a \in {<<>>, <<i>>},
         UNCHANGED <<particles, vertices, rooted, links>>, Take(i, a), prim \subseteq prim'
  PROVE  PlacedInv'
<1>1. /\ Place' = Place /\ \A S : InPlaceOf(S)' = InPlaceOf(S)
      /\ \A at : Below(at)' = Below(at)
  BY Unmoved
<1>2. /\ stack # <<>> /\ i \in DOMAIN particles /\ i \in Below(Level(Len(stack)).of)
      /\ Below(Level(Len(stack)).of) \subseteq DOMAIN particles
  BY ToVisit
<1>3. i \in InPlaceOf(Below(Level(Len(stack)).of))
  BY <1>2, InPlace
<1>4. Len(stack) \in Nat /\ Len(stack) >= 1 /\ \A n \in 1 .. Len(stack) : Level(n) \in Call
  BY <1>2, TopLevel
<1>5. a \in Seq(DOMAIN particles) /\ Elements(a) \subseteq {i}
  <2>1. <<i>> \in Seq(DOMAIN particles) /\ <<>> \in Seq(DOMAIN particles)
    BY <1>2
  <2>2. Elements(<<i>>) = {i} /\ Elements(<<>>) = {}
    BY OneElement
  <2> QED BY <2>1, <2>2
<1>6. /\ Len(stack') = Len(stack)
      /\ \A n \in 1 .. Len(stack) :
           /\ Level(n)'.of = Level(n).of
           /\ n # Len(stack) => Level(n)'.found = Level(n).found
           /\ n = Len(stack) => Level(n)'.found = Level(n).found \o a
  BY <1>2, <1>5, TakeLevels
<1>7. ASSUME NEW n \in 1 .. Len(stack')
      PROVE  Elements(Level(n).found)' \subseteq InPlaceOf(Below(Level(n).of))'
  <2>1. Elements(Level(n).found) \subseteq InPlaceOf(Below(Level(n).of))
    BY <1>6 DEF PlacedInv
  <2>2. InPlaceOf(Below(Level(n).of))' = InPlaceOf(Below(Level(n).of))
    <3>1. Below(Level(n).of)' = Below(Level(n).of)
      BY <1>1, <1>6 DEF Below, Leaving
    <3> QED BY <3>1 DEF InPlaceOf
  <2>3. CASE n # Len(stack)
    BY <1>6, <2>1, <2>2, <2>3 DEF Elements
  <2>4. CASE n = Len(stack)
    <3>1. Elements(Level(n).found \o a) = Elements(Level(n).found) \cup Elements(a)
      BY <1>4, <1>5, <1>6, Joined DEF Call
    <3>2. Level(n)'.found = Level(n).found \o a
      BY <1>6, <2>4
    <3>3. Elements(Level(n).found)' = Elements(Level(n).found \o a)
      BY <3>2 DEF Elements
    <3> QED BY <1>3, <1>5, <2>1, <2>2, <2>4, <3>1, <3>3
  <2> QED BY <2>3, <2>4
<1> QED BY <1>7, LinksKept, PlacedNext

\* A call that was just made has found nothing.
LEMMA CallPlaced ==
  ASSUME RecordInv, StackInv, PlacedInv, stack # <<>>, NEW i \in DOMAIN particles,
         NEW call \in {"decay", "drop"},
         UNCHANGED <<particles, vertices, rooted, links>>, CallFor(call, i), prim \subseteq prim'
  PROVE  PlacedInv'
<1>1. Place' = Place
  BY Unmoved
<1>2. Len(stack) \in Nat /\ Len(stack) >= 1
  BY TopLevel
<1>3. /\ Len(stack') = Len(stack) + 1
      /\ \A n \in 1 .. Len(stack) :
           Level(n)'.of = Level(n).of /\ Level(n)'.found = Level(n).found
      /\ \A n \in {Len(stack) + 1} : Level(n)'.found = <<>>
  BY CallLevels
<1>4. ASSUME NEW n \in 1 .. Len(stack')
      PROVE  Elements(Level(n).found)' \subseteq InPlaceOf(Below(Level(n).of))'
  <2>1. CASE n \in 1 .. Len(stack)
    <3>1. Elements(Level(n).found) \subseteq InPlaceOf(Below(Level(n).of))
      BY <2>1 DEF PlacedInv
    <3>2. Below(Level(n).of)' = Below(Level(n).of)
      BY <1>3, <2>1 DEF Below, Leaving
    <3>3. InPlaceOf(Below(Level(n).of))' = InPlaceOf(Below(Level(n).of))
      BY <3>2 DEF InPlaceOf
    <3> QED BY <1>3, <2>1, <3>1, <3>3 DEF Elements
  <2>2. CASE n \notin 1 .. Len(stack)
    <3>1. n = Len(stack) + 1
      BY <1>2, <1>3, <2>2
    <3>2. Elements(Level(n).found)' = {}
      BY <1>3, <3>1, OneElement DEF Elements
    <3> QED BY <3>2
  <2> QED BY <2>1, <2>2
<1> QED BY <1>4, LinksKept, PlacedNext

\* Both kinds of call of getRelevant return particles that are in place of theirs.
LEMMA ReturnPlaced ==
  ASSUME RecordInv, StackInv, ReachInv, PlacedInv, EndDecay \/ EndDrop
  PROVE  PlacedInv'
<1> DEFINE m == Len(stack)
           a == IF top.call = "decay" THEN top.of ELSE top.found
<1>1. /\ UNCHANGED <<particles, vertices, rooted, prim>> /\ stack # <<>>
      /\ top.call # "vertex" /\ Found(a)
      /\ IF top.call = "decay" THEN links' = links \o Hung ELSE links' = links
  BY DEF EndDecay, EndDrop, Returned, Walking, output
<1>2. /\ m \in Nat /\ m >= 2 /\ top = Level(m) /\ top.of = <<Mother(m)>>
      /\ top.call \in {"decay", "drop"}
      /\ \A n \in 1 .. m : Level(n) \in Call
  BY <1>1, TopLevel, TopCall
<1>3. m \in 1 .. m /\ m - 1 \in 1 .. m - 1 /\ m - 1 \in 1 .. m /\ m \in 2 .. m
      /\ \A n \in 1 .. m - 1 : n \in 1 .. m
  BY <1>2
<1>4. /\ Place' = Place /\ \A S : InPlaceOf(S)' = InPlaceOf(S)
      /\ \A at : Below(at)' = Below(at)
  BY <1>1, Unmoved
<1> DEFINE i == Mother(m)
           S == Below(Level(m - 1).of)
<1>5. /\ i \in S /\ i \in visited /\ S \subseteq DOMAIN particles /\ Parent(i)
      /\ IF top.call = "decay" THEN particles[i].kind = "decayed"
         ELSE particles[i].kind = "dropped"
  <2>1. Level(m - 1).of \in Place
    BY <1>2, <1>3 DEF Call
  <2> QED BY <1>2, <1>3, <2>1, PlaceBelow DEF StackInv
<1>6. /\ S \subseteq InPlaceOf(S)
      /\ particles[i].kind = "dropped" => InPlaceOf(particles[i].daughters) \subseteq InPlaceOf(S)
  BY <1>5, InPlace
<1>7. Elements(top.found) \subseteq InPlaceOf(particles[i].daughters)
  BY <1>2, <1>3, BelowParticle DEF PlacedInv
<1>8. IF top.call = "decay" THEN a = <<i>> ELSE a = top.found
  BY <1>2
<1>9. Found(a)
  BY <1>1
<1> HIDE DEF a, S
<1>10. a \in Seq(DOMAIN particles) /\ Elements(a) \subseteq InPlaceOf(S)
  <2> HIDE DEF i
  <2>1. CASE top.call = "decay"
    <3>1. <<i>> \in Seq(DOMAIN particles) /\ Elements(<<i>>) = {i}
      BY <1>5, OneElement
    <3>2. a = <<i>>
      BY <1>8, <2>1
    <3> QED BY <1>5, <1>6, <3>1, <3>2
  <2>2. CASE top.call # "decay"
    <3>1. top.found \in Seq(DOMAIN particles)
      BY <1>2, <1>3 DEF Call
    <3>2. a = top.found /\ particles[i].kind = "dropped"
      BY <1>5, <1>8, <2>2
    <3>3. Elements(a) \subseteq InPlaceOf(particles[i].daughters)
      BY <1>7, <3>2
    <3>4. Elements(a) \subseteq InPlaceOf(S)
      BY <1>6, <3>2, <3>3
    <3> QED BY <3>1, <3>2, <3>4
  <2> QED BY <2>1, <2>2
<1>11. /\ Len(stack') = m - 1
      /\ \A n \in 1 .. m - 1 :
           /\ Level(n)'.of = Level(n).of
           /\ n # m - 1 => Level(n)' = Level(n)
           /\ n = m - 1 => Level(n)'.found = Level(n).found \o a
  BY <1>1, <1>2, <1>3, <1>9, <1>10, ReturnLevels
<1>12. ASSUME NEW n \in 1 .. Len(stack')
      PROVE  Elements(Level(n).found)' \subseteq InPlaceOf(Below(Level(n).of))'
  <2>1. n \in 1 .. m - 1 /\ n \in 1 .. m
    BY <1>3, <1>11
  <2>2. Elements(Level(n).found) \subseteq InPlaceOf(Below(Level(n).of))
    BY <2>1 DEF PlacedInv
  <2>3. InPlaceOf(Below(Level(n).of))' = InPlaceOf(Below(Level(n).of))
    <3>1. Below(Level(n).of)' = Below(Level(n).of)
      BY <1>1, <1>11, <2>1 DEF Below, Leaving
    <3> QED BY <1>1, <3>1 DEF InPlaceOf
  <2>4. CASE n # m - 1
    BY <1>11, <2>1, <2>2, <2>3, <2>4 DEF Elements
  <2>5. CASE n = m - 1
    <3>1. Elements(Level(n).found \o a) = Elements(Level(n).found) \cup Elements(a)
      BY <1>2, <1>10, <2>1, Joined DEF Call
    <3>2. Level(n)'.found = Level(n).found \o a
      BY <1>11, <2>1, <2>5
    <3>3. Elements(Level(n).found)' = Elements(Level(n).found \o a)
      BY <3>2 DEF Elements
    <3> HIDE DEF m
    <3>4. S = Below(Level(n).of)
      BY <2>5 DEF S
    <3> QED BY <1>10, <2>2, <2>3, <3>1, <3>3, <3>4
  <2> QED BY <2>4, <2>5
<1>13. top.call = "decay" => i \in prim
  BY <1>5 DEF ReachInv
<1>14. /\ links' \in Seq([child : DOMAIN particles, at : Place])
       /\ \A n \in DOMAIN links' : \/ n \in DOMAIN links /\ links'[n] = links[n]
                                   \/ /\ top.call = "decay"
                                      /\ links'[n].child \in Elements(top.found)
                                      /\ links'[n].at = top.of
  <2>1. links \in Seq([child : DOMAIN particles, at : Place])
    BY DEF PlacedInv
  <2> QED BY <1>1, <2>1, HungChildren
<1>15. ASSUME NEW n \in DOMAIN links'
       PROVE  /\ links'[n].child \in InPlaceOf(Below(links'[n].at))
              /\ links'[n].at \in {<<j>> : j \in prim'} \cup {<<x[1], x[2]>> : x \in rooted'}
  <2>1. CASE n \in DOMAIN links /\ links'[n] = links[n]
    BY <1>1, <2>1 DEF PlacedInv
  <2>2. CASE /\ top.call = "decay" /\ links'[n].child \in Elements(top.found)
             /\ links'[n].at = top.of
    <3>1. Below(links'[n].at) = particles[i].daughters
      BY <1>2, <2>2, BelowParticle
    <3> QED BY <1>1, <1>2, <1>7, <1>13, <2>2, <3>1
  <2> QED BY <1>14, <2>1, <2>2
<1> QED BY <1>1, <1>12, <1>14, <1>15, PlacedNext

\* What the call from a vertex found is hung to the vertex.
LEMMA EndRootPlaced ==
  ASSUME StackInv, PlacedInv, EndRoot
  PROVE  PlacedInv'
<1>1. /\ UNCHANGED <<particles, vertices, rooted, prim>> /\ stack # <<>> /\ stack' = <<>>
      /\ top.call = "vertex" /\ links' = links \o Hung
  BY DEF EndRoot, Returned, Walking, output
<1>2. Len(stack) = 1 /\ top = Level(1)
  BY <1>1, TopCall, TopLevel
<1>3. PICK x \in rooted : Level(1).of = <<x[1], x[2]>>
  BY <1>1 DEF StackInv
<1>4. Elements(top.found) \subseteq InPlaceOf(Below(top.of))
  BY <1>2 DEF PlacedInv
<1>5. /\ links' \in Seq([child : DOMAIN particles, at : Place])
      /\ \A n \in DOMAIN links' : \/ n \in DOMAIN links /\ links'[n] = links[n]
                                  \/ /\ links'[n].child \in Elements(top.found)
                                     /\ links'[n].at = top.of
  <2>1. links \in Seq([child : DOMAIN particles, at : Place])
    BY DEF PlacedInv
  <2> QED BY <1>1, <2>1, HungChildren
<1>6. ASSUME NEW n \in DOMAIN links'
      PROVE  /\ links'[n].child \in InPlaceOf(Below(links'[n].at))
             /\ links'[n].at \in {<<j>> : j \in prim'} \cup {<<y[1], y[2]>> : y \in rooted'}
  <2>1. CASE n \in DOMAIN links /\ links'[n] = links[n]
    BY <1>1, <2>1 DEF PlacedInv
  <2>2. CASE links'[n].child \in Elements(top.found) /\ links'[n].at = top.of
    <3>1. links'[n].child \in InPlaceOf(Below(links'[n].at))
      BY <1>4, <2>2
    <3>2. links'[n].at = <<x[1], x[2]>>
      BY <1>2, <1>3, <2>2
    <3> QED BY <1>1, <3>1, <3>2
  <2> QED BY <1>5, <2>1, <2>2
<1>7. \A n : n \notin 1 .. Len(stack')
  <2>1. Len(stack') = 0
    BY <1>1
  <2> QED BY <2>1
<1> QED BY <1>1, <1>5, <1>6, <1>7, PlacedNext

\* A vertex has nothing in its place yet.
LEMMA StartPlaced ==
  ASSUME RecordInv, PlacedInv, NEW x \in Root, StartRoot(x)
  PROVE  PlacedInv'
<1>1. /\ UNCHANGED <<particles, vertices, prim, links>> /\ Len(stack') = 1
      /\ rooted \subseteq rooted' /\ Level(1)'.found = <<>>
  BY StartLevels
<1>2. ASSUME NEW n \in 1 .. Len(stack')
      PROVE  Elements(Level(n).found)' \subseteq InPlaceOf(Below(Level(n).of))'
  <2>1. n = 1
    BY <1>1
  <2>2. Elements(Level(n).found)' = {}
    BY <1>1, <2>1, NoElement DEF Elements
  <2> QED BY <2>2
<1> QED BY <1>1, <1>2, LinksKept, PlacedNext

-----------------------------------------------------------------------------
\* Steps that leave the walk alone.
LEMMA WalkKept ==
  ASSUME WalkInv, UNCHANGED <<particles, vertices, walk>>
  PROVE  WalkInv'
<1>1. UNCHANGED <<rooted, visited, prim, links, stack>>
  BY DEF walk
<1>2. /\ Root' = Root /\ Reached' = Reached /\ Place' = Place /\ Call' = Call
      /\ \A i : (Parent(i)' <=> Parent(i)) /\ (Stripped(i)' <=> Stripped(i))
  BY Unmoved
<1>3. /\ \A n : Level(n)' = Level(n)
  BY <1>1 DEF Level
<1>4. /\ \A n : Mother(n)' = Mother(n) /\ FoundBy(n)' = FoundBy(n)
      /\ \A n : NoneTwice(Level(n).found)' <=> NoneTwice(Level(n).found)
      /\ \A n : Elements(Level(n).found)' = Elements(Level(n).found)
  BY <1>3 DEF Mother, FoundBy, Elements, NoneTwice
<1>5. /\ Decaying' = Decaying /\ Elements(Children)' = Elements(Children)
      /\ HungOnce' <=> HungOnce
  <2>1. Elements(Children)' = Elements(Children) /\ (HungOnce' <=> HungOnce)
    BY <1>1, HungKept
  <2>2. {o \in 2 .. Len(stack') : Level(o)'.call = "decay"}
          = {o \in 2 .. Len(stack) : Level(o).call = "decay"}
    BY <1>1, <1>3
  <2>3. Decaying' = Decaying
    BY <1>4, <2>2 DEF Decaying
  <2> QED BY <2>1, <2>3
<1>6. StackInv'
  <2>1. \A n : Below(Level(n - 1).of)' = Below(Level(n - 1).of)
    BY <1>3, BelowLevel
  <2>2. \A n : Parent(Mother(n))' <=> Parent(Mother(n))
    BY <1>4 DEF Parent
  <2> QED BY <1>1, <1>2, <1>3, <1>4, <2>1, <2>2 DEF WalkInv, StackInv
<1>7. ReachInv'
  BY <1>1, <1>2, <1>3, <1>4 DEF WalkInv, ReachInv
<1>8. OnceInv'
  BY <1>1, <1>2, <1>4, <1>5 DEF WalkInv, OnceInv
<1>9. PlacedInv'
  <2>1. \A n : InPlaceOf(Below(Level(n).of))' = InPlaceOf(Below(Level(n).of))
    BY <1>3, BelowLevel
  <2>2. \A n \in 1 .. Len(stack') :
          Elements(Level(n).found)' \subseteq InPlaceOf(Below(Level(n).of))'
    BY <1>1, <1>4, <2>1 DEF WalkInv, PlacedInv
  <2> QED BY <1>1, <2>2, LinksKept, PlacedNext DEF WalkInv
<1> QED BY <1>6, <1>7, <1>8, <1>9 DEF WalkInv

\* Before the walk.
LEMMA EmptyWalk == Empty => WalkInv
<1> SUFFICES ASSUME Empty PROVE WalkInv
  OBVIOUS
<1>1. rooted = {} /\ visited = {} /\ prim = {} /\ links = <<>> /\ stack = <<>>
  BY DEF Empty
<1>2. /\ Len(stack) = 0 /\ \A n : n \notin 1 .. Len(stack) /\ n \notin 2 .. Len(stack)
      /\ stack \in Seq(Call) /\ DOMAIN links = {}
      /\ links \in Seq([child : DOMAIN particles, at : Place])
  BY <1>1
<1>3. Decaying = {}
  BY <1>2 DEF Decaying
<1>4. Elements(Children) = {} /\ HungOnce
  <2>1. DOMAIN Children = {}
    BY <1>2 DEF Children
  <2> QED BY <1>2, <2>1 DEF Elements, HungOnce
<1>5. StackInv
  BY <1>1, <1>2 DEF StackInv
<1>6. ReachInv
  BY <1>1 DEF ReachInv
<1>7. OnceInv
  BY <1>1, <1>2, <1>3, <1>4 DEF OnceInv
<1>8. PlacedInv
  BY <1>2 DEF PlacedInv
<1> QED BY <1>5, <1>6, <1>7, <1>8 DEF WalkInv

\* The same of the state after a step.
LEMMA EmptyWalkNext == Empty' => WalkInv'
<1>1. Empty => WalkInv
  BY EmptyWalk
<1> QED BY <1>1, PTL

\* No particle is visited twice but to pass over it, or from its vertex.
LEMMA Fresh ==
  ASSUME RecordInv, WalkInv, NEW i, At(i), ~Seen(i)
  PROVE  /\ i \in DOMAIN particles /\ (i \in prim => i \in visited)
         /\ i \notin visited \/ Len(stack) = 1
         /\ i \in prim => Stripped(i) /\ Len(stack) = 1 /\ Level(1).found = <<>>
BY ToVisit DEF WalkInv, ReachInv

\* A particle is taken from the innermost call and nothing more is done with it.
LEMMA TakeNothing ==
  ASSUME StackInv, stack # <<>>, NEW i,
         stack' = <<[top EXCEPT !.left = @ \ {i}]>> \o Tail(stack)
  PROVE  Take(i, <<>>)
<1>1. PICK t \in Call : t = top
  BY TopLevel
<1>2. t.found \o <<>> = t.found
  BY DEF Call
<1>3. [t EXCEPT !.left = @ \ {i}, !.found = @ \o <<>>] = [t EXCEPT !.left = @ \ {i}]
  BY <1>2 DEF Call
<1> QED BY <1>1, <1>3 DEF Take

\* Steps in which a particle is visited that leads to no other.
LEMMA WalkTake ==
  ASSUME RecordInv, WalkInv, NEW i \in DOMAIN particles,
         Skip(i) \/ Stable(i) \/ Ignore(i)
  PROVE  WalkInv'
<1>1. /\ UNCHANGED <<particles, vertices, rooted, links>>
      /\ At(i) /\ stack # <<>> /\ StackInv /\ ReachInv /\ OnceInv /\ PlacedInv
  <2>1. UNCHANGED <<particles, vertices, rooted, links>> /\ At(i)
    BY DEF Skip, Stable, Ignore, Of, Answer, output
  <2> QED BY <2>1 DEF At, Walking, WalkInv
<1>2. <<>> \in Seq(DOMAIN particles) /\ <<i>> \in Seq(DOMAIN particles)
  OBVIOUS
<1>3. prim = Relevant(visited)
  BY <1>1 DEF ReachInv, Relevant
<1>4. \E a \in {<<>>, <<i>>} :
        /\ Take(i, a) /\ visited' = visited \cup {i} /\ prim' = prim \cup Elements(a)
        /\ prim' = Relevant(visited') /\ (i \in prim => a = <<>>)
        /\ (i \in visited \/ ~Parent(i) \/ particles[i].kind \in {"stable", "vetoed"})
  <2>1. CASE Skip(i)
    <3>1. i \in visited /\ UNCHANGED <<visited, prim>>
      BY <2>1 DEF Skip, Seen
    <3>2. Take(i, <<>>)
      BY <1>1, <2>1, TakeNothing DEF Skip
    <3>3. Relevant(visited') = Relevant(visited)
      BY <3>1 DEF Relevant
    <3> QED BY <1>3, <3>1, <3>2, <3>3, NoElement
  <2>2. CASE Stable(i)
    <3>1. ~Seen(i) /\ particles[i].kind = "stable" /\ prim' = prim \cup {i}
      BY <2>2 DEF Stable, Of
    <3>2. visited' = visited \cup {i}
      BY <2>2 DEF Stable, Answer
    <3>3. Take(i, IF i \in prim THEN <<>> ELSE <<i>>)
      BY <2>2 DEF Stable, Answer, Take
    <3>4. prim' = Relevant(visited')
      BY <1>3, <3>1, <3>2 DEF Relevant
    <3>5. CASE i \in prim
      <4>1. Take(i, <<>>) /\ prim' = prim \cup Elements(<<>>)
        BY <3>1, <3>3, <3>5, NoElement
      <4> QED BY <3>1, <3>2, <3>4, <4>1
    <3>6. CASE i \notin prim
      <4>1. Take(i, <<i>>) /\ prim' = prim \cup Elements(<<i>>)
        BY <3>1, <3>3, <3>6, OneElement
      <4> QED BY <3>1, <3>2, <3>4, <3>6, <4>1
    <3> QED BY <3>5, <3>6
  <2>3. CASE Ignore(i)
    <3>1. /\ ~Seen(i) /\ UNCHANGED prim
          /\ particles[i].kind = "vetoed" \/ (particles[i].kind # "stable" /\ ~Parent(i))
      BY <2>3 DEF Ignore
    <3>3. Take(i, <<>>) /\ visited' = visited \cup {i}
      BY <2>3 DEF Ignore, Answer, Take
    <3>4. prim' = Relevant(visited')
      BY <1>3, <3>1, <3>3 DEF Relevant
    <3> QED BY <3>1, <3>3, <3>4, NoElement
  <2> QED BY <2>1, <2>2, <2>3
<1>5. PICK a \in {<<>>, <<i>>} :
        /\ Take(i, a) /\ visited' = visited \cup {i} /\ prim' = prim \cup Elements(a)
        /\ prim' = Relevant(visited') /\ (i \in prim => a = <<>>)
        /\ (i \in visited \/ ~Parent(i) \/ particles[i].kind \in {"stable", "vetoed"})
  BY <1>4
<1>6. a \in Seq(DOMAIN particles)
  BY <1>2
<1>7. StackInv'
  BY <1>1, <1>5, <1>6, TakeStack
<1>8. ReachInv'
  BY <1>1, <1>5, <1>6, TakeReach
<1>9. OnceInv'
  BY <1>1, <1>5, TakeOnce
<1>10. PlacedInv'
  BY <1>1, <1>5, TakePlaced
<1> QED BY <1>7, <1>8, <1>9, <1>10 DEF WalkInv

\* Steps in which getRelevant calls itself.
LEMMA WalkCall ==
  ASSUME RecordInv, WalkInv, NEW i \in DOMAIN particles, Decay(i) \/ Drop(i)
  PROVE  WalkInv'
<1>1. /\ UNCHANGED <<particles, vertices, rooted, links>> /\ At(i) /\ ~Seen(i) /\ Parent(i)
      /\ stack # <<>> /\ StackInv /\ ReachInv /\ OnceInv /\ PlacedInv
  <2>1. UNCHANGED <<particles, vertices, rooted, links>> /\ At(i) /\ ~Seen(i) /\ Parent(i)
    BY DEF Decay, Drop, Of, Answer, Descend, output
  <2> QED BY <2>1 DEF At, Walking, WalkInv
<1>2. /\ i \notin visited \/ Len(stack) = 1
      /\ i \in prim => Stripped(i) /\ Len(stack) = 1 /\ Level(1).found = <<>> /\ i \in visited
  BY <1>1, Fresh
<1>3. prim = Relevant(visited)
  BY <1>1 DEF ReachInv, Relevant
<1> SUFFICES ASSUME ~(Decay(i) /\ i \in prim) PROVE WalkInv'
  <2> SUFFICES ASSUME Decay(i), i \in prim PROVE WalkInv'
    OBVIOUS
  <2>1. /\ Take(i, <<i>>) /\ visited' = visited \cup {i} /\ visited' = visited
        /\ prim' = prim /\ particles[i].kind = "decayed"
    BY <1>2 DEF Decay, Of, Answer, Take
  <2>2. <<i>> \in Seq(DOMAIN particles) /\ prim' = Relevant(visited')
    BY <1>3, <2>1 DEF Relevant
  <2>3. StackInv'
    BY <1>1, <2>1, <2>2, TakeStack
  <2>4. ReachInv'
    BY <1>1, <1>2, <2>1, <2>2, TakeReach
  <2>5. OnceInv'
    BY <1>1, <1>2, <2>1, TakeAgain
  <2>6. PlacedInv'
    BY <1>1, <2>1, TakePlaced
  <2> QED BY <2>3, <2>4, <2>5, <2>6 DEF WalkInv
<1>11. i \notin prim
  <2>1. CASE Drop(i)
    BY <1>3, <2>1 DEF Drop, Of, Relevant
  <2> QED BY <2>1
<1>4. \E call \in {"decay", "drop"} :
        /\ CallFor(call, i) /\ visited' = visited \cup {i}
        /\ particles[i].kind = (IF call = "decay" THEN "decayed" ELSE "dropped")
        /\ prim' = prim \cup (IF call = "decay" THEN {i} ELSE {})
        /\ prim' = Relevant(visited')
  <2>1. CASE Decay(i)
    <3>1. particles[i].kind = "decayed" /\ prim' = prim \cup {i}
      BY <2>1 DEF Decay, Of
    <3>2. CallFor("decay", i) /\ visited' = visited \cup {i}
      BY <1>11, <2>1 DEF Decay, Descend, CallFor
    <3>3. prim' = Relevant(visited')
      BY <1>1, <1>3, <3>1, <3>2 DEF Relevant
    <3> QED BY <3>1, <3>2, <3>3
  <2>2. CASE Drop(i)
    <3>1. particles[i].kind = "dropped" /\ prim' = prim
      BY <2>2 DEF Drop, Of
    <3>2. CallFor("drop", i) /\ visited' = visited \cup {i}
      BY <2>2 DEF Drop, Descend, CallFor
    <3>3. prim' = Relevant(visited')
      BY <1>3, <3>1, <3>2 DEF Relevant
    <3> QED BY <3>1, <3>2, <3>3
  <2> QED BY <2>1, <2>2
<1>5. PICK call \in {"decay", "drop"} :
        /\ CallFor(call, i) /\ visited' = visited \cup {i}
        /\ particles[i].kind = (IF call = "decay" THEN "decayed" ELSE "dropped")
        /\ prim' = prim \cup (IF call = "decay" THEN {i} ELSE {})
        /\ prim' = Relevant(visited')
  BY <1>4
<1>6. particles[i].kind # "broken" /\ prim \subseteq prim'
  BY <1>5
<1>7. StackInv'
  BY <1>1, <1>2, <1>5, CallStack
<1>8. ReachInv'
  BY <1>1, <1>5, <1>6, CallReach
<1>9. OnceInv'
  BY <1>1, <1>5, <1>11, CallOnce
<1>10. PlacedInv'
  BY <1>1, <1>5, <1>6, CallPlaced
<1> QED BY <1>7, <1>8, <1>9, <1>10 DEF WalkInv

\* Steps in which getRelevant returns.
LEMMA WalkReturn ==
  ASSUME RecordInv, WalkInv, EndDecay \/ EndDrop
  PROVE  WalkInv'
<1>1. /\ UNCHANGED <<particles, vertices, rooted, visited, prim>>
      /\ stack # <<>> /\ top.left = {} /\ top.call # "vertex"
      /\ StackInv /\ ReachInv /\ OnceInv /\ PlacedInv
  <2>1. /\ UNCHANGED <<particles, vertices, rooted, visited, prim>>
        /\ stack # <<>> /\ top.left = {} /\ top.call # "vertex"
    BY DEF EndDecay, EndDrop, Returned, Walking, output
  <2> QED BY <2>1 DEF WalkInv
<1>2. /\ Len(stack) >= 2 /\ Level(Len(stack)).left = {}
      /\ top.of = <<Mother(Len(stack))>> /\ top \in Call
  BY <1>1, TopCall, TopLevel
<1>3. \E a \in Seq(DOMAIN particles) : Found(a)
  <2>1. CASE EndDrop
    BY <1>2, <2>1 DEF EndDrop, Call
  <2>2. CASE EndDecay
    <3>1. top.of \in Seq(DOMAIN particles)
      <4>1. top.of \in Place
        BY <1>2 DEF Call
      <4>2. top.of \in {<<i>> : i \in DOMAIN particles}
        BY <1>2, <4>1, RootLeaves DEF Place
      <4>3. PICK i \in DOMAIN particles : top.of = <<i>>
        BY <4>2
      <4>4. <<i>> \in Seq(DOMAIN particles)
        OBVIOUS
      <4> QED BY <4>3, <4>4
    <3> QED BY <2>2, <3>1 DEF EndDecay
  <2> QED BY <2>1, <2>2
<1>4. StackInv' /\ ReachInv'
  BY <1>1, <1>2, <1>3, ReturnStack, ReturnReach
<1>5. OnceInv'
  BY <1>1, EndDropOnce, EndDecayOnce
<1>6. PlacedInv'
  BY <1>1, ReturnPlaced
<1> QED BY <1>4, <1>5, <1>6 DEF WalkInv

\* The walk from a vertex starts, and ends.
LEMMA WalkStart ==
  ASSUME RecordInv, WalkInv, NEW x \in Root, StartRoot(x)
  PROVE  WalkInv'
BY StartStack, StartReach, StartOnce, StartPlaced DEF WalkInv

\* The walk from a vertex ends.
LEMMA WalkEnd ==
  ASSUME WalkInv, EndRoot
  PROVE  WalkInv'
BY EndRootStack, EndRootOnce, EndRootPlaced DEF WalkInv

-----------------------------------------------------------------------------
\* The event starts with nothing.
LEMMA EventInvInit == Init => EventInv
<1> SUFFICES ASSUME Init PROVE EventInv
  OBVIOUS
<1>1. Empty
  BY DEF Init, Empty
<1>2. DOMAIN interactions = {}
  BY DEF Init
<1>3. WalkInv
  BY <1>1, EmptyWalk
<1> QED BY <1>1, <1>2, <1>3 DEF Init, EventInv

\* The actions and the merging, before the walk.
LEMMA EventBefore ==
  ASSUME MergeInv, EventInv,
         ReadFails \/ Add \/ AddTwice \/ StartMerge \/ (\E m \in Mask : Merge(m)) \/ EndMerge
  PROVE  EventInv'
<1>1. UNCHANGED walk /\ phase \in {"generate", "merge"}
  BY DEF ReadFails, Add, AddTwice, StartMerge, Merge, EndMerge, Called
<1>2. nextPID = -2 /\ Empty
  BY <1>1 DEF EventInv
<1>3. Empty' /\ WalkInv'
  <2>1. Empty'
    BY <1>1, <1>2 DEF Empty, walk
  <2> QED BY <2>1, EmptyWalkNext
<1>4. stack' = <<>>
  BY <1>3 DEF Empty
<1>5. /\ actions' \in ActionLists
      /\ DOMAIN interactions' \subseteq {actions'[n] : n \in 1 .. calls'}
  <2>1. CASE UNCHANGED input
    BY <2>1 DEF input, EventInv
  <2>2. CASE ReadFails \/ Add \/ AddTwice
    <3>1. UNCHANGED actions /\ calls' = calls + 1 /\ calls \in Nat
      BY <2>2 DEF ReadFails, Add, AddTwice, Called, MergeInv
    <3>2. DOMAIN interactions' \subseteq DOMAIN interactions \cup {mask}
      BY <2>2 DEF ReadFails, Add, AddTwice, Emplace
    <3>3. mask = actions[calls'] /\ 1 .. calls \subseteq 1 .. calls' /\ calls' \in 1 .. calls'
      BY <3>1 DEF mask
    <3> QED BY <3>1, <3>2, <3>3 DEF EventInv
  <2> QED BY <2>1, <2>2 DEF StartMerge, Merge, EndMerge
<1>6. aborted' \in BOOLEAN
  BY DEF EventInv, ReadFails, Add, AddTwice, StartMerge, Merge, EndMerge
<1>7. nextPID' \in {-2, offset' - 1} /\ (phase' \in {"generate", "merge"} => nextPID' = -2)
  BY <1>2 DEF ReadFails, Add, AddTwice, StartMerge, Merge, EndMerge, output, Called
<1>8. phase' \in {"generate", "merge", "primaries", "failed"}
  BY <1>1 DEF ReadFails, Add, AddTwice, StartMerge, Merge, EndMerge
<1> QED BY <1>3, <1>4, <1>5, <1>6, <1>7, <1>8 DEF EventInv

\* A step of the walk that does not end it.
LEMMA EventWalks ==
  ASSUME EventInv, WalkInv', phase = "primaries",
         UNCHANGED <<input, aborted, offset, nextPID, phase>>
  PROVE  EventInv'
BY DEF EventInv, input

\* The walk ends, or the record is refused.
LEMMA EventEnds ==
  ASSUME RecordInv, EventInv, EndPrimaries \/ (\E i \in DOMAIN particles : Refuse(i))
  PROVE  EventInv'
<1>1. /\ UNCHANGED <<input, aborted, output, walk>> /\ phase = "primaries"
      /\ phase' \in {"done", "failed"}
  BY DEF EndPrimaries, Refuse, Of, At, Walking
<1>2. UNCHANGED <<particles, vertices, offset, nextPID>>
  BY <1>1 DEF output
<1>3. WalkInv'
  BY <1>1, <1>2, WalkKept DEF EventInv
<1>4. UNCHANGED <<stack, rooted>> /\ Root' = Root /\ Reached' = Reached
      /\ \A i : Parent(i)' <=> Parent(i)
  BY <1>1, <1>2, Unmoved DEF walk
<1>5. phase' = "done" => stack' = <<>> /\ Root' \subseteq rooted'
  BY <1>4 DEF EndPrimaries, Refuse
<1>6. (phase' = "failed" /\ stack' # <<>>) =>
        \E i \in Reached' : particles'[i].kind = "broken" /\ Parent(i)'
  <2> SUFFICES ASSUME phase' = "failed"
               PROVE  \E i \in Reached' : particles'[i].kind = "broken" /\ Parent(i)'
    OBVIOUS
  <2>1. PICK i \in DOMAIN particles : Refuse(i)
    BY DEF EndPrimaries
  <2>2. At(i) /\ particles[i].kind = "broken" /\ Parent(i)
    BY <2>1 DEF Refuse, Of
  <2>3. i \in Reached
    BY <2>2, ToVisit DEF EventInv, WalkInv
  <2> QED BY <1>2, <1>4, <2>2, <2>3
<1> QED BY <1>1, <1>2, <1>3, <1>5, <1>6 DEF EventInv, input

\* Every step of the event keeps the invariant.
LEMMA EventInvNext == MergeInv /\ EventInv /\ [Next]_vars => EventInv'
<1> SUFFICES ASSUME MergeInv, EventInv, [Next]_vars PROVE EventInv'
  OBVIOUS
<1>0. RecordInv /\ WalkInv
  BY MergedRecord DEF EventInv
<1>1. CASE ReadFails \/ Add \/ AddTwice \/ StartMerge \/ (\E m \in Mask : Merge(m)) \/ EndMerge
  BY <1>1, EventBefore
<1>2. ASSUME NEW x \in Root, StartRoot(x) PROVE EventInv'
  <2>1. UNCHANGED <<input, aborted, offset, nextPID, phase>> /\ phase = "primaries"
    BY <1>2 DEF StartRoot, output
  <2> QED BY <1>0, <1>2, <2>1, WalkStart, EventWalks
<1>3. CASE EndRoot
  <2>1. UNCHANGED <<input, aborted, offset, nextPID, phase>> /\ phase = "primaries"
    BY <1>3 DEF EndRoot, Returned, Walking, output
  <2> QED BY <1>0, <1>3, <2>1, WalkEnd, EventWalks
<1>4. CASE EndDecay \/ EndDrop
  <2>1. UNCHANGED <<input, aborted, offset, nextPID, phase>> /\ phase = "primaries"
    BY <1>4 DEF EndDecay, EndDrop, Returned, Walking, output
  <2> QED BY <1>0, <1>4, <2>1, WalkReturn, EventWalks
<1>5. ASSUME NEW i \in DOMAIN particles, GetRelevant(i), ~Refuse(i) PROVE EventInv'
  <2>1. UNCHANGED <<input, aborted, offset, nextPID, phase>> /\ phase = "primaries"
    BY <1>5 DEF GetRelevant, Skip, Stable, Ignore, Decay, Drop, Of, At, Walking, output
  <2>2. WalkInv'
    BY <1>0, <1>5, WalkTake, WalkCall DEF GetRelevant
  <2> QED BY <2>1, <2>2, EventWalks
<1>6. CASE EndPrimaries \/ (\E i \in DOMAIN particles : Refuse(i))
  BY <1>0, <1>6, EventEnds
<1>7. CASE UNCHANGED vars
  <2>1. UNCHANGED <<input, aborted, particles, vertices, offset, nextPID, walk, phase>>
    BY <1>7 DEF vars, output
  <2>2. WalkInv' /\ Root' = Root /\ Reached' = Reached /\ \A i : Parent(i)' <=> Parent(i)
    BY <1>0, <2>1, WalkKept, Unmoved
  <2>3. (Empty' <=> Empty) /\ UNCHANGED <<rooted, stack>>
    BY <2>1 DEF walk, Empty
  <2> QED BY <2>1, <2>2, <2>3 DEF EventInv, input
<1> QED BY <1>1, <1>2, <1>3, <1>4, <1>5, <1>6, <1>7 DEF Next

\* The event, from its actions to its primaries.
LEMMA EventHolds == Spec => [](MergeInv /\ RecordInv /\ EventInv)
<1>1. MergeInv => RecordInv
  BY MergedRecord
<1>2. Init => EventInv
  BY EventInvInit
<1>3. MergeInv /\ EventInv /\ [Next]_vars => EventInv'
  BY EventInvNext
<1> QED BY <1>1, <1>2, <1>3, Merging, PTL DEF Spec

-----------------------------------------------------------------------------
\* generatePrimaries and getRelevant miss nothing: in the end exactly the stable and
\* the decaying particles a walk can reach are primaries, and a stable particle with
\* daughters is refused exactly if it can be reached; for every record, with any
\* number of particles in any families, loops included.
THEOREM MissesNothing == Spec => []PrimariesComplete
<1>1. RecordInv /\ EventInv => PrimariesComplete
  <2> SUFFICES ASSUME RecordInv, EventInv PROVE PrimariesComplete
    OBVIOUS
  <2>1. ASSUME phase = "done"
        PROVE  /\ {i \in Reached : particles[i].kind = "broken" /\ Parent(i)} = {}
               /\ prim = {i \in Reached : \/ particles[i].kind = "stable"
                                          \/ particles[i].kind = "decayed" /\ Parent(i)}
    <3>1. stack = <<>> /\ Root \subseteq rooted /\ ReachInv /\ visited \subseteq Reached
      BY <2>1 DEF EventInv, WalkInv, ReachInv
    <3>2. Len(stack) = 0 /\ 2 .. Len(stack) = {}
      BY <3>1
    <3>3. {x[3] : x \in Root} \subseteq visited
      BY <3>1 DEF ReachInv
    <3>4. \A i \in visited : particles[i].kind \in {"decayed", "dropped"} =>
            particles[i].daughters \subseteq visited
      BY <3>1, <3>2 DEF ReachInv
    <3>5. visited \in SUBSET DOMAIN particles
      BY <3>1 DEF Reached
    <3>6. Reached = visited
      BY <3>1, <3>3, <3>4, <3>5, Reaching
    <3> QED BY <3>1, <3>6 DEF ReachInv
  <2>2. (phase = "failed" /\ stack # <<>>) =>
          {i \in Reached : particles[i].kind = "broken" /\ Parent(i)} # {}
    BY DEF EventInv
  <2> QED BY <2>1, <2>2 DEF PrimariesComplete
<1> QED BY <1>1, EventHolds, PTL

\* generatePrimaries hands a primary to Geant4 once, by SetPrimary or by SetDaughter,
\* and in the end all of them, each at the nearest vertex or particle above it that
\* Geant4 knows of.  Only a daughter without parents may be handed over again, by
\* SetPrimary.
THEOREM HandsOverOnce == Spec => []AttachedOnce
<1>1. EventInv => AttachedOnce
  <2> SUFFICES ASSUME EventInv PROVE AttachedOnce
    OBVIOUS
  <2>1. OnceInv /\ PlacedInv
    BY DEF EventInv, WalkInv
  <2>2. \A n, o \in DOMAIN links : n < o /\ links[n].child = links[o].child =>
          Stripped(links[o].child) /\ Len(links[o].at) = 2
    BY <2>1 DEF OnceInv, HungOnce
  <2>3. ASSUME phase = "done"
        PROVE  prim = {links[n].child : n \in DOMAIN links}
    <3>1. stack = <<>>
      BY <2>3 DEF EventInv
    <3>2. 1 .. Len(stack) = {} /\ 2 .. Len(stack) = {}
      BY <3>1
    <3>3. Decaying = {} /\ UNION {FoundBy(n) : n \in 1 .. Len(stack)} = {}
      BY <3>2 DEF Decaying
    <3>4. prim = Elements(Children)
      BY <2>1, <3>3 DEF OnceInv
    <3> QED BY <3>4 DEF Elements, Children
  <2>4. ASSUME NEW n \in DOMAIN links
        PROVE  LET at == links[n].at
               IN  links[n].child \in
                     IF Len(at) = 1 THEN InPlaceOf(particles[at[1]].daughters)
                     ELSE InPlaceOf({x[3] : x \in Leaving(at[1], at[2])})
    <3>1. links[n].child \in InPlaceOf(Below(links[n].at))
      BY <2>1 DEF PlacedInv
    <3>2. CASE Len(links[n].at) = 1
      <4>1. Below(links[n].at) = particles[links[n].at[1]].daughters
        BY <3>2 DEF Below
      <4> QED BY <3>1, <3>2, <4>1
    <3>3. CASE Len(links[n].at) # 1
      <4>1. Below(links[n].at) = {x[3] : x \in Leaving(links[n].at[1], links[n].at[2])}
        BY <3>3 DEF Below
      <4> QED BY <3>1, <3>3, <4>1
    <3> QED BY <3>2, <3>3
  <2> QED BY <2>2, <2>3, <2>4 DEF AttachedOnce
<1> QED BY <1>1, EventHolds, PTL

\* getRelevant never calls itself for a particle that is not done with: so the calls
\* are no deeper than there are particles.
LEMMA DepthBound ==
  ASSUME RecordInv, StackInv, visited \subseteq DOMAIN particles
  PROVE  Len(stack) <= 1 + Cardinality(DOMAIN particles)
<1> DEFINE m == Len(stack)
           D == DOMAIN particles
           f == [n \in 2 .. m |-> Mother(n)]
<1>1. m \in Nat /\ IsFiniteSet(D) /\ Cardinality(D) \in Nat
  BY FS_CardinalityType DEF StackInv, RecordInv
<1>2. f \in [2 .. m -> D]
  BY DEF StackInv
<1>3. \A n, o \in 2 .. m : f[n] = f[o] => n = o
  <2> SUFFICES ASSUME NEW n \in 2 .. m, NEW o \in 2 .. m, f[n] = f[o] PROVE n = o
    OBVIOUS
  <2>1. Level(n).of = <<Mother(n)>> /\ Level(o).of = <<Mother(o)>>
    BY DEF StackInv
  <2>2. Level(n).of = Level(o).of /\ n \in 1 .. m /\ o \in 1 .. m
    BY <1>1, <2>1
  <2> QED BY <2>2 DEF StackInv
<1> HIDE DEF m, D, f
<1> SUFFICES ASSUME m > 1 + Cardinality(D) PROVE FALSE
  BY <1>1 DEF m, D
<1>4. IsFiniteSet(2 .. m) /\ Cardinality(2 .. m) = m - 1
  BY <1>1, FS_Interval
<1>5. \E n, o \in 2 .. m : n # o /\ f[n] = f[o]
  BY <1>1, <1>2, <1>4, FS_PigeonHole
<1> QED BY <1>3, <1>5

\* The types of the event: the masks, the places primaries are hung to, and the depth
\* of the calls of getRelevant.
THEOREM TypeCorrect == Spec => []TypeOK
<1>1. MergeInv /\ RecordInv /\ EventInv => TypeOK
  <2> SUFFICES ASSUME MergeInv, RecordInv, EventInv PROVE TypeOK
    OBVIOUS
  <2>1. StackInv /\ ReachInv /\ OnceInv /\ PlacedInv
    BY DEF EventInv, WalkInv
  <2>2. visited \subseteq DOMAIN particles /\ prim \subseteq visited
    BY <2>1 DEF ReachInv, Reached
  <2>3. Len(stack) <= 1 + Cardinality(DOMAIN particles)
    BY <2>1, <2>2, DepthBound
  <2>4. \A n \in DOMAIN links :
          /\ links[n].child \in prim
          /\ links[n].at \in {<<i>> : i \in prim} \cup {<<x[1], x[2]>> : x \in rooted}
    <3>1. Elements(Children) \subseteq prim
      BY <2>1 DEF OnceInv
    <3>2. \A n \in DOMAIN links : links[n].child \in Elements(Children)
      BY DEF Elements, Children
    <3> QED BY <2>1, <3>1, <3>2 DEF PlacedInv
  <2>5. rooted \subseteq Root
    BY <2>1 DEF StackInv
  <2>6. stack # <<>> => phase \in {"primaries", "failed"}
    BY DEF EventInv, Empty
  <2>7. /\ calls \in 0 .. Len(actions) /\ offset \in Nat
        /\ merged \subseteq DOMAIN interactions /\ DOMAIN vertices \subseteq merged
    BY DEF MergeInv
  <2>8. /\ actions \in ActionLists /\ aborted \in BOOLEAN /\ nextPID \in {-2, offset - 1}
        /\ DOMAIN interactions \subseteq {actions[n] : n \in 1 .. calls}
        /\ phase \in {"generate", "merge", "primaries", "done", "failed"}
    BY DEF EventInv
  <2> QED BY <2>2, <2>3, <2>4, <2>5, <2>6, <2>7, <2>8 DEF TypeOK
<1> QED BY <1>1, EventHolds, PTL
=============================================================================
