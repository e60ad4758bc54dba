------------------------- MODULE ParticleHandlerProofs -------------------------
(***************************************************************************)
(* Proofs about the Monte Carlo record: the chains of equivalent tracks    *)
(* end, at the nearest ancestor in the record, however tracks are          *)
(* suspended and whatever is left out, and so checkConsistency finds       *)
(* nothing, no hit that must be kept is lost, and the handler implements   *)
(* ParticleRecord.  With a user handler the hits are kept as well as long  *)
(* as no track is suspended.                                               *)
(***************************************************************************)
EXTENDS ParticleHandler, FiniteSetTheorems, NaturalsInduction, TLAPS

\* No user code marks a track to be killed, a mark that recombineParents hands on
\* from the particles it removes to their parents, primaries included.
NeverKilled == \A f \in Fates : "KILL" \notin f.marks

-----------------------------------------------------------------------------
\* Tracks that were simulated, to their end or until they were suspended.
Followed == {t \in Track : state[t] \in {"suspended", "done"}}

\* Geant4 numbers the tracks: one that is not from a vertex comes from an earlier one
\* that was followed.
TreeInv ==
  /\ parent \in [Track -> Track \cup {0}] /\ \A t \in Track : parent[t] < t
  /\ \E n \in 0 .. MaxTracks : Tracks = 1 .. n
  /\ \A t \in Tracks : IF parent[t] = 0 THEN t \in Primaries ELSE parent[t] \in Followed

\* A particle of the generator has one track at most: it is at a vertex, or it comes from
\* the track of the one particle it is hung to, which decayed once.
OriginInv ==
  /\ particle \in [Track -> Particle \cup {NoParticle}] /\ Primaries \subseteq Tracks
  /\ \A t, u \in Primaries : particle[t] = particle[u] => t = u
  /\ \A t \in Primaries :
       \/ particle[t] \in Roots
       \/ \E u \in Primaries : state[u] = "done" /\ particle[t] \in Products[particle[u]]
  /\ suspensions \in 0 .. MaxSuspensions

\* What is in the record was followed, and what is being removed from it does not
\* stand for itself any more.
ChainInv ==
  /\ DOMAIN equivalents = Followed /\ Stored \subseteq Followed
  /\ \A t \in Followed : equivalents[t] \in {t, parent[t]}
  /\ ChainsEnd
  /\ cursor \in Stored \cup {0} /\ remove \subseteq Stored
  /\ \A t \in remove : equivalents[t] = parent[t]
  /\ phase # "recombine" => remove = {}
  /\ phase # "tracking" => \A t \in Tracks : state[t] = "done"

\* A track that is suspended is known to be, and waits in one of the two maps or in none.
MapInv ==
  /\ userHandler \in UserHandlers /\ haveSuspended \in BOOLEAN
  /\ kind \in [Track -> Kinds]
  /\ state \in [Track -> {"none", "waiting", "suspended", "done"}]
  /\ \A t \in Track : state[t] = "suspended" => haveSuspended
  /\ \A t \in Stored : particleMap[t] \subseteq Reason
  /\ \A t \in DOMAIN suspendedPM : suspendedPM[t] \subseteq Reason
  /\ DOMAIN suspendedPM \subseteq {t \in Track : state[t] = "suspended"} \ Stored
  /\ phase \in {"tracking", "recombine", "rebase", "done"}
  /\ hitBy \in [Track -> SUBSET {"TRACKER", "CALO"}]

Inv == TreeInv /\ OriginInv /\ ChainInv /\ MapInv

\* Primaries stay in the record.
PrimaryInv ==
  /\ \A t \in Stored : "KILL" \notin particleMap[t]
  /\ \A t \in DOMAIN suspendedPM : "KILL" \notin suspendedPM[t] /\ t \notin Primaries
  /\ \A t \in Primaries \cap Followed : t \in Stored /\ "PRIMARY" \in particleMap[t]
  /\ remove \cap Primaries = {}

Claimed(t) == "TRACKER" \in hitBy[t] \/ (hitBy[t] # {} /\ kind[t].above)

\* The reason of a particle tells of the hits and of the energy of its track, and a
\* track that is not in the record had nothing to tell of when it was followed.
HitsInv ==
  /\ \A t \in Track : t \notin Followed => hitBy[t] = {}
  /\ \A t \in Stored :
       /\ hitBy[t] \subseteq particleMap[t]
       /\ hitBy[t] # {} => "HIT" \in particleMap[t]
       /\ kind[t].above => "ABOVE" \in particleMap[t]
  /\ phase = "tracking" => \A t \in Followed \ Stored : hitBy[t] = {} /\ ~kind[t].above
  /\ \A t \in Track : Claimed(t) => t \in Stored \ remove

-----------------------------------------------------------------------------
\* Every set of natural numbers that is not empty has a least one.
LEMMA LeastTrack ==
  ASSUME NEW U \in SUBSET Nat, U # {}
  PROVE  \E v \in U : \A w \in U : v <= w
<1> DEFINE R == OpToRel(<, Nat)
<1>1. IsWellFoundedOn(R, Nat)
  BY NatLessThanWellFounded
<1>2. PICK x \in U : \A y \in U : ~(<<y, x>> \in R)
  <2> HIDE DEF R
  <2> QED BY <1>1, WFMin
<1>3. ASSUME NEW w \in U PROVE x <= w
  <2>1. w \in Nat /\ x \in Nat
    OBVIOUS
  <2>2. ~(w < x)
    BY <1>2, <2>1 DEF OpToRel
  <2> QED BY <2>1, <2>2
<1> QED BY <1>3

\* Every set of tracks has a last one.
LEMMA LastTrack ==
  ASSUME NEW S \in SUBSET (Track \cup {0}), S # {}
  PROVE  \E x \in S : \A y \in S : x >= y
<1> DEFINE U == {MaxTracks - x : x \in S}
<1>1. MaxTracks \in Nat /\ \A x \in S : x \in 0 .. MaxTracks
  BY ParticleAssumptions DEF Track
<1>2. U \in SUBSET Nat /\ U # {}
  BY <1>1
<1>3. PICK v \in U : \A w \in U : v <= w
  <2> HIDE DEF U
  <2> QED BY <1>2, LeastTrack
<1>4. PICK x \in S : v = MaxTracks - x
  BY <1>3
<1>5. ASSUME NEW y \in S PROVE x >= y
  <2>1. MaxTracks - y \in U
    OBVIOUS
  <2>2. MaxTracks - x <= MaxTracks - y
    BY <1>3, <1>4, <2>1
  <2> QED BY <1>1, <2>2
<1> QED BY <1>5

\* recombineParents visits particles of the record, and none after the first.
LEMMA BeforeStored ==
  ASSUME NEW K \in SUBSET Track, NEW t
  PROVE  Max({0} \cup {u \in K : u < t}) \in K \cup {0}
<1> DEFINE S == {0} \cup {u \in K : u < t}
<1>1. S \in SUBSET (Track \cup {0}) /\ S # {}
  OBVIOUS
<1>2. \E x \in S : \A y \in S : x >= y
  <2> HIDE DEF S
  <2> QED BY <1>1, LastTrack
<1>3. Max(S) \in S
  <2> HIDE DEF S
  <2> QED BY <1>2 DEF Max
<1> QED BY <1>3

-----------------------------------------------------------------------------
\* The secondaries of a track and its products get the next numbers.
Secondaries(t, f) ==
  (Cardinality(Tracks) + 1)
    .. (Cardinality(Tracks) + 1 + f.secondaries + Cardinality(Assigned(t, f)) - 1)

\* What a track decays to are some of the particles.
LEMMA AssignedFinite ==
  ASSUME Inv, NEW t \in Track, NEW f \in Fates, SimulateTrack(t, f)
  PROVE  /\ Assigned(t, f) \subseteq Particle /\ Cardinality(Assigned(t, f)) \in Nat
         /\ Assigned(t, f) # {} => /\ t \in Primaries /\ particle[t] \in Particle
                                   /\ Assigned(t, f) = Products[particle[t]]
                                   /\ ~f.suspended
<1>1. f.decays => t \in Primaries /\ ~f.suspended
  BY DEF SimulateTrack
<1>2. t \in Primaries => particle[t] \in Particle
  BY DEF Inv, OriginInv, Primaries
<1>3. Assigned(t, f) \subseteq Particle
  BY <1>1, <1>2, ParticleAssumptions DEF Assigned
<1>4. IsFiniteSet(Particle)
  BY ParticleAssumptions, FS_Interval DEF Particle
<1>5. Cardinality(Assigned(t, f)) \in Nat
  BY <1>3, <1>4, FS_Subset, FS_CardinalityType
<1> QED BY <1>1, <1>2, <1>3, <1>5 DEF Assigned

\* What is stacked are new tracks, after all others.
LEMMA Stacked ==
  ASSUME Inv, NEW t \in Track, NEW f \in Fates, SimulateTrack(t, f)
  PROVE  /\ t \in Tracks /\ Secondaries(t, f) \subseteq Track \ Tracks
         /\ \A u \in Secondaries(t, f) : t < u
         /\ Tracks' = Tracks \cup Secondaries(t, f) /\ Followed' = Followed \cup {t}
         /\ \E n \in 0 .. MaxTracks : Tracks' = 1 .. n
<1> DEFINE k == f.secondaries + Cardinality(Assigned(t, f))
           new == Secondaries(t, f)
<1>1. MaxTracks \in Nat /\ k \in Nat
  BY ParticleAssumptions, AssignedFinite DEF Fate
<1>2. PICK n \in 0 .. MaxTracks : Tracks = 1 .. n
  BY DEF Inv, TreeInv
<1>3. n \in Nat /\ Cardinality(Tracks) = n
  BY <1>1, <1>2, FS_Interval
<1>4. new = (n + 1) .. (n + k)
  <2>1. f.secondaries \in Nat /\ Cardinality(Assigned(t, f)) \in Nat
    BY ParticleAssumptions, AssignedFinite DEF Fate
  <2>2. n + 1 + f.secondaries + Cardinality(Assigned(t, f)) - 1 = n + k
    BY <1>3, <2>1
  <2> QED BY <1>3, <2>2 DEF Secondaries
<1> HIDE DEF k
<1>5. new \subseteq Track
  BY DEF SimulateTrack, Secondaries
<1>6. n + k <= MaxTracks
  <2>1. CASE k = 0
    BY <1>1, <1>2, <1>3, <2>1
  <2>2. CASE k # 0
    <3>1. n + k \in (n + 1) .. (n + k)
      BY <1>1, <1>3, <2>2
    <3>2. n + k \in Track
      BY <1>4, <1>5, <3>1
    <3> QED BY <3>2 DEF Track
  <2> QED BY <2>1, <2>2
<1>7. t \in Tracks
  BY DEF SimulateTrack, Tracks
<1>8. state' = [u \in Track |->
              IF u = t THEN (IF f.suspended THEN "suspended" ELSE "done")
              ELSE IF u \in new THEN "waiting" ELSE state[u]]
  BY DEF SimulateTrack, Secondaries
<1>9. new \subseteq Track \ Tracks /\ \A u \in new : t < u
  <2> HIDE DEF new
  <2> QED BY <1>1, <1>2, <1>3, <1>4, <1>5, <1>7
<1>10. Tracks' = Tracks \cup new
  <2> HIDE DEF new
  <2> QED BY <1>5, <1>7, <1>8, <1>9 DEF Tracks
<1>11. Followed' = Followed \cup {t}
  <2> HIDE DEF new
  <2> QED BY <1>8, <1>9 DEF Tracks, Followed
<1>12. Tracks' = 1 .. n + k /\ n + k \in 0 .. MaxTracks
  <2> HIDE DEF new
  <2> QED BY <1>1, <1>2, <1>3, <1>4, <1>6, <1>10
<1> QED BY <1>7, <1>9, <1>10, <1>11, <1>12

\* The products of a decay get new tracks, the other new tracks are no primaries.
LEMMA PrimariesGrow ==
  ASSUME Inv, NEW t \in Track, NEW f \in Fates, SimulateTrack(t, f)
  PROVE  /\ Primaries \subseteq Primaries'
         /\ Primaries' \subseteq Primaries \cup Secondaries(t, f)
         /\ \A u \in Primaries : particle'[u] = particle[u]
         /\ \A u \in Primaries' \ Primaries : particle'[u] \in Assigned(t, f)
         /\ \A u, v \in Primaries' \ Primaries : particle'[u] = particle'[v] => u = v
         /\ particle' \in [Track -> Particle \cup {NoParticle}]
<1> DEFINE new == Secondaries(t, f)
           A == Assigned(t, f)
<1>1. PICK S \in SUBSET new : \E q \in Bijection(S, A) :
        particle' = [u \in Track |-> IF u \in S THEN q[u] ELSE particle[u]]
  BY DEF SimulateTrack, Secondaries
<1>2. PICK q \in Bijection(S, A) :
        particle' = [u \in Track |-> IF u \in S THEN q[u] ELSE particle[u]]
  BY <1>1
<1>3. /\ q \in [S -> A] /\ \A u, v \in S : q[u] = q[v] => u = v
  BY <1>2 DEF Bijection, Injection, IsInjective
<1>4. /\ A \subseteq Particle /\ NoParticle \notin Particle
      /\ S \subseteq Track \ Tracks /\ Primaries \subseteq Tracks
      /\ particle \in [Track -> Particle \cup {NoParticle}]
  BY AssignedFinite, Stacked, ParticleAssumptions DEF Particle, NoParticle, Inv, OriginInv
<1> HIDE DEF new, A
<1>5. S \subseteq new
  OBVIOUS
<1>6. \A u \in Track : particle'[u] = IF u \in S THEN q[u] ELSE particle[u]
  BY <1>2
<1>7. Primaries' = Primaries \cup S
  BY <1>3, <1>4, <1>6 DEF Primaries
<1>8. particle' \in [Track -> Particle \cup {NoParticle}]
  BY <1>2, <1>3, <1>4
<1>9. \A u \in Primaries : u \notin S /\ u \in Track
  BY <1>4 DEF Primaries
<1> QED BY <1>3, <1>4, <1>5, <1>6, <1>7, <1>8, <1>9 DEF new, A

\* Geant4 keeps its tracks in order.
LEMMA SimulateTree ==
  ASSUME Inv, NEW t \in Track, NEW f \in Fates, SimulateTrack(t, f)
  PROVE  /\ TreeInv'
         /\ parent' = [u \in Track |-> IF u \in Secondaries(t, f) THEN t ELSE parent[u]]
         /\ \A u \in Tracks : parent'[u] = parent[u] /\ kind'[u] = kind[u]
         /\ kind' \in [Track -> Kinds]
         /\ \A u \in Track \ Secondaries(t, f) : kind'[u] = kind[u]
         /\ state'[t] = (IF f.suspended THEN "suspended" ELSE "done")
         /\ \A u \in Tracks \ {t} : state'[u] = state[u]
         /\ \A u \in Secondaries(t, f) : state'[u] = "waiting"
         /\ state' \in [Track -> {"none", "waiting", "suspended", "done"}]
<1> DEFINE new == Secondaries(t, f)
<1>1. /\ t \in Tracks /\ new \subseteq Track \ Tracks
      /\ \A u \in new : t < u
      /\ Tracks' = Tracks \cup new /\ Followed' = Followed \cup {t}
      /\ \E n \in 0 .. MaxTracks : Tracks' = 1 .. n
  BY Stacked
<1>2. /\ parent' = [u \in Track |-> IF u \in new THEN t ELSE parent[u]]
      /\ state' = [u \in Track |->
              IF u = t THEN (IF f.suspended THEN "suspended" ELSE "done")
              ELSE IF u \in new THEN "waiting" ELSE state[u]]
      /\ \E k \in [new -> Kinds] :
           kind' = [u \in Track |-> IF u \in new THEN k[u] ELSE kind[u]]
  BY DEF SimulateTrack, Secondaries
<1>3. TreeInv /\ MapInv
  BY DEF Inv
<1> HIDE DEF new
<1>4. /\ kind' \in [Track -> Kinds]
      /\ \A u \in Track \ new : kind'[u] = kind[u]
  BY <1>2, <1>3 DEF MapInv
<1>5. TreeInv'
  <2>1. parent' \in [Track -> Track \cup {0}] /\ \A u \in Track : parent'[u] < u
    BY <1>1, <1>2, <1>3 DEF TreeInv
  <2>2. Primaries \subseteq Primaries' /\ t # 0
    BY PrimariesGrow, ParticleAssumptions DEF Track
  <2>3. ASSUME NEW u \in Tracks'
        PROVE  IF parent'[u] = 0 THEN u \in Primaries' ELSE parent'[u] \in Followed'
    <3>1. CASE u \in new
      BY <1>1, <1>2, <2>2, <3>1
    <3>2. CASE u \notin new
      <4>1. u \in Tracks /\ u \in Track
        BY <1>1, <3>2 DEF Tracks
      <4>2. parent'[u] = parent[u]
        BY <1>2, <3>2, <4>1
      <4>3. IF parent[u] = 0 THEN u \in Primaries ELSE parent[u] \in Followed
        BY <1>3, <4>1 DEF TreeInv
      <4> QED BY <1>1, <2>2, <4>2, <4>3
    <3> QED BY <3>1, <3>2
  <2> QED BY <1>1, <2>1, <2>3 DEF TreeInv
<1>6. /\ state'[t] = (IF f.suspended THEN "suspended" ELSE "done")
      /\ \A u \in Tracks \ {t} : state'[u] = state[u]
      /\ \A u \in new : state'[u] = "waiting"
  BY <1>1, <1>2 DEF Tracks
<1>7. state' \in [Track -> {"none", "waiting", "suspended", "done"}]
  BY <1>2, <1>3 DEF MapInv
<1>8. \A u \in Tracks : parent'[u] = parent[u] /\ kind'[u] = kind[u]
  BY <1>1, <1>2, <1>4 DEF Tracks
<1> QED BY <1>2, <1>4, <1>5, <1>6, <1>7, <1>8 DEF new

\* No particle of the generator gets a second track: the products of a decay are those
\* of one particle, whose one track ends with it.
LEMMA SimulateOrigin ==
  ASSUME Inv, NEW t \in Track, NEW f \in Fates, SimulateTrack(t, f)
  PROVE  OriginInv'
<1> DEFINE A == Assigned(t, f)
<1>1. /\ Primaries \subseteq Primaries' /\ Primaries' \subseteq Primaries \cup Secondaries(t, f)
      /\ \A u \in Primaries : particle'[u] = particle[u]
      /\ \A u \in Primaries' \ Primaries : particle'[u] \in A
      /\ \A u, v \in Primaries' \ Primaries : particle'[u] = particle'[v] => u = v
      /\ particle' \in [Track -> Particle \cup {NoParticle}]
  BY PrimariesGrow
<1>2. /\ A # {} => /\ t \in Primaries /\ particle[t] \in Particle
                   /\ A = Products[particle[t]] /\ ~f.suspended
  BY AssignedFinite
<1>3. /\ state[t] \in {"waiting", "suspended"}
      /\ state'[t] = (IF f.suspended THEN "suspended" ELSE "done")
      /\ \A u \in Tracks \ {t} : state'[u] = state[u]
      /\ Tracks' = Tracks \cup Secondaries(t, f)
  BY Stacked, SimulateTree DEF SimulateTrack
<1>4. /\ Primaries \subseteq Tracks
      /\ \A u \in Primaries : particle[u] \in Particle
      /\ \A u, v \in Primaries : particle[u] = particle[v] => u = v
      /\ \A u \in Primaries :
           \/ particle[u] \in Roots
           \/ \E v \in Primaries : state[v] = "done" /\ particle[u] \in Products[particle[v]]
  BY DEF Inv, OriginInv, Primaries
<1> HIDE DEF A
<1>5. ASSUME NEW u \in Primaries, particle[u] \in A PROVE FALSE
  <2>1. t \in Primaries /\ particle[t] \in Particle /\ A = Products[particle[t]]
    BY <1>2, <1>5
  <2>2. particle[u] \notin Roots
    BY <1>5, <2>1, ParticleAssumptions
  <2>3. PICK v \in Primaries : state[v] = "done" /\ particle[u] \in Products[particle[v]]
    BY <1>4, <2>2
  <2>4. particle[v] = particle[t]
    BY <1>4, <1>5, <2>1, <2>3, ParticleAssumptions
  <2>5. v = t
    BY <1>4, <2>1, <2>4
  <2> QED BY <1>3, <2>3, <2>5
<1>6. ASSUME NEW u \in Primaries', NEW v \in Primaries', particle'[u] = particle'[v]
      PROVE  u = v
  <2>1. CASE u \in Primaries /\ v \in Primaries
    BY <1>1, <1>4, <1>6, <2>1
  <2>2. CASE u \in Primaries /\ v \notin Primaries
    BY <1>1, <1>5, <1>6, <2>2
  <2>3. CASE u \notin Primaries /\ v \in Primaries
    BY <1>1, <1>5, <1>6, <2>3
  <2>4. CASE u \notin Primaries /\ v \notin Primaries
    BY <1>1, <1>6, <2>4
  <2> QED BY <2>1, <2>2, <2>3, <2>4
<1>7. ASSUME NEW u \in Primaries'
      PROVE  \/ particle'[u] \in Roots
             \/ \E v \in Primaries' : state'[v] = "done" /\ particle'[u] \in Products[particle'[v]]
  <2>1. CASE u \in Primaries
    <3>1. particle'[u] = particle[u]
      BY <1>1, <2>1
    <3>2. CASE particle[u] \in Roots
      BY <3>1, <3>2
    <3>3. CASE \E v \in Primaries : state[v] = "done" /\ particle[u] \in Products[particle[v]]
      <4>1. PICK v \in Primaries : state[v] = "done" /\ particle[u] \in Products[particle[v]]
        BY <3>3
      <4>2. v \in Tracks \ {t} /\ v \in Primaries' /\ particle'[v] = particle[v]
        BY <1>1, <1>3, <1>4, <4>1
      <4> QED BY <1>3, <3>1, <4>1, <4>2
    <3> QED BY <1>4, <2>1, <3>2, <3>3
  <2>2. CASE u \notin Primaries
    <3>1. particle'[u] \in A
      BY <1>1, <2>2
    <3>2. t \in Primaries /\ A = Products[particle[t]] /\ ~f.suspended
      BY <1>2, <3>1
    <3>3. t \in Primaries' /\ particle'[t] = particle[t] /\ state'[t] = "done"
      BY <1>1, <1>3, <3>2
    <3> QED BY <3>1, <3>2, <3>3
  <2> QED BY <2>1, <2>2
<1>8. suspensions' \in 0 .. MaxSuspensions
  <2>1. /\ suspensions \in 0 .. MaxSuspensions /\ MaxSuspensions \in Nat
        /\ suspensions' = suspensions + (IF f.suspended THEN 1 ELSE 0)
        /\ suspensions' <= MaxSuspensions
    BY ParticleAssumptions DEF SimulateTrack, Inv, OriginInv
  <2> QED BY <2>1
<1>9. Primaries' \subseteq Tracks'
  BY <1>1, <1>3, <1>4
<1> QED BY <1>1, <1>6, <1>7, <1>8, <1>9 DEF OriginInv

-----------------------------------------------------------------------------
\* end: whether the particle of the track enters the record, and what is noted of it.
Stores(t, f) == EndReason(t, f) # {} \/ f.info \/ Backscatter(t, f)

Noted(t, f) ==
  EndReason(t, f) \cup Flag(Backscatter(t, f), "ALWAYS") \cup Flag(f.info, "USER")

\* end: the equivalents, and the reasons in the two maps.
LEMMA EndProperty ==
  ASSUME NEW t \in Track, NEW f \in Fates, End(t, f)
  PROVE  /\ DOMAIN equivalents' = DOMAIN equivalents \cup {t}
         /\ equivalents'[t] = (IF Stores(t, f) THEN t ELSE parent[t])
         /\ \A u \in DOMAIN equivalents : u # t => equivalents'[u] = equivalents[u]
         /\ Stored' = Stored \cup (IF Stores(t, f) THEN {t} ELSE {})
         /\ \A u \in Stored' :
              \/ u = t /\ Stores(t, f) /\ particleMap'[u] = Noted(t, f)
              \/ u \in Stored /\ u # t /\ particleMap'[u] = particleMap[u]
              \/ /\ u \in Stored /\ ~Stores(t, f)
                 /\ particleMap'[u] \in {particleMap[u], particleMap[u] \cup Steps(t, f)}
         /\ \A u \in DOMAIN suspendedPM' :
              \/ /\ u = t /\ f.suspended /\ ~Stores(t, f) /\ t \notin Stored
                 /\ suspendedPM'[u] = EndReason(t, f)
              \/ u # t /\ u \in DOMAIN suspendedPM /\ suspendedPM'[u] = suspendedPM[u]
         /\ haveSuspended' = (haveSuspended \/ f.suspended)
<1> DEFINE store == Stores(t, f)
           near == Resolve(equivalents, Stored, parent[t])
<1>1. /\ equivalents' = Put(equivalents, t, IF store THEN t ELSE parent[t])
      /\ particleMap' =
           IF store THEN Put(particleMap, t, Noted(t, f))
           ELSE [u \in Stored |-> IF u = near THEN particleMap[u] \cup Steps(t, f)
                                              ELSE particleMap[u]]
      /\ suspendedPM' = Suspended(t, f, store)
      /\ haveSuspended' = (haveSuspended \/ f.suspended)
  BY DEF End, Equivalent, Stores, Noted
<1> HIDE DEF near, store
<1>2. /\ DOMAIN equivalents' = DOMAIN equivalents \cup {t}
      /\ equivalents'[t] = (IF store THEN t ELSE parent[t])
      /\ \A u \in DOMAIN equivalents : u # t => equivalents'[u] = equivalents[u]
  BY <1>1 DEF Put
<1>3. /\ Stored' = Stored \cup (IF store THEN {t} ELSE {})
      /\ \A u \in Stored' :
           \/ u = t /\ store /\ particleMap'[u] = Noted(t, f)
           \/ u \in Stored /\ u # t /\ particleMap'[u] = particleMap[u]
           \/ /\ u \in Stored /\ ~store
              /\ particleMap'[u] \in {particleMap[u], particleMap[u] \cup Steps(t, f)}
  <2>1. CASE store
    BY <1>1, <2>1 DEF Put, Stored
  <2>2. CASE ~store
    BY <1>1, <2>2 DEF Stored
  <2> QED BY <2>1, <2>2
<1>4. \A u \in DOMAIN suspendedPM' :
        \/ /\ u = t /\ f.suspended /\ ~store /\ t \notin Stored
           /\ suspendedPM'[u] = EndReason(t, f)
        \/ u # t /\ u \in DOMAIN suspendedPM /\ suspendedPM'[u] = suspendedPM[u]
  <2>1. CASE f.suspended /\ ~store /\ t \notin Stored
    <3>1. suspendedPM' = Put(suspendedPM, t, EndReason(t, f))
      BY <1>1, <2>1 DEF Suspended
    <3> QED BY <2>1, <3>1 DEF Put
  <2>2. CASE ~(f.suspended /\ ~store /\ t \notin Stored)
    <3>1. suspendedPM' = Without(suspendedPM, {t})
      BY <1>1, <2>2 DEF Suspended
    <3> QED BY <3>1 DEF Without
  <2> QED BY <2>1, <2>2
<1> QED BY <1>1, <1>2, <1>3, <1>4 DEF store

\* The reasons of a track are reasons, and its user handler only clears them.
LEMMA ReasonsTyped ==
  ASSUME MapInv, NEW t \in Track, NEW f \in Fates
  PROVE  /\ Begin(t) \subseteq Reason /\ Begin(t) \subseteq Steps(t, f)
         /\ Steps(t, f) \subseteq Reason
         /\ EndReason(t, f) \in {{}, Steps(t, f)}
         /\ ~userHandler => EndReason(t, f) = Steps(t, f)
         /\ Noted(t, f) \subseteq Reason
<1>1. Begin(t) \subseteq Reason
  <2>1. Fresh(t) \subseteq Reason
    BY DEF Fresh, Flag, Reason
  <2> QED BY <2>1 DEF Begin, MapInv
<1>2. f \in Fate
  BY ParticleAssumptions
<1>3. Begin(t) \subseteq Steps(t, f) /\ Steps(t, f) \subseteq Reason
  <2>1. f.hits \subseteq Reason /\ f.marks \subseteq Reason
    BY <1>2 DEF Fate, Reason
  <2>2. Steps(t, f) = Begin(t) \cup Flag("ABOVE" \in Begin(t) /\ f.secondaries > 0, "SECONDARIES")
                        \cup f.hits \cup Flag(f.hits # {}, "HIT") \cup f.marks
    BY DEF Steps
  <2> QED BY <1>1, <2>1, <2>2 DEF Flag, Reason
<1>4. /\ EndReason(t, f) \in {{}, Steps(t, f)}
      /\ ~userHandler => EndReason(t, f) = Steps(t, f)
  BY DEF EndReason, UserReason
<1>5. Noted(t, f) \subseteq Reason
  <2>1. {"ALWAYS", "USER"} \subseteq Reason /\ EndReason(t, f) \subseteq Reason
    BY <1>3, <1>4 DEF Reason
  <2> QED BY <2>1 DEF Noted, Flag
<1> QED BY <1>1, <1>3, <1>4, <1>5

\* A track was simulated.
LEMMA SimulateInv ==
  ASSUME Inv, NEW t \in Track, NEW f \in Fates, SimulateTrack(t, f)
  PROVE  Inv'
<1>1. /\ End(t, f) /\ phase = "tracking" /\ hitBy' = [hitBy EXCEPT ![t] = @ \cup f.hits]
      /\ UNCHANGED <<userHandler, phase, cursor, remove>>
      /\ state[t] \in {"waiting", "suspended"}
  BY DEF SimulateTrack
<1>2. /\ TreeInv' /\ OriginInv' /\ t \in Tracks
      /\ Followed' = Followed \cup {t} /\ Followed \subseteq Tracks
      /\ \A u \in Tracks : parent'[u] = parent[u]
  <2>1. Followed \subseteq Tracks
    BY DEF Followed, Tracks
  <2> QED BY <2>1, Stacked, SimulateTree, SimulateOrigin
<1>3. ChainInv /\ TreeInv /\ MapInv
  BY DEF Inv
<1>4. /\ DOMAIN equivalents' = DOMAIN equivalents \cup {t}
      /\ equivalents'[t] = (IF Stores(t, f) THEN t ELSE parent[t])
      /\ \A u \in DOMAIN equivalents : u # t => equivalents'[u] = equivalents[u]
      /\ Stored' = Stored \cup (IF Stores(t, f) THEN {t} ELSE {})
  BY <1>1, EndProperty
<1>5. \A u \in Stored' :
        \/ u = t /\ Stores(t, f) /\ particleMap'[u] = Noted(t, f)
        \/ u \in Stored /\ u # t /\ particleMap'[u] = particleMap[u]
        \/ /\ u \in Stored /\ ~Stores(t, f)
           /\ particleMap'[u] \in {particleMap[u], particleMap[u] \cup Steps(t, f)}
  BY <1>1, EndProperty
<1>6. \A u \in DOMAIN suspendedPM' :
        \/ /\ u = t /\ f.suspended /\ ~Stores(t, f) /\ t \notin Stored
           /\ suspendedPM'[u] = EndReason(t, f)
        \/ u # t /\ u \in DOMAIN suspendedPM /\ suspendedPM'[u] = suspendedPM[u]
  BY <1>1, EndProperty
<1>7. /\ Steps(t, f) \subseteq Reason /\ EndReason(t, f) \subseteq Reason
      /\ Noted(t, f) \subseteq Reason
  BY <1>3, ReasonsTyped
<1>8. ChainInv'
  <2>1. DOMAIN equivalents' = Followed'
    BY <1>2, <1>3, <1>4 DEF ChainInv
  <2>2. Stored' \subseteq Followed'
    BY <1>2, <1>3, <1>4 DEF ChainInv
  <2>3. \A u \in Followed' : equivalents'[u] \in {u, parent'[u]}
    <3> SUFFICES ASSUME NEW u \in Followed' PROVE equivalents'[u] \in {u, parent'[u]}
      OBVIOUS
    <3>1. parent'[u] = parent[u]
      BY <1>2
    <3>2. CASE u = t
      BY <1>4, <3>1, <3>2
    <3>3. CASE u # t
      <4>1. u \in Followed /\ u \in DOMAIN equivalents
        BY <1>2, <1>3, <3>3 DEF ChainInv
      <4> QED BY <1>3, <1>4, <3>1, <3>3, <4>1 DEF ChainInv
    <3> QED BY <3>2, <3>3
  <2>4. ChainsEnd'
    <3> SUFFICES ASSUME NEW u \in DOMAIN equivalents', equivalents'[u] = u PROVE u \in Stored'
      BY DEF ChainsEnd
    <3>1. CASE u = t
      <4>1. parent[t] # t
        BY <1>3, ParticleAssumptions DEF TreeInv, Track
      <4> QED BY <1>4, <3>1, <4>1
    <3>2. CASE u # t
      <4>1. u \in DOMAIN equivalents /\ equivalents[u] = u
        BY <1>4, <3>2
      <4> QED BY <1>3, <1>4, <4>1 DEF ChainInv, ChainsEnd
    <3> QED BY <3>1, <3>2
  <2>5. cursor' \in Stored' \cup {0} /\ remove' = {} /\ phase' = "tracking"
    BY <1>1, <1>3, <1>4 DEF ChainInv
  <2> QED BY <2>1, <2>2, <2>3, <2>4, <2>5 DEF ChainInv
<1>9. MapInv'
  <2>1. /\ kind' \in [Track -> Kinds]
        /\ state' \in [Track -> {"none", "waiting", "suspended", "done"}]
        /\ state'[t] = (IF f.suspended THEN "suspended" ELSE "done")
        /\ \A u \in Tracks \ {t} : state'[u] = state[u]
        /\ \A u \in Secondaries(t, f) : state'[u] = "waiting"
        /\ Tracks' = Tracks \cup Secondaries(t, f)
    BY Stacked, SimulateTree
  <2>2. \A u \in Track : state'[u] = "suspended" => haveSuspended'
    <3> SUFFICES ASSUME NEW u \in Track, state'[u] = "suspended" PROVE haveSuspended'
      OBVIOUS
    <3>1. u \in Tracks'
      BY DEF Tracks
    <3>2. u = t \/ state[u] = "suspended"
      BY <2>1, <3>1
    <3> QED BY <1>1, <1>3, <2>1, <3>2, EndProperty DEF MapInv
  <2>3. haveSuspended' \in BOOLEAN
    <3>1. f.suspended \in BOOLEAN
      BY ParticleAssumptions DEF Fate
    <3> QED BY <1>1, <1>3, <3>1, EndProperty DEF MapInv
  <2>4. \A u \in Stored' : particleMap'[u] \subseteq Reason
    BY <1>3, <1>5, <1>7 DEF MapInv
  <2>5. \A u \in DOMAIN suspendedPM' : suspendedPM'[u] \subseteq Reason
    BY <1>3, <1>6, <1>7 DEF MapInv
  <2>6. DOMAIN suspendedPM' \subseteq {u \in Track : state'[u] = "suspended"} \ Stored'
    <3> SUFFICES ASSUME NEW u \in DOMAIN suspendedPM'
                 PROVE  u \in Track /\ state'[u] = "suspended" /\ u \notin Stored'
      OBVIOUS
    <3>1. CASE u = t
      BY <1>4, <1>6, <2>1, <3>1
    <3>2. CASE u # t
      <4>1. u \in DOMAIN suspendedPM
        BY <1>6, <3>2
      <4>2. u \in Tracks /\ state[u] = "suspended" /\ u \notin Stored
        BY <1>3, <4>1 DEF MapInv, Tracks
      <4> QED BY <1>4, <2>1, <3>2, <4>2 DEF Tracks
    <3> QED BY <3>1, <3>2
  <2>7. hitBy' \in [Track -> SUBSET {"TRACKER", "CALO"}]
    <3>1. f.hits \subseteq {"TRACKER", "CALO"}
      BY ParticleAssumptions DEF Fate
    <3> QED BY <1>1, <1>3, <3>1 DEF MapInv
  <2> QED BY <1>1, <1>3, <2>1, <2>2, <2>3, <2>4, <2>5, <2>6, <2>7 DEF MapInv
<1> QED BY <1>2, <1>8, <1>9 DEF Inv

\* The tracking has ended, nothing is suspended.
LEMMA EndEventInv ==
  ASSUME Inv, EndEvent
  PROVE  Inv'
<1>1. /\ phase' = "recombine" /\ cursor' = Before(MaxTracks + 1)
      /\ UNCHANGED <<tracking, particleMap, equivalents, remove>>
      /\ \A t \in Tracks : state[t] = "done"
  BY DEF EndEvent
<1>2. UNCHANGED <<userHandler, parent, particle, kind, state, suspensions,
                  suspendedPM, haveSuspended, hitBy,
                  Stored, Followed, Tracks, Primaries>>
  BY <1>1 DEF tracking, Stored, Followed, Tracks, Primaries
<1>3. Before(MaxTracks + 1) \in Stored \cup {0}
  BY BeforeStored DEF Inv, ChainInv, Followed, Before
<1> QED BY <1>1, <1>2, <1>3 DEF Inv, TreeInv, OriginInv, ChainInv, ChainsEnd, MapInv

\* recombineParents: a particle that is removed stands for its parent from now on.
LEMMA VisitProperty ==
  ASSUME Inv, NEW t \in Track, Visit(t)
  PROVE  /\ UNCHANGED <<userHandler, parent, particle, kind, state, suspensions,
                        suspendedPM, haveSuspended, hitBy,
                        phase, record, trackId, Stored, Followed, Tracks, Primaries>>
         /\ t \in Stored /\ phase = "recombine" /\ cursor' = Before(t)
         /\ DOMAIN equivalents' = DOMAIN equivalents
         /\ \A u \in DOMAIN equivalents : u # t => equivalents'[u] = equivalents[u]
         /\ IF Removed(t) THEN remove' = remove \cup {t} /\ equivalents'[t] = parent[t]
                          ELSE UNCHANGED <<remove, equivalents>>
         /\ \A u \in Stored :
              /\ particleMap[u] \subseteq particleMap'[u]
              /\ particleMap'[u] \subseteq particleMap[u] \cup particleMap[t] \cup {"PARENT"}
<1>1. /\ phase = "recombine" /\ cursor = t /\ cursor' = Before(t)
      /\ UNCHANGED <<tracking, phase, final>>
  BY DEF Visit
<1>2. t \in Stored /\ t \in DOMAIN equivalents
  <2>1. 0 \notin Track
    BY ParticleAssumptions DEF Track
  <2> QED BY <1>1, <2>1 DEF Inv, ChainInv
<1>3. UNCHANGED <<userHandler, parent, particle, kind, state, suspensions,
                  suspendedPM, haveSuspended, hitBy,
                  Followed, Tracks, Primaries, phase, record, trackId>>
  BY <1>1 DEF tracking, final, Followed, Tracks, Primaries
<1>4. CASE Removed(t)
  <2>1. remove' = remove \cup {t} /\ equivalents' = Redirect(t) /\ particleMap' = Inherit(t)
    BY <1>4 DEF Visit
  <2>2. /\ Stored' = Stored
        /\ \A u \in Stored : particleMap'[u] \in
             {particleMap[u], particleMap[u] \cup particleMap[t]}
    BY <2>1 DEF Inherit, Stored
  <2>3. /\ DOMAIN equivalents' = DOMAIN equivalents /\ equivalents'[t] = parent[t]
        /\ \A u \in DOMAIN equivalents : u # t => equivalents'[u] = equivalents[u]
    BY <1>2, <2>1 DEF Put, Redirect
  <2> QED BY <1>1, <1>2, <1>3, <1>4, <2>1, <2>2, <2>3
<1>5. CASE ~Removed(t)
  <2>1. UNCHANGED <<remove, equivalents>>
    BY <1>5 DEF Visit
  <2>2. /\ Stored' = Stored
        /\ \A u \in Stored : particleMap'[u] \in {particleMap[u], particleMap[u] \cup {"PARENT"}}
    <3>1. CASE ByProcess(t) /\ ParentKeeps(t)
      <4>1. particleMap' = Put(particleMap, parent[t], particleMap[parent[t]] \cup {"PARENT"})
            /\ parent[t] \in Stored
        BY <1>5, <3>1 DEF Visit, ParentKeeps
      <4> QED BY <4>1 DEF Put, Stored
    <3>2. CASE ~(ByProcess(t) /\ ParentKeeps(t))
      BY <1>5, <3>2 DEF Visit, Stored
    <3> QED BY <3>1, <3>2
  <2> QED BY <1>1, <1>2, <1>3, <1>5, <2>1, <2>2
<1> QED BY <1>4, <1>5

\* recombineParents visits a particle.
LEMMA VisitInv ==
  ASSUME Inv, NEW t \in Track, Visit(t)
  PROVE  Inv'
<1>1. /\ UNCHANGED <<userHandler, parent, particle, kind, state, suspensions,
                     suspendedPM, haveSuspended, hitBy,
                     phase, Stored, Followed, Tracks, Primaries>>
      /\ t \in Stored /\ phase = "recombine" /\ cursor' = Before(t)
      /\ DOMAIN equivalents' = DOMAIN equivalents
      /\ \A u \in DOMAIN equivalents : u # t => equivalents'[u] = equivalents[u]
      /\ IF Removed(t) THEN remove' = remove \cup {t} /\ equivalents'[t] = parent[t]
                       ELSE UNCHANGED <<remove, equivalents>>
      /\ \A u \in Stored :
           particleMap'[u] \subseteq particleMap[u] \cup particleMap[t] \cup {"PARENT"}
  BY VisitProperty
<1>2. TreeInv /\ OriginInv /\ ChainInv /\ MapInv
  BY DEF Inv
<1>3. TreeInv' /\ OriginInv'
  BY <1>1, <1>2 DEF TreeInv, OriginInv
<1>4. ChainInv'
  <2>1. cursor' \in Stored' \cup {0}
    BY <1>1, <1>2, BeforeStored DEF ChainInv, Followed, Before
  <2>2. \A u \in DOMAIN equivalents : equivalents'[u] \in {equivalents[u], parent[u]}
    BY <1>1
  <2>3. ChainsEnd'
    <3>1. parent[t] # t
      BY <1>2, ParticleAssumptions DEF TreeInv, Track
    <3> QED BY <1>1, <1>2, <3>1 DEF ChainInv, ChainsEnd
  <2>4. remove' \subseteq Stored' /\ \A u \in remove' : equivalents'[u] = parent'[u]
    <3>1. \A u \in remove' : u = t \/ u \in remove
      BY <1>1
    <3>2. Stored \subseteq DOMAIN equivalents
      BY <1>2 DEF ChainInv
    <3> QED BY <1>1, <1>2, <3>1, <3>2 DEF ChainInv
  <2> QED BY <1>1, <1>2, <2>1, <2>2, <2>3, <2>4 DEF ChainInv
<1>5. MapInv'
  <2>1. \A u \in Stored' : particleMap'[u] \subseteq Reason
    BY <1>1, <1>2 DEF MapInv, Reason
  <2> QED BY <1>1, <1>2, <2>1 DEF MapInv
<1> QED BY <1>3, <1>4, <1>5 DEF Inv

\* The particles of a pass are erased: their tracks stand for their parents by then.
LEMMA EndPassProperty ==
  ASSUME Inv, EndPass
  PROVE  /\ UNCHANGED <<userHandler, parent, particle, kind, state, suspensions,
                        suspendedPM, haveSuspended, hitBy,
                        equivalents, record, trackId, Followed, Tracks, Primaries>>
         /\ Stored' = Stored \ remove /\ \A u \in Stored' : particleMap'[u] = particleMap[u]
         /\ remove' = {} /\ phase = "recombine" /\ phase' \in {"recombine", "rebase"}
         /\ cursor' \in Stored' \cup {0}
<1>1. /\ UNCHANGED <<tracking, equivalents, final>>
      /\ particleMap' = Without(particleMap, remove)
      /\ remove' = {} /\ phase = "recombine" /\ cursor = 0
      /\ IF remove = {} THEN phase' = "rebase" /\ UNCHANGED cursor
                        ELSE cursor' = Before(MaxTracks + 1)' /\ UNCHANGED phase
  BY DEF EndPass
<1>2. UNCHANGED <<userHandler, parent, particle, kind, state, suspensions,
                  suspendedPM, haveSuspended, hitBy,
                  equivalents, record, trackId, Followed, Tracks, Primaries>>
  BY <1>1 DEF tracking, final, Followed, Tracks, Primaries
<1>3. Stored' = Stored \ remove /\ \A u \in Stored' : particleMap'[u] = particleMap[u]
  BY <1>1 DEF Without, Stored
<1>4. Before(MaxTracks + 1)' \in Stored' \cup {0}
  <2>1. Stored' \subseteq Track
    BY <1>3 DEF Inv, ChainInv, Followed
  <2> QED BY <2>1, BeforeStored DEF Before
<1> QED BY <1>1, <1>2, <1>3, <1>4

\* A pass of recombineParents has ended.
LEMMA EndPassInv ==
  ASSUME Inv, EndPass
  PROVE  Inv'
<1>1. /\ UNCHANGED <<userHandler, parent, particle, kind, state, suspensions,
                     suspendedPM, haveSuspended, hitBy,
                     equivalents, Followed, Tracks, Primaries>>
      /\ Stored' = Stored \ remove /\ \A u \in Stored' : particleMap'[u] = particleMap[u]
      /\ remove' = {} /\ phase = "recombine" /\ phase' \in {"recombine", "rebase"}
      /\ cursor' \in Stored' \cup {0}
  BY EndPassProperty
<1>2. TreeInv /\ OriginInv /\ ChainInv /\ MapInv
  BY DEF Inv
<1>3. ChainsEnd'
  <2>1. \A t \in remove : t \in Followed /\ equivalents[t] = parent[t] /\ parent[t] # t
    BY <1>2, ParticleAssumptions DEF TreeInv, ChainInv, Followed, Track
  <2> QED BY <1>1, <1>2, <2>1 DEF ChainInv, ChainsEnd
<1>4. TreeInv' /\ OriginInv'
  BY <1>1, <1>2 DEF TreeInv, OriginInv
<1>5. ChainInv'
  BY <1>1, <1>2, <1>3 DEF ChainInv
<1>6. MapInv'
  BY <1>1, <1>2 DEF MapInv
<1> QED BY <1>4, <1>5, <1>6 DEF Inv

\* The event has ended, or nothing happens.
LEMMA RebaseInv ==
  ASSUME Inv, Rebase \/ UNCHANGED vars
  PROVE  Inv'
<1>1. /\ UNCHANGED <<tracking, particleMap, equivalents, cursor, remove>>
      /\ phase' = phase \/ (phase = "rebase" /\ phase' = "done")
  BY DEF Rebase, vars
<1>2. UNCHANGED <<userHandler, parent, particle, kind, state, suspensions,
                  suspendedPM, haveSuspended, hitBy,
                  Stored, Followed, Tracks, Primaries>>
  BY <1>1 DEF tracking, Stored, Followed, Tracks, Primaries
<1>3. TreeInv' /\ OriginInv' /\ ChainInv' /\ MapInv'
  BY <1>1, <1>2 DEF Inv, TreeInv, OriginInv, ChainInv, ChainsEnd, MapInv
<1> QED BY <1>3 DEF Inv

\* The event starts with the particles at the vertices, numbered first.
LEMMA InvInit == Init => Inv
<1> SUFFICES ASSUME Init PROVE Inv
  OBVIOUS
<1> DEFINE n == Cardinality(Roots)
<1>1. n \in Nat /\ MaxTracks \in Nat /\ n <= MaxTracks /\ Roots \subseteq Particle
      /\ MaxSuspensions \in Nat /\ NoParticle \notin Particle
  <2>1. IsFiniteSet(Particle)
    BY ParticleAssumptions, FS_Interval DEF Particle
  <2>2. n \in Nat
    BY <2>1, ParticleAssumptions, FS_Subset, FS_CardinalityType
  <2> QED BY <2>2, ParticleAssumptions DEF Particle, NoParticle
<1> HIDE DEF n
<1>2. PICK p \in Bijection(1 .. n, Roots) :
        particle = [t \in Track |-> IF t \in DOMAIN p THEN p[t] ELSE NoParticle]
  BY DEF Init, n
<1>3. /\ p \in [1 .. n -> Roots] /\ \A t, u \in 1 .. n : p[t] = p[u] => t = u
  BY <1>2 DEF Bijection, Injection, IsInjective
<1>4. 1 .. n \subseteq Track
  BY <1>1 DEF Track
<1>5. \A t \in Track : particle[t] = IF t \in 1 .. n THEN p[t] ELSE NoParticle
  BY <1>2, <1>3
<1>6. Primaries = 1 .. n
  BY <1>1, <1>3, <1>4, <1>5 DEF Primaries
<1>7. Tracks = 1 .. n /\ Followed = {} /\ Stored = {}
  BY <1>4, <1>6 DEF Init, Tracks, Followed, Stored
<1>8. TreeInv
  <2>1. parent \in [Track -> Track \cup {0}] /\ \A t \in Track : parent[t] = 0 /\ 0 < t
    BY <1>1 DEF Init, Track
  <2>2. n \in 0 .. MaxTracks
    BY <1>1
  <2>3. \A t \in Tracks : t \in Track
    BY DEF Tracks
  <2> QED BY <1>6, <1>7, <2>1, <2>2, <2>3 DEF TreeInv
<1>9. OriginInv
  <2>1. particle \in [Track -> Particle \cup {NoParticle}]
    BY <1>1, <1>2, <1>3
  <2>2. \A t \in Primaries : particle[t] \in Roots
    BY <1>3, <1>4, <1>5, <1>6
  <2>3. \A t, u \in Primaries : particle[t] = particle[u] => t = u
    BY <1>3, <1>4, <1>5, <1>6
  <2>4. suspensions \in 0 .. MaxSuspensions
    BY <1>1 DEF Init
  <2> QED BY <1>6, <1>7, <2>1, <2>2, <2>3, <2>4 DEF OriginInv
<1>10. ChainInv
  BY <1>7 DEF Init, ChainInv, ChainsEnd
<1>11. MapInv
  <2>1. /\ state \in [Track -> {"none", "waiting"}] /\ kind \in [Track -> Kinds]
        /\ hitBy \in [Track -> SUBSET {"TRACKER", "CALO"}]
    BY DEF Init
  <2>2. /\ DOMAIN suspendedPM = {} /\ haveSuspended = FALSE /\ phase = "tracking"
        /\ userHandler \in UserHandlers
    BY DEF Init
  <2> QED BY <1>7, <2>1, <2>2 DEF MapInv
<1> QED BY <1>8, <1>9, <1>10, <1>11 DEF Inv

\* Every step keeps the invariant.
LEMMA InvNext == Inv /\ [Next]_vars => Inv'
BY SimulateInv, EndEventInv, VisitInv, EndPassInv, RebaseInv DEF Next

\* The invariant of the handler.
LEMMA Invariance == Spec => []Inv
BY InvInit, InvNext, PTL DEF Spec

\* Geant4ParticleHandler: every map knows only tracks that were followed, and when the
\* tracking has ended none waits in m_suspendedPM, which clear() asserts.
THEOREM Typing == Spec => []TypeOK
<1>1. Inv => TypeOK
  <2> SUFFICES ASSUME Inv PROVE TypeOK
    OBVIOUS
  <2>1. Followed \subseteq Tracks /\ Tracks \subseteq Track
    BY DEF Followed, Tracks
  <2>2. cursor \in 0 .. MaxTracks
    BY <2>1, ParticleAssumptions DEF Inv, ChainInv, Track
  <2> QED BY <2>1, <2>2 DEF Inv, TreeInv, OriginInv, ChainInv, MapInv, TypeOK
<1> QED BY <1>1, Invariance, PTL

\* The loops of end and rebaseSimulatedTracks over m_equivalentTracks end for every
\* number of tracks, any of them suspended, and every reduction of the record.
THEOREM LoopsEnd == Spec => []ChainsEnd
<1>1. Inv => ChainsEnd
  BY DEF Inv, ChainInv
<1> QED BY <1>1, Invariance, PTL

-----------------------------------------------------------------------------
\* Without a mark to kill, no reason asks for it, and a primary is noted as one.
LEMMA PrimaryReasons ==
  ASSUME NeverKilled, Inv, PrimaryInv, NEW t \in Track, NEW f \in Fates
  PROVE  /\ "KILL" \notin Steps(t, f) /\ "KILL" \notin EndReason(t, f) /\ "KILL" \notin Noted(t, f)
         /\ t \in Primaries =>
              Stores(t, f) /\ "PRIMARY" \in EndReason(t, f) /\ "PRIMARY" \in Noted(t, f)
<1>1. "KILL" \notin Begin(t) /\ (t \in Primaries => "PRIMARY" \in Begin(t))
  <2>1. "KILL" \notin Fresh(t) /\ (t \in Primaries => "PRIMARY" \in Fresh(t))
    BY DEF Fresh, Flag
  <2>2. CASE haveSuspended /\ t \in Stored
    <3>1. Begin(t) = particleMap[t]
      BY <2>2 DEF Begin
    <3>2. t \in Followed
      BY <2>2 DEF Inv, ChainInv
    <3> QED BY <2>2, <3>1, <3>2 DEF PrimaryInv
  <2>3. CASE ~(haveSuspended /\ t \in Stored) /\ haveSuspended /\ t \in DOMAIN suspendedPM
    <3>1. Begin(t) = suspendedPM[t]
      BY <2>3 DEF Begin
    <3> QED BY <2>3, <3>1 DEF PrimaryInv
  <2>4. CASE ~(haveSuspended /\ t \in Stored) /\ ~(haveSuspended /\ t \in DOMAIN suspendedPM)
    <3>1. Begin(t) = Fresh(t)
      BY <2>4 DEF Begin
    <3> QED BY <2>1, <3>1
  <2> QED BY <2>2, <2>3, <2>4
<1>2. "KILL" \notin Steps(t, f) /\ (t \in Primaries => "PRIMARY" \in Steps(t, f))
  <2>1. "KILL" \notin f.hits /\ "KILL" \notin f.marks
    BY ParticleAssumptions DEF NeverKilled, Fate
  <2>2. Steps(t, f) = Begin(t) \cup Flag("ABOVE" \in Begin(t) /\ f.secondaries > 0, "SECONDARIES")
                        \cup f.hits \cup Flag(f.hits # {}, "HIT") \cup f.marks
    BY DEF Steps
  <2> QED BY <1>1, <2>1, <2>2 DEF Flag
<1>3. "KILL" \notin EndReason(t, f) /\ (t \in Primaries => "PRIMARY" \in EndReason(t, f))
  <2>1. EndReason(t, f) \in {{}, Steps(t, f)}
    BY ReasonsTyped DEF Inv
  <2>2. t \in Primaries => EndReason(t, f) = Steps(t, f)
    BY <1>2 DEF EndReason, UserReason
  <2> QED BY <1>2, <2>1, <2>2
<1>4. "KILL" \notin Noted(t, f) /\ (t \in Primaries => "PRIMARY" \in Noted(t, f))
  BY <1>3 DEF Noted, Flag
<1> QED BY <1>2, <1>3, <1>4 DEF Stores

\* Every step keeps the primaries.
LEMMA PrimaryStep ==
  ASSUME NeverKilled, Inv, PrimaryInv, [Next]_vars
  PROVE  PrimaryInv'
<1>1. ASSUME NEW t \in Track, NEW f \in Fates, SimulateTrack(t, f) PROVE PrimaryInv'
  <2>1. End(t, f) /\ remove' = {} /\ Followed' = Followed \cup {t}
    BY <1>1, Stacked DEF SimulateTrack, Inv, ChainInv
  <2>2. /\ Stored' = Stored \cup (IF Stores(t, f) THEN {t} ELSE {})
        /\ \A u \in Stored' :
             \/ u = t /\ Stores(t, f) /\ particleMap'[u] = Noted(t, f)
             \/ u \in Stored /\ u # t /\ particleMap'[u] = particleMap[u]
             \/ /\ u \in Stored /\ ~Stores(t, f)
                /\ particleMap'[u] \in {particleMap[u], particleMap[u] \cup Steps(t, f)}
        /\ \A u \in DOMAIN suspendedPM' :
             \/ /\ u = t /\ f.suspended /\ ~Stores(t, f) /\ t \notin Stored
                /\ suspendedPM'[u] = EndReason(t, f)
             \/ u # t /\ u \in DOMAIN suspendedPM /\ suspendedPM'[u] = suspendedPM[u]
    BY <2>1, EndProperty
  <2>3. /\ "KILL" \notin Steps(t, f) /\ "KILL" \notin EndReason(t, f)
        /\ "KILL" \notin Noted(t, f)
        /\ t \in Primaries => Stores(t, f) /\ "PRIMARY" \in Noted(t, f)
    BY PrimaryReasons
  <2>4. /\ Primaries' \cap Tracks = Primaries /\ t \in Tracks
        /\ Followed' \subseteq Tracks /\ DOMAIN suspendedPM \subseteq Tracks
    <3>1. /\ Primaries \subseteq Primaries' /\ Primaries' \subseteq Primaries \cup Secondaries(t, f)
          /\ Secondaries(t, f) \cap Tracks = {} /\ t \in Tracks
      BY <1>1, PrimariesGrow, Stacked
    <3>2. Primaries \subseteq Tracks /\ Followed \subseteq Tracks /\ DOMAIN suspendedPM \subseteq Tracks
      BY DEF Inv, OriginInv, MapInv, Followed, Tracks
    <3> QED BY <2>1, <3>1, <3>2
  <2>5. \A u \in Stored' : "KILL" \notin particleMap'[u]
    BY <2>2, <2>3 DEF PrimaryInv
  <2>6. \A u \in DOMAIN suspendedPM' : "KILL" \notin suspendedPM'[u] /\ u \notin Primaries'
    <3> SUFFICES ASSUME NEW u \in DOMAIN suspendedPM'
                 PROVE  "KILL" \notin suspendedPM'[u] /\ u \notin Primaries'
      OBVIOUS
    <3>1. u \in Tracks /\ "KILL" \notin suspendedPM'[u] /\ u \notin Primaries
      BY <2>2, <2>3, <2>4 DEF PrimaryInv
    <3> QED BY <2>4, <3>1
  <2>7. \A u \in Primaries' \cap Followed' : u \in Stored' /\ "PRIMARY" \in particleMap'[u]
    <3> SUFFICES ASSUME NEW u \in Primaries' \cap Followed'
                 PROVE  u \in Stored' /\ "PRIMARY" \in particleMap'[u]
      OBVIOUS
    <3>1. u \in Primaries
      BY <2>4
    <3>2. u \in Stored'
      BY <2>1, <2>2, <2>3, <3>1 DEF PrimaryInv
    <3>3. u # t => "PRIMARY" \in particleMap[u]
      BY <2>1, <3>1 DEF PrimaryInv
    <3> QED BY <2>2, <2>3, <3>2, <3>3, <3>1
  <2> QED BY <2>1, <2>5, <2>6, <2>7 DEF PrimaryInv
<1>2. ASSUME NEW t \in Track, Visit(t) PROVE PrimaryInv'
  <2>1. /\ UNCHANGED <<suspendedPM, Stored, Followed, Primaries>>
        /\ t \in Stored
        /\ remove' \in {remove, remove \cup {t}} /\ (remove' # remove => Removed(t))
        /\ \A u \in Stored :
             /\ particleMap[u] \subseteq particleMap'[u]
             /\ particleMap'[u] \subseteq particleMap[u] \cup particleMap[t] \cup {"PARENT"}
    BY <1>2, VisitProperty
  <2>2. Removed(t) => t \notin Primaries
    <3>1. t \in Followed /\ "KILL" \notin particleMap[t]
      BY <2>1 DEF Inv, ChainInv, PrimaryInv
    <3>2. t \in Primaries => "PRIMARY" \in particleMap[t]
      BY <3>1 DEF PrimaryInv
    <3> QED BY <3>1, <3>2 DEF Removed
  <2>3. remove' \cap Primaries = {}
    BY <2>1, <2>2 DEF PrimaryInv
  <2>4. \A u \in Stored : "KILL" \notin particleMap'[u]
    BY <2>1 DEF PrimaryInv
  <2> QED BY <2>1, <2>3, <2>4 DEF PrimaryInv
<1>3. CASE EndPass
  <2>1. /\ UNCHANGED <<suspendedPM, Followed, Primaries>> /\ remove' = {}
        /\ Stored' = Stored \ remove /\ \A u \in Stored' : particleMap'[u] = particleMap[u]
    BY <1>3, EndPassProperty
  <2> QED BY <2>1 DEF PrimaryInv
<1>4. CASE EndEvent \/ Rebase \/ UNCHANGED vars
  <2>1. UNCHANGED <<tracking, particleMap, remove>>
    BY <1>4 DEF EndEvent, Rebase, vars
  <2>2. UNCHANGED <<suspendedPM, Followed, Stored, Primaries>>
    BY <2>1 DEF tracking, Followed, Stored, Primaries
  <2> QED BY <2>1, <2>2 DEF PrimaryInv
<1> QED BY <1>1, <1>2, <1>3, <1>4 DEF Next

\* The primaries are kept, once they were followed.
LEMMA PrimariesKept == ASSUME NeverKilled PROVE Spec => [](Inv /\ PrimaryInv)
<1>1. Init => PrimaryInv
  BY DEF Init, PrimaryInv, Stored, Followed, Primaries
<1>2. Inv /\ PrimaryInv /\ [Next]_vars => PrimaryInv'
  BY PrimaryStep
<1> QED BY <1>1, <1>2, Invariance, PTL DEF Spec

-----------------------------------------------------------------------------
\* NewId: particles of the record get different identifiers.
LEMMA NewIdInjective ==
  ASSUME Inv, NEW t \in Final, NEW u \in Final, NewId(t) = NewId(u)
  PROVE  t = u
<1> DEFINE S(x) == {y \in Stored \ Primaries : y <= x}
<1>1. Generated \in Nat /\ Stored \subseteq Track
  BY ParticleAssumptions DEF Inv, ChainInv, Followed
<1>2. IsFiniteSet(Track)
  BY ParticleAssumptions, FS_Interval DEF Track
<1>3. \A x : IsFiniteSet(S(x)) /\ Cardinality(S(x)) \in Nat
  BY <1>1, <1>2, FS_Subset, FS_CardinalityType
<1>4. \A x \in Primaries : NewId(x) = particle[x] /\ particle[x] \in 0 .. Generated - 1
  BY DEF NewId, Primaries, Inv, OriginInv, Particle
<1>5. ASSUME NEW x \in Stored \ Primaries
      PROVE  NewId(x) = Generated - 1 + Cardinality(S(x)) /\ Cardinality(S(x)) >= 1
  <2>1. x \in S(x) /\ x \in Int
    BY <1>1 DEF Track
  <2>2. Cardinality(S(x)) # 0
    BY <1>3, <2>1, FS_EmptySet
  <2>3. NewId(x) = Generated - 1 + Cardinality(S(x))
    BY DEF NewId
  <2> HIDE DEF S
  <2> QED BY <1>3, <2>2, <2>3
<1>6. ASSUME NEW x \in Stored \ Primaries, NEW y \in Stored \ Primaries, x < y
      PROVE  Cardinality(S(x)) < Cardinality(S(y))
  <2>1. x \in Int /\ y \in Int /\ \A z \in Stored : z \in Int
    BY <1>1 DEF Track
  <2>2. (\A z \in Stored : z <= x => z <= y) /\ y <= y /\ ~(y <= x)
    BY <1>6, <2>1
  <2>3. S(x) \subseteq S(y) /\ y \in S(y) /\ y \notin S(x)
    BY <2>2
  <2>4. Cardinality(S(x)) <= Cardinality(S(y)) /\ Cardinality(S(x)) # Cardinality(S(y))
    BY <1>3, <2>3, FS_Subset
  <2> HIDE DEF S
  <2> QED BY <1>3, <2>4
<1> HIDE DEF S
<1>7. t \in Stored \cup Primaries /\ u \in Stored \cup Primaries
  BY DEF Final
<1>8. CASE t \in Primaries /\ u \in Primaries
  BY <1>4, <1>8 DEF Inv, OriginInv
<1>9. CASE t \in Primaries /\ u \notin Primaries
  BY <1>1, <1>3, <1>4, <1>5, <1>7, <1>9
<1>10. CASE t \notin Primaries /\ u \in Primaries
  BY <1>1, <1>3, <1>4, <1>5, <1>7, <1>10
<1>11. CASE t \notin Primaries /\ u \notin Primaries
  <2>1. Cardinality(S(t)) = Cardinality(S(u))
    BY <1>1, <1>3, <1>5, <1>7, <1>11
  <2>2. ~(t < u) /\ ~(u < t)
    BY <1>3, <1>6, <1>7, <1>11, <2>1
  <2> QED BY <1>1, <1>7, <1>11, <2>2 DEF Track
<1> QED BY <1>8, <1>9, <1>10, <1>11

\* NewId: the identifiers of the generator are kept, others do not take one of them.
LEMMA NewIdApart ==
  ASSUME Inv, NEW t \in Final
  PROVE  IF t \in Primaries THEN NewId(t) = particle[t] /\ NewId(t) \in Particle
         ELSE NewId(t) \notin Particle
<1> DEFINE S == {y \in Stored \ Primaries : y <= t}
<1>1. CASE t \in Primaries
  BY <1>1 DEF NewId, Primaries, Inv, OriginInv
<1>2. CASE t \notin Primaries
  <2>1. Generated \in Nat /\ Stored \subseteq Track /\ t \in Stored
    BY <1>2, ParticleAssumptions DEF Inv, ChainInv, Followed, Final
  <2>2. IsFiniteSet(S) /\ Cardinality(S) \in Nat
    <3>1. IsFiniteSet(Track)
      BY ParticleAssumptions, FS_Interval DEF Track
    <3> QED BY <2>1, <3>1, FS_Subset, FS_CardinalityType
  <2>3. t \in S
    BY <1>2, <2>1 DEF Track
  <2>4. Cardinality(S) # 0
    BY <2>2, <2>3, FS_EmptySet
  <2>5. NewId(t) = Generated - 1 + Cardinality(S)
    BY <1>2 DEF NewId
  <2> HIDE DEF S
  <2> QED BY <1>2, <2>1, <2>2, <2>4, <2>5 DEF Particle
<1> QED BY <1>1, <1>2

-----------------------------------------------------------------------------
\* A chain of tracks that leads to earlier ones ends: the function that follows it to
\* the first track of stop exists.
LEMMA ChainExists ==
  ASSUME NEW stop, 0 \in stop, NEW m,
         \A u \in Track : u \notin stop => m[u] \in Track \cup {0} /\ m[u] < u
  PROVE  \E f : f = [u \in Track \cup {0} |-> IF u \in stop THEN u ELSE f[m[u]]]
<1> DEFINE Upto(n) == \E f : f = [u \in 0 .. n |-> IF u \in stop THEN u ELSE f[m[u]]]
           U == {n \in 0 .. MaxTracks : ~Upto(n)}
<1>1. MaxTracks \in Nat /\ Track \cup {0} = 0 .. MaxTracks
  BY ParticleAssumptions DEF Track
<1>2. Upto(0)
  <2>1. [u \in 0 .. 0 |-> u] =
          [u \in 0 .. 0 |-> IF u \in stop THEN u ELSE [v \in 0 .. 0 |-> v][m[u]]]
    OBVIOUS
  <2> QED BY <2>1
<1>3. ASSUME NEW n \in 0 .. MaxTracks, n + 1 \in 0 .. MaxTracks, Upto(n) PROVE Upto(n + 1)
  <2>1. PICK f : f = [u \in 0 .. n |-> IF u \in stop THEN u ELSE f[m[u]]]
    BY <1>3
  <2> DEFINE g == [u \in 0 .. n + 1 |-> IF u \in stop THEN u ELSE f[m[u]]]
  <2>2. ASSUME NEW u \in 0 .. n + 1, u \notin stop PROVE f[m[u]] = g[m[u]]
    <3>1. u \in Track
      BY <1>1, <1>3, <2>2
    <3>2. m[u] \in 0 .. n
      BY <1>1, <2>2, <3>1
    <3>3. m[u] \in 0 .. n + 1
      BY <1>1, <3>2
    <3>4. f[m[u]] = IF m[u] \in stop THEN m[u] ELSE f[m[m[u]]]
      BY <2>1, <3>2
    <3>5. g[m[u]] = IF m[u] \in stop THEN m[u] ELSE f[m[m[u]]]
      BY <3>3
    <3> QED BY <3>4, <3>5
  <2>3. g = [u \in 0 .. n + 1 |-> IF u \in stop THEN u ELSE g[m[u]]]
    BY <2>2
  <2> HIDE DEF g
  <2> QED BY <2>3
<1> HIDE DEF Upto
<1>4. U = {}
  <2> SUFFICES ASSUME U # {} PROVE FALSE
    OBVIOUS
  <2>1. PICK n \in U : \A k \in U : n <= k
    <3>1. U \in SUBSET Nat
      BY <1>1
    <3> HIDE DEF U
    <3> QED BY <3>1, LeastTrack
  <2>2. n # 0 /\ n \in 0 .. MaxTracks
    BY <1>2
  <2>3. n - 1 \in 0 .. MaxTracks /\ n - 1 + 1 = n /\ ~(n <= n - 1)
    BY <1>1, <2>2
  <2>4. Upto(n - 1)
    BY <2>1, <2>3
  <2>5. Upto(n - 1 + 1)
    BY <1>3, <2>2, <2>3, <2>4
  <2> QED BY <2>3, <2>5
<1>5. Upto(MaxTracks)
  BY <1>1, <1>4
<1> QED BY <1>1, <1>5 DEF Upto

\* The loop over the equivalents, a step of it.
LEMMA ResolveStep ==
  ASSUME NEW m, NEW stored, 0 \notin DOMAIN m,
         \A u \in Track : u \notin stored /\ u \in DOMAIN m => m[u] \in Track \cup {0} /\ m[u] < u
  PROVE  \A t \in Track \cup {0} :
           Resolve(m, stored, t) = IF t \in stored \/ t \notin DOMAIN m THEN t
                                   ELSE Resolve(m, stored, m[t])
<1> DEFINE stop == {u \in Track \cup {0} : u \in stored \/ u \notin DOMAIN m}
           up == CHOOSE f : f = [u \in Track \cup {0} |->
                                   IF u \in stored \/ u \notin DOMAIN m THEN u ELSE f[m[u]]]
<1>1. \E f : f = [u \in Track \cup {0} |-> IF u \in stop THEN u ELSE f[m[u]]]
  <2>1. 0 \in stop /\ \A u \in Track : u \notin stop => m[u] \in Track \cup {0} /\ m[u] < u
    OBVIOUS
  <2> HIDE DEF stop
  <2> QED BY <2>1, ChainExists
<1>2. \E f : f = [u \in Track \cup {0} |->
                    IF u \in stored \/ u \notin DOMAIN m THEN u ELSE f[m[u]]]
  <2>1. PICK f : f = [u \in Track \cup {0} |-> IF u \in stop THEN u ELSE f[m[u]]]
    BY <1>1
  <2>2. [u \in Track \cup {0} |-> IF u \in stop THEN u ELSE f[m[u]]]
          = [u \in Track \cup {0} |-> IF u \in stored \/ u \notin DOMAIN m THEN u ELSE f[m[u]]]
    OBVIOUS
  <2>3. f = [u \in Track \cup {0} |-> IF u \in stored \/ u \notin DOMAIN m THEN u ELSE f[m[u]]]
    BY <2>1, <2>2
  <2> QED BY <2>3
<1>3. up = [u \in Track \cup {0} |-> IF u \in stored \/ u \notin DOMAIN m THEN u ELSE up[m[u]]]
  BY <1>2
<1>4. \A t : Resolve(m, stored, t) = up[t]
  BY DEF Resolve
<1> HIDE DEF up
<1> QED BY <1>3, <1>4

\* The nearest ancestor in the record, a step to it.
LEMMA NearestStep ==
  ASSUME NEW K, NEW mother \in [Track -> Track \cup {0}], \A u \in Track : mother[u] < u
  PROVE  /\ Record!Nearest(mother, K)
              = [u \in Track \cup {0} |-> IF u \in K \cup {0} THEN u
                                          ELSE Record!Nearest(mother, K)[mother[u]]]
<1> DEFINE stop == K \cup {0}
           up == CHOOSE f : f = [u \in Track \cup {0} |-> IF u \in K \cup {0} THEN u
                                                          ELSE f[mother[u]]]
<1>1. \E f : f = [u \in Track \cup {0} |-> IF u \in stop THEN u ELSE f[mother[u]]]
  <2>1. 0 \in stop
    OBVIOUS
  <2> HIDE DEF stop
  <2> QED BY <2>1, ChainExists
<1>2. up = [u \in Track \cup {0} |-> IF u \in K \cup {0} THEN u ELSE up[mother[u]]]
  BY <1>1
<1>3. Record!Nearest(mother, K) = up
  BY DEF Record!Nearest
<1> HIDE DEF up
<1> QED BY <1>2, <1>3

\* The chain of equivalents of a track that was followed ends at its nearest ancestor in
\* the record; there is one, if the primaries are kept.
LEMMA ResolvesNearest ==
  ASSUME Inv, NEW t \in Followed
  PROVE  /\ Resolve(equivalents, Stored, t) = Record!Nearest(parent, Stored)[t]
         /\ PrimaryInv => Resolve(equivalents, Stored, t) \in Stored
<1> DEFINE R(u) == Resolve(equivalents, Stored, u)
           N(u) == Record!Nearest(parent, Stored)[u]
           Good(u) == R(u) = N(u) /\ (PrimaryInv => R(u) \in Stored)
           U == {u \in Followed : ~Good(u)}
<1>1. /\ 0 \notin Track /\ Followed \subseteq Track /\ Track \subseteq Nat
      /\ DOMAIN equivalents = Followed /\ parent \in [Track -> Track \cup {0}]
      /\ \A u \in Track : parent[u] < u
  BY ParticleAssumptions DEF Inv, ChainInv, TreeInv, Followed, Track
<1>2. \A u \in Followed : u \notin Stored => equivalents[u] = parent[u]
  BY DEF Inv, ChainInv, ChainsEnd
<1>3. \A u \in Track \cup {0} : R(u) = IF u \in Stored \/ u \notin Followed THEN u
                                       ELSE R(equivalents[u])
  <2>1. \A u \in Track : u \notin Stored /\ u \in DOMAIN equivalents =>
          equivalents[u] \in Track \cup {0} /\ equivalents[u] < u
    BY <1>1, <1>2
  <2> QED BY <1>1, <2>1, ResolveStep
<1>4. \A u \in Track \cup {0} : N(u) = IF u \in Stored \cup {0} THEN u ELSE N(parent[u])
  BY <1>1, NearestStep
<1> HIDE DEF R, N
<1>5. ASSUME U # {} PROVE FALSE
  <2>1. PICK u \in U : \A v \in U : u <= v
    <3>1. U \in SUBSET Nat
      BY <1>1
    <3> HIDE DEF U
    <3> QED BY <1>5, <3>1, LeastTrack
  <2>2. u \in Followed /\ u \in Track /\ ~Good(u) /\ u # 0
    BY <1>1, <2>1
  <2>3. u \notin Stored
    BY <1>3, <1>4, <2>2
  <2>4. R(u) = R(parent[u]) /\ N(u) = N(parent[u])
    BY <1>2, <1>3, <1>4, <2>2, <2>3
  <2>5. CASE parent[u] = 0
    <3>1. R(0) = 0 /\ N(0) = 0 /\ u \in Primaries
      BY <1>1, <1>3, <1>4, <2>2, <2>5 DEF Inv, TreeInv, Followed, Tracks
    <3>2. ~PrimaryInv
      BY <2>2, <2>3, <3>1 DEF PrimaryInv
    <3> QED BY <2>2, <2>4, <2>5, <3>1, <3>2
  <2>6. CASE parent[u] # 0
    <3>1. parent[u] \in Followed
      BY <2>2, <2>6 DEF Inv, TreeInv, Followed, Tracks
    <3>2. u \in Nat /\ parent[u] \in Nat /\ parent[u] < u
      BY <1>1, <2>2, <3>1
    <3>3. ~(u <= parent[u])
      BY <3>2
    <3>4. Good(parent[u])
      BY <2>1, <3>1, <3>3
    <3> QED BY <2>2, <2>4, <3>4
  <2> QED BY <2>5, <2>6
<1>6. Good(t)
  BY <1>5
<1> QED BY <1>6 DEF R, N

-----------------------------------------------------------------------------
\* rebaseSimulatedTracks: the record and what stands for each track.
LEMMA RebaseProperty ==
  ASSUME Inv, PrimaryInv, Rebase
  PROVE  /\ Final = Stored /\ Tracks = Followed
         /\ DOMAIN trackId' = Followed
         /\ \A t \in Followed : /\ trackId'[t] = NewId(Resolve(equivalents, Stored, t))
                                /\ Resolve(equivalents, Stored, t) \in Stored
         /\ DOMAIN record' = Particle \cup {NewId(t) : t \in Stored}
         /\ \A t \in Stored : /\ record'[NewId(t)].track = t
                              /\ record'[NewId(t)].parents = NewParents(t)
         /\ \A i \in DOMAIN record' :
              /\ record'[i].daughters = ReadDaughters(i) \cup {NewId(t) : t \in Hung(i)}
              /\ record'[i].track \in Stored \cup {0}
              /\ record'[i].track # 0 => i = NewId(record'[i].track)
              /\ i \notin Particle => record'[i].track # 0
<1>1. /\ phase = "rebase" /\ trackId' = NewEquivalents
      /\ record' = [i \in Particle \cup {NewId(t) : t \in Final} |->
           [track     |-> TrackOf(i),
            parents   |-> IF i \in Particle THEN Parents[i] ELSE NewParents(TrackOf(i)),
            daughters |-> ReadDaughters(i) \cup {NewId(t) : t \in Hung(i)}]]
  BY DEF Rebase
<1>2. Tracks = Followed
  BY <1>1 DEF Inv, ChainInv, Tracks, Followed
<1>3. Final = Stored
  <2>1. Primaries \subseteq Tracks
    BY DEF Inv, OriginInv
  <2> QED BY <1>2, <2>1 DEF PrimaryInv, Final
<1>4. \A t \in Followed : Resolve(equivalents, Stored, t) \in Stored
  BY ResolvesNearest
<1>5. /\ DOMAIN trackId' = Followed
      /\ \A t \in Followed : trackId'[t] = NewId(Resolve(equivalents, Stored, t))
  <2>1. {t \in DOMAIN equivalents : Resolve(equivalents, Stored, t) \in Stored} = Followed
    BY <1>4 DEF Inv, ChainInv
  <2> QED BY <1>1, <2>1 DEF NewEquivalents
<1>6. DOMAIN record' = Particle \cup {NewId(t) : t \in Stored}
  BY <1>1, <1>3
<1>7. \A i \in DOMAIN record' :
        /\ record'[i].track = TrackOf(i)
        /\ record'[i].parents = IF i \in Particle THEN Parents[i] ELSE NewParents(TrackOf(i))
        /\ record'[i].daughters = ReadDaughters(i) \cup {NewId(t) : t \in Hung(i)}
  BY <1>1
<1>8. ASSUME NEW t \in Stored PROVE TrackOf(NewId(t)) = t
  <2> DEFINE own == {u \in Final : NewId(u) = NewId(t)}
  <2>1. own = {t}
    BY <1>3, NewIdInjective
  <2>2. TrackOf(NewId(t)) = IF own = {} THEN 0 ELSE CHOOSE u \in own : TRUE
    BY DEF TrackOf
  <2> HIDE DEF own
  <2> QED BY <2>1, <2>2
<1>9. ASSUME NEW i \in DOMAIN record'
      PROVE  /\ TrackOf(i) \in Stored \cup {0} /\ (TrackOf(i) # 0 => i = NewId(TrackOf(i)))
             /\ i \notin Particle => TrackOf(i) # 0
  <2>1. 0 \notin Stored
    BY ParticleAssumptions DEF Inv, ChainInv, Followed, Track
  <2>2. CASE \E t \in Stored : i = NewId(t)
    BY <1>8, <2>1, <2>2
  <2>3. CASE ~\E t \in Stored : i = NewId(t)
    <3>1. {u \in Final : NewId(u) = i} = {} /\ i \in Particle
      BY <1>3, <1>6, <2>3
    <3>2. TrackOf(i) = 0
      BY <3>1 DEF TrackOf
    <3> QED BY <3>1, <3>2
  <2> QED BY <2>2, <2>3
<1>10. ASSUME NEW t \in Stored
       PROVE  record'[NewId(t)].track = t /\ record'[NewId(t)].parents = NewParents(t)
  <2>1. NewId(t) \in DOMAIN record' /\ t \in Final
    BY <1>3, <1>6
  <2>2. IF t \in Primaries THEN NewId(t) = particle[t] /\ NewId(t) \in Particle
        ELSE NewId(t) \notin Particle
    BY <2>1, NewIdApart
  <2>3. t \in Primaries => NewParents(t) = Parents[NewId(t)]
    BY <2>2 DEF NewParents
  <2> QED BY <1>7, <1>8, <2>1, <2>2, <2>3
<1> QED BY <1>2, <1>3, <1>4, <1>5, <1>6, <1>7, <1>9, <1>10

\* Only what came from a vertex has no mother, and what stands for a mother is in the record.
LEMMA MotherKnown ==
  ASSUME Inv, PrimaryInv, Rebase, NEW t \in Stored, t \notin Primaries \/ parent[t] # 0
  PROVE  /\ parent[t] # 0 /\ parent[t] \in DOMAIN trackId'
         /\ trackId'[parent[t]] \in DOMAIN record' /\ Mother(t) = {trackId'[parent[t]]}
<1>1. /\ DOMAIN trackId' = Followed
      /\ \A u \in Followed : /\ trackId'[u] = NewId(Resolve(equivalents, Stored, u))
                             /\ Resolve(equivalents, Stored, u) \in Stored
      /\ DOMAIN record' = Particle \cup {NewId(u) : u \in Stored}
  BY RebaseProperty
<1>2. t \in Tracks
  BY DEF Inv, ChainInv, Followed, Tracks
<1>3. parent[t] # 0 /\ parent[t] \in Followed
  BY <1>2 DEF Inv, TreeInv
<1> QED BY <1>1, <1>3 DEF Mother

\* rebaseSimulatedTracks leaves nothing for checkConsistency to complain about.
LEMMA RebaseConsistent ==
  ASSUME Inv, PrimaryInv, Rebase
  PROVE  Consistent'
<1>1. /\ Final = Stored
      /\ DOMAIN record' = Particle \cup {NewId(t) : t \in Stored}
      /\ \A t \in Stored : /\ record'[NewId(t)].track = t
                           /\ record'[NewId(t)].parents = NewParents(t)
      /\ \A i \in DOMAIN record' :
           /\ record'[i].daughters = ReadDaughters(i) \cup {NewId(t) : t \in Hung(i)}
           /\ record'[i].track \in Stored \cup {0}
           /\ record'[i].track # 0 => i = NewId(record'[i].track)
           /\ i \notin Particle => record'[i].track # 0
  BY RebaseProperty
<1>2. parent' = parent
  BY DEF Rebase, tracking
<1>3. ASSUME NEW i \in DOMAIN record' PROVE record'[i].daughters \subseteq DOMAIN record'
  <2>1. ReadDaughters(i) \subseteq Particle
    BY ParticleAssumptions DEF ReadDaughters
  <2>2. Hung(i) \subseteq Stored
    BY <1>1 DEF Hung
  <2> QED BY <1>1, <2>1, <2>2
<1>4. ASSUME NEW i \in DOMAIN record', i \notin Particle
      PROVE  /\ parent[record'[i].track] \in DOMAIN trackId'
             /\ trackId'[parent[record'[i].track]] \in DOMAIN record'
             /\ trackId'[parent[record'[i].track]] \in record'[i].parents
  <2>1. PICK t \in Stored : i = NewId(t) /\ record'[i].track = t
    BY <1>1, <1>4
  <2>2. t \notin Primaries
    BY <1>1, <1>4, <2>1, NewIdApart
  <2>3. /\ parent[t] \in DOMAIN trackId' /\ trackId'[parent[t]] \in DOMAIN record'
        /\ Mother(t) = {trackId'[parent[t]]}
    BY <2>2, MotherKnown
  <2>4. record'[i].parents = Mother(t)
    BY <1>1, <2>1, <2>2 DEF NewParents
  <2> QED BY <2>1, <2>3, <2>4
<1>5. Inconsistent' = {}
  BY <1>2, <1>3, <1>4 DEF Inconsistent
<1>6. ASSUME NEW i \in DOMAIN record', NEW t, NEW m, t = record'[i].track, t # 0, parent[t] # 0,
             m = trackId'[parent[t]], m \in record'[i].parents,
             \A j \in record'[i].parents : m <= j
      PROVE  i \in record'[m].daughters
  <2>1. t \in Stored /\ i = NewId(t)
    BY <1>1, <1>6
  <2>2. Mother(t) = {m} /\ m \in DOMAIN record'
    BY <1>6, <2>1, MotherKnown
  <2>3. record'[i].parents = NewParents(t)
    BY <1>1, <2>1
  <2>4. t \in Hung(m)
    <3>1. m \in NewParents(t) /\ \A j \in NewParents(t) : m <= j
      BY <1>6, <2>3
    <3>2. t \in Final
      BY <1>1, <2>1
    <3> QED BY <2>2, <3>1, <3>2 DEF Hung
  <2> QED BY <1>1, <2>1, <2>2, <2>4
<1>7. ASSUME NEW i \in DOMAIN record', NEW d \in record'[i].daughters \ ReadDaughters(i)
      PROVE  i \in record'[d].parents /\ i = trackId'[parent[record'[d].track]]
  <2>1. PICK u \in Hung(i) : d = NewId(u)
    BY <1>1
  <2>2. u \in Stored /\ Mother(u) = {i} /\ i \in NewParents(u)
    BY <1>1 DEF Hung
  <2>3. i = trackId'[parent[u]]
    BY <2>2 DEF Mother
  <2> QED BY <1>1, <2>1, <2>2, <2>3
<1> QED BY <1>2, <1>5, <1>6, <1>7 DEF Consistent

\* checkConsistency finds nothing to complain about, for any particles of the generator,
\* some of them decaying to others, and any number of tracks of any fate that are not
\* killed: who is left out by end or recombineParents is replaced by an ancestor in the
\* record, and the links which are added to those of the reader hold both ways.
THEOREM RecordConsistent == ASSUME NeverKilled PROVE Spec => []Consistent
<1>1. Init => Consistent
  BY DEF Init, Consistent
<1>2. Inv /\ PrimaryInv /\ Consistent /\ [Next]_vars => Consistent'
  <2> SUFFICES ASSUME Inv, PrimaryInv, Consistent, [Next]_vars PROVE Consistent'
    OBVIOUS
  <2>1. CASE Rebase
    BY <2>1, RebaseConsistent
  <2>2. CASE UNCHANGED vars
    BY <2>2 DEF vars, tracking, final, Consistent, Inconsistent, ReadDaughters
  <2>3. CASE phase' # "done"
    BY <2>3 DEF Consistent
  <2>4. phase' = "done" => Rebase \/ UNCHANGED vars
    BY DEF Next, SimulateTrack, EndEvent, Visit, EndPass
  <2> QED BY <2>1, <2>2, <2>3, <2>4
<1> QED BY <1>1, <1>2, PrimariesKept, PTL DEF Spec

-----------------------------------------------------------------------------
\* Without a user handler the reason at the end of a track tells of all its hits, those
\* from before it was suspended included, and of its energy.
LEMMA HitsReasons ==
  ASSUME Inv, HitsInv, ~userHandler, NEW t \in Track, NEW f \in Fates, SimulateTrack(t, f)
  PROVE  /\ hitBy'[t] \subseteq Steps(t, f)
         /\ hitBy'[t] # {} => "HIT" \in Steps(t, f)
         /\ kind[t].above => "ABOVE" \in Steps(t, f)
         /\ Steps(t, f) \subseteq Noted(t, f)
         /\ ~Stores(t, f) => Steps(t, f) = {}
<1>1. hitBy'[t] = hitBy[t] \cup f.hits /\ state[t] \in {"waiting", "suspended"}
  BY DEF SimulateTrack, Inv, MapInv
<1>2. /\ Begin(t) \subseteq Steps(t, f) /\ f.hits \subseteq Steps(t, f)
      /\ f.hits # {} => "HIT" \in Steps(t, f)
  <2>1. Steps(t, f) = Begin(t) \cup Flag("ABOVE" \in Begin(t) /\ f.secondaries > 0, "SECONDARIES")
                        \cup f.hits \cup Flag(f.hits # {}, "HIT") \cup f.marks
    BY DEF Steps
  <2> QED BY <2>1 DEF Flag
<1>3. EndReason(t, f) = Steps(t, f)
  BY ReasonsTyped DEF Inv
<1>4. Steps(t, f) \subseteq Noted(t, f) /\ (~Stores(t, f) => Steps(t, f) = {})
  BY <1>3 DEF Noted, Stores
<1>5. CASE t \in Stored
  <2>1. state[t] = "suspended"
    BY <1>1, <1>5 DEF Inv, ChainInv, Followed
  <2>2. Begin(t) = particleMap[t]
    BY <1>5, <2>1 DEF Begin, Inv, MapInv
  <2> QED BY <1>1, <1>2, <1>4, <1>5, <2>2 DEF HitsInv
<1>6. CASE t \notin Stored /\ t \in Followed
  <2>1. hitBy[t] = {} /\ ~kind[t].above
    BY <1>6 DEF HitsInv, SimulateTrack
  <2> QED BY <1>1, <1>2, <1>4, <2>1
<1>7. CASE t \notin Followed
  <2>1. t \notin Stored /\ t \notin DOMAIN suspendedPM /\ hitBy[t] = {}
    BY <1>7 DEF Inv, ChainInv, MapInv, HitsInv, Followed
  <2>2. Begin(t) = Fresh(t)
    BY <2>1 DEF Begin
  <2>3. kind[t].above => "ABOVE" \in Begin(t)
    BY <2>2 DEF Fresh, Flag
  <2> QED BY <1>1, <1>2, <1>4, <2>1, <2>3
<1> QED BY <1>5, <1>6, <1>7

\* A track was simulated: its hits are noted, with those it had.
LEMMA HitsSimulate ==
  ASSUME Inv, HitsInv, ~userHandler, NEW t \in Track, NEW f \in Fates, SimulateTrack(t, f)
  PROVE  HitsInv'
<1>1. /\ End(t, f) /\ UNCHANGED <<phase, remove>> /\ phase = "tracking" /\ remove = {}
      /\ \A u \in Track : u # t => hitBy'[u] = hitBy[u]
  BY DEF SimulateTrack, Inv, ChainInv, MapInv
<1>2. /\ t \in Tracks /\ Followed' = Followed \cup {t}
      /\ \A u \in Tracks : kind'[u] = kind[u]
      /\ Followed \subseteq Tracks /\ Stored \subseteq Followed
  BY Stacked, SimulateTree DEF Followed, Tracks, Inv, ChainInv
<1>3. /\ Stored' = Stored \cup (IF Stores(t, f) THEN {t} ELSE {})
      /\ \A u \in Stored' :
           \/ u = t /\ Stores(t, f) /\ particleMap'[u] = Noted(t, f)
           \/ u \in Stored /\ u # t /\ particleMap'[u] = particleMap[u]
           \/ /\ u \in Stored /\ ~Stores(t, f)
              /\ particleMap'[u] \in {particleMap[u], particleMap[u] \cup Steps(t, f)}
  BY <1>1, EndProperty
<1>4. /\ hitBy'[t] \subseteq Steps(t, f)
      /\ hitBy'[t] # {} => "HIT" \in Steps(t, f)
      /\ kind[t].above => "ABOVE" \in Steps(t, f)
      /\ Steps(t, f) \subseteq Noted(t, f)
      /\ ~Stores(t, f) => Steps(t, f) = {}
  BY HitsReasons
<1>5. \A u \in Track : u \notin Followed' => hitBy'[u] = {}
  BY <1>1, <1>2 DEF HitsInv
<1>6. ASSUME NEW u \in Stored'
      PROVE  /\ hitBy'[u] \subseteq particleMap'[u]
             /\ hitBy'[u] # {} => "HIT" \in particleMap'[u]
             /\ kind'[u].above => "ABOVE" \in particleMap'[u]
  <2>1. CASE u = t /\ Stores(t, f) /\ particleMap'[u] = Noted(t, f)
    BY <1>2, <1>4, <2>1
  <2>2. CASE u = t /\ ~Stores(t, f)
    BY <1>2, <1>4, <2>2
  <2>3. CASE u \in Stored /\ u # t
    <3>1. hitBy'[u] = hitBy[u] /\ kind'[u] = kind[u] /\ particleMap[u] \subseteq particleMap'[u]
      <4>1. u \in Track
        BY <1>2, <2>3 DEF Tracks
      <4> QED BY <1>1, <1>2, <1>3, <2>3, <4>1
    <3> QED BY <2>3, <3>1 DEF HitsInv
  <2> QED BY <1>3, <2>1, <2>2, <2>3
<1>7. \A u \in Followed' \ Stored' : hitBy'[u] = {} /\ ~kind'[u].above
  <2> SUFFICES ASSUME NEW u \in Followed', u \notin Stored'
               PROVE  hitBy'[u] = {} /\ ~kind'[u].above
    OBVIOUS
  <2>1. CASE u = t
    BY <1>2, <1>3, <1>4, <2>1
  <2>2. CASE u # t
    <3>1. u \in Followed \ Stored /\ u \in Track
      BY <1>2, <1>3, <2>2 DEF Followed
    <3> QED BY <1>1, <1>2, <2>2, <3>1 DEF HitsInv
  <2> QED BY <2>1, <2>2
<1>8. \A u \in Track : Claimed(u)' => u \in Stored' \ remove'
  BY <1>1, <1>5, <1>7 DEF Claimed
<1> QED BY <1>5, <1>6, <1>7, <1>8 DEF HitsInv

\* Every step keeps what hits have noted, and the particles they claim.
LEMMA HitsStep ==
  ASSUME Inv, PrimaryInv, HitsInv, ~userHandler, [Next]_vars
  PROVE  HitsInv'
<1>1. ASSUME NEW t \in Track, NEW f \in Fates, SimulateTrack(t, f) PROVE HitsInv'
  BY <1>1, HitsSimulate
<1>2. ASSUME NEW t \in Track, Visit(t) PROVE HitsInv'
  <2>1. /\ UNCHANGED <<kind, hitBy, phase, Stored, Followed>>
        /\ t \in Stored /\ phase = "recombine"
        /\ remove' \in {remove, remove \cup {t}} /\ (remove' # remove => Removed(t))
        /\ \A u \in Stored : particleMap[u] \subseteq particleMap'[u]
    BY <1>2, VisitProperty
  <2>2. Removed(t) => ~Claimed(t)
    <3>1. "KILL" \notin particleMap[t]
      BY <2>1 DEF PrimaryInv
    <3>2. Claimed(t) => /\ "HIT" \in particleMap[t]
                        /\ "TRACKER" \in particleMap[t] \/ "ABOVE" \in particleMap[t]
      BY <2>1 DEF Claimed, HitsInv
    <3> QED BY <3>1, <3>2 DEF Removed, Drop
  <2>3. \A u \in Track : Claimed(u)' => u \in Stored' \ remove'
    BY <2>1, <2>2 DEF HitsInv, Claimed
  <2> QED BY <2>1, <2>3 DEF HitsInv
<1>3. CASE EndPass
  <2>1. /\ UNCHANGED <<kind, hitBy, Followed>> /\ remove' = {} /\ phase' # "tracking"
        /\ Stored' = Stored \ remove /\ \A u \in Stored' : particleMap'[u] = particleMap[u]
    BY <1>3, EndPassProperty
  <2> QED BY <2>1 DEF HitsInv, Claimed
<1>4. CASE EndEvent \/ Rebase \/ UNCHANGED vars
  <2>1. UNCHANGED <<tracking, particleMap, remove>> /\ (phase' = "tracking" => phase = "tracking")
    BY <1>4 DEF EndEvent, Rebase, vars
  <2>2. UNCHANGED <<kind, hitBy, Followed, Stored>>
    BY <2>1 DEF tracking, Followed, Stored
  <2> QED BY <2>1, <2>2 DEF HitsInv, Claimed
<1> QED BY <1>1, <1>2, <1>3, <1>4 DEF Next

\* The final particles are those of the record.
RecordedInv == phase = "done" => \A t \in Stored : \E i \in DOMAIN record : record[i].track = t

\* Every particle that is left is in the final record.
LEMMA RecordedStep ==
  ASSUME Inv, PrimaryInv, RecordedInv, [Next]_vars
  PROVE  RecordedInv'
<1>1. CASE Rebase
  <2>1. /\ DOMAIN record' = Particle \cup {NewId(t) : t \in Stored}
        /\ \A t \in Stored : record'[NewId(t)].track = t
    BY <1>1, RebaseProperty
  <2>2. Stored' = Stored
    BY <1>1 DEF Rebase, Stored
  <2> QED BY <2>1, <2>2 DEF RecordedInv
<1>2. CASE UNCHANGED vars
  BY <1>2 DEF vars, final, RecordedInv, Stored
<1>3. phase' = "done" => Rebase \/ UNCHANGED vars
  BY DEF Next, SimulateTrack, EndEvent, Visit, EndPass
<1> QED BY <1>1, <1>2, <1>3 DEF RecordedInv

\* defaultDropParticle: whatever else the event holds, a track that hit a tracker, or
\* hit anything and started above the threshold, is in the record, however often it was
\* suspended; if there is no user handler and no track is killed.
THEOREM HitsAreKept == ASSUME NeverKilled PROVE Spec => []HitsKept
<1>1. Init => RecordedInv /\ (~userHandler => HitsInv)
  BY DEF Init, RecordedInv, HitsInv, Followed, Stored, Claimed
<1>2. Inv /\ PrimaryInv /\ RecordedInv /\ [Next]_vars => RecordedInv'
  BY RecordedStep
<1>3. Inv /\ PrimaryInv /\ (~userHandler => HitsInv) /\ [Next]_vars => (~userHandler => HitsInv)'
  <2>1. [Next]_vars => UNCHANGED userHandler
    BY DEF Next, SimulateTrack, EndEvent, Visit, EndPass, Rebase, vars, tracking
  <2> QED BY <2>1, HitsStep
<1>4. RecordedInv /\ (~userHandler => HitsInv) => HitsKept
  BY DEF RecordedInv, HitsInv, HitsKept, Claimed, Tracks
<1> QED BY <1>1, <1>2, <1>3, <1>4, PrimariesKept, PTL DEF Spec

-----------------------------------------------------------------------------
\* What the handler answers is what ParticleRecord promises.
AnswerInv ==
  /\ Kept = Stored
  /\ Answer = [t \in Followed |-> Record!Nearest(parent, Stored)[t]]

Open == phase # "done"

\* Until the event has ended the answer is the end of a chain of equivalents.
LEMMA AnswerBefore == Inv /\ Open => AnswerInv
<1> SUFFICES ASSUME Inv, phase # "done" PROVE AnswerInv
  BY DEF Open
<1>1. DOMAIN equivalents = Followed
  BY DEF Inv, ChainInv
<1>2. \A t \in Followed : Resolve(equivalents, Stored, t) = Record!Nearest(parent, Stored)[t]
  BY ResolvesNearest
<1>3. Answer = [t \in Followed |-> Resolve(equivalents, Stored, t)] /\ Kept = Stored
  BY <1>1 DEF Answer, Kept
<1> QED BY <1>2, <1>3 DEF AnswerInv

\* The same of the state after a step.
LEMMA AnswerNext == Inv' /\ Open' => AnswerInv'
<1>1. Inv /\ Open => AnswerInv
  BY AnswerBefore
<1> QED BY <1>1, PTL

\* When it has ended it is the particle of the identifier the track was given.
LEMMA AnswerRebase ==
  ASSUME Inv, PrimaryInv, Rebase
  PROVE  AnswerInv'
<1>1. /\ DOMAIN trackId' = Followed
      /\ \A t \in Followed : /\ trackId'[t] = NewId(Resolve(equivalents, Stored, t))
                             /\ Resolve(equivalents, Stored, t) \in Stored
      /\ DOMAIN record' = Particle \cup {NewId(t) : t \in Stored}
      /\ \A t \in Stored : record'[NewId(t)].track = t
      /\ \A i \in DOMAIN record' : record'[i].track \in Stored \cup {0}
  BY RebaseProperty
<1>2. phase' = "done" /\ UNCHANGED <<parent, Stored, Followed>>
  BY DEF Rebase, tracking, Stored, Followed
<1>3. Kept' = Stored'
  <2>1. 0 \notin Stored
    BY ParticleAssumptions DEF Inv, ChainInv, Followed, Track
  <2>2. {record'[i].track : i \in DOMAIN record'} \ {0} = Stored
    BY <1>1, <2>1
  <2> QED BY <1>2, <2>2 DEF Kept
<1>4. \A t \in Followed : record'[trackId'[t]].track = Record!Nearest(parent, Stored)[t]
  BY <1>1, ResolvesNearest
<1>5. Answer' = [t \in Followed |-> record'[trackId'[t]].track]
  BY <1>1, <1>2 DEF Answer
<1>6. Answer' = [t \in Followed' |-> Record!Nearest(parent', Stored')[t]]
  BY <1>2, <1>4, <1>5
<1> QED BY <1>3, <1>6 DEF AnswerInv

\* Every step keeps the answers those of ParticleRecord.
LEMMA AnswerStep ==
  ASSUME Inv, Inv', PrimaryInv, AnswerInv, [Next]_vars
  PROVE  AnswerInv'
<1>1. CASE Rebase
  BY <1>1, AnswerRebase
<1>2. CASE UNCHANGED vars
  <2>1. UNCHANGED <<parent, Stored, Followed>>
    BY <1>2 DEF vars, tracking, Stored, Followed
  <2>2. Kept' = Kept /\ Answer' = Answer
    <3>1. UNCHANGED <<phase, record, trackId, equivalents, Stored>>
      BY <1>2 DEF vars, final, Stored
    <3> QED BY <3>1 DEF Kept, Answer
  <2> QED BY <2>1, <2>2 DEF AnswerInv
<1>3. CASE phase' # "done"
  BY <1>3, AnswerNext DEF Open
<1>4. phase' = "done" => Rebase \/ UNCHANGED vars
  BY DEF Next, SimulateTrack, EndEvent, Visit, EndPass
<1> QED BY <1>1, <1>2, <1>3, <1>4

\* Every step follows a track, reduces the record or changes nothing it promises.
LEMMA RecordStep ==
  ASSUME Inv, PrimaryInv, AnswerInv, PrimaryInv', Inv', AnswerInv', [Next]_vars
  PROVE  [Record!Next]_Record!vars
<1>1. /\ Kept = Stored /\ Kept' = Stored' /\ DOMAIN Answer = Followed
      /\ DOMAIN Answer' = Followed'
      /\ Answer' = [t \in DOMAIN Answer' |-> Record!Nearest(parent', Kept')[t]]
  BY DEF AnswerInv
<1>2. parent' \in [Track -> Track \cup {0}] /\ Primaries' \subseteq Track
  BY DEF Inv, TreeInv, Primaries
<1>3. ASSUME UNCHANGED <<parent, Stored, Followed, Primaries>>
      PROVE  UNCHANGED <<parent, Primaries, Kept, Answer>>
  BY <1>1, <1>3 DEF AnswerInv
<1>4. ASSUME NEW t \in Track, NEW f \in Fates, SimulateTrack(t, f) PROVE Record!Next
  <2>1. /\ End(t, f) /\ Followed' = Followed \cup {t} /\ Followed \subseteq Tracks
        /\ \A u \in Tracks : parent'[u] = parent[u]
        /\ parent' = [u \in Track |-> IF u \in Secondaries(t, f) THEN t ELSE parent[u]]
    BY <1>4, Stacked, SimulateTree DEF SimulateTrack, Followed, Tracks
  <2>2. Stored' \in {Stored, Stored \cup {t}}
    <3>1. Stored' = Stored \cup (IF Stores(t, f) THEN {t} ELSE {})
      BY <2>1, EndProperty
    <3> QED BY <3>1
  <2>3. /\ Primaries \subseteq Primaries' /\ Primaries' \cap Followed' \subseteq Primaries
    <3>1. /\ Primaries \subseteq Primaries' /\ Primaries' \subseteq Primaries \cup Secondaries(t, f)
          /\ Secondaries(t, f) \cap Tracks = {} /\ t \in Tracks
      BY <1>4, PrimariesGrow, Stacked
    <3> QED BY <2>1, <3>1
  <2>4. t \in Primaries => t \in Stored'
    BY <2>1, <2>3 DEF PrimaryInv
  <2>5. Record!Follow(t)
    <3>1. \A u \in Track : parent'[u] \in {parent[u], t}
      BY <2>1
    <3>2. \A u \in DOMAIN Answer : parent'[u] = parent[u]
      BY <1>1, <2>1
    <3> QED BY <1>1, <2>1, <2>2, <2>4, <2>3, <3>1, <3>2 DEF Record!Follow
  <2> QED BY <1>1, <1>2, <2>5 DEF Record!Next
<1>5. CASE EndEvent
  <2>1. UNCHANGED <<parent, Stored, Followed, Primaries>>
    BY <1>5 DEF EndEvent, tracking, Stored, Followed, Primaries
  <2> QED BY <1>3, <2>1 DEF Record!vars
<1>6. ASSUME NEW t \in Track, Visit(t) PROVE UNCHANGED Record!vars
  BY <1>3, <1>6, VisitProperty DEF Record!vars
<1>7. CASE EndPass
  <2>1. UNCHANGED <<parent, Followed, Primaries>> /\ Stored' = Stored \ remove
    BY <1>7, EndPassProperty
  <2>2. Record!Reduce
    BY <1>1, <2>1 DEF Record!Reduce, PrimaryInv
  <2> QED BY <1>1, <1>2, <2>2 DEF Record!Next
<1>8. CASE Rebase \/ UNCHANGED vars
  <2>1. UNCHANGED <<parent, Stored, Followed, Primaries>>
    BY <1>8 DEF Rebase, vars, tracking, Stored, Followed, Primaries
  <2> QED BY <1>3, <2>1 DEF Record!vars
<1> QED BY <1>4, <1>5, <1>6, <1>7, <1>8 DEF Next

\* At every moment, and in the final record, a hit belongs to the particle of its track
\* or of the nearest ancestor that is kept: the handler implements ParticleRecord, with
\* any user handler, for any number of tracks that are not killed.
THEOREM RecordImplemented == ASSUME NeverKilled PROVE Spec => ImplementsRecord
<1>1. Init => AnswerInv /\ Record!Init
  <2> SUFFICES ASSUME Init PROVE AnswerInv /\ Record!Init
    OBVIOUS
  <2>1. AnswerInv
    BY InvInit, AnswerBefore DEF Init, Open
  <2>2. Kept = {} /\ Answer = <<>> /\ parent = [t \in Track |-> 0] /\ Primaries \subseteq Track
    BY DEF Init, Kept, Answer, Stored, Primaries
  <2> QED BY <2>1, <2>2 DEF Record!Init
<1>2. Inv /\ Inv' /\ PrimaryInv /\ AnswerInv /\ [Next]_vars => AnswerInv'
  BY AnswerStep
<1>3. Inv /\ PrimaryInv /\ AnswerInv /\ PrimaryInv' /\ Inv' /\ AnswerInv' /\ [Next]_vars
        => [Record!Next]_Record!vars
  BY RecordStep
<1> QED BY <1>1, <1>2, <1>3, PrimariesKept, PTL DEF Spec, ImplementsRecord, Record!Spec

-----------------------------------------------------------------------------
\* Geant4 suspends no track.
NeverSuspended == \A f \in Fates : ~f.suspended

Tracked(t) == "TRACKER" \in hitBy[t] /\ kind[t].above

\* A track that is simulated at once keeps all that was noted of it.
TrackedInv ==
  /\ \A t \in Track : state[t] # "suspended"
  /\ \A t \in Track : t \notin Followed => hitBy[t] = {}
  /\ \A t \in Track : Tracked(t) => /\ t \in Stored \ remove
                                    /\ {"HIT", "TRACKER"} \subseteq particleMap[t]

\* Neither the handler nor the user handler drops tracker hits above the threshold.
LEMMA TrackedSimulate ==
  ASSUME NeverSuspended, Inv, TrackedInv, NEW t \in Track, NEW f \in Fates, SimulateTrack(t, f)
  PROVE  TrackedInv'
<1>1. /\ End(t, f) /\ UNCHANGED remove /\ remove = {} /\ hitBy'[t] = hitBy[t] \cup f.hits
      /\ \A u \in Track : u # t => hitBy'[u] = hitBy[u]
      /\ t \notin Followed /\ ~f.suspended
  BY DEF SimulateTrack, Inv, ChainInv, MapInv, TrackedInv, Followed, NeverSuspended
<1>2. /\ t \in Tracks /\ Followed' = Followed \cup {t} /\ Followed \subseteq Tracks
      /\ \A u \in Tracks : kind'[u] = kind[u]
      /\ state'[t] = "done" /\ \A u \in Tracks \ {t} : state'[u] = state[u]
      /\ \A u \in Secondaries(t, f) : state'[u] = "waiting"
      /\ Tracks' = Tracks \cup Secondaries(t, f)
  BY <1>1, Stacked, SimulateTree DEF Followed, Tracks
<1>3. \A u \in Track : state'[u] # "suspended"
  BY <1>2 DEF TrackedInv, Tracks
<1>4. \A u \in Track : u \notin Followed' => hitBy'[u] = {}
  BY <1>1, <1>2 DEF TrackedInv
<1>5. ASSUME Tracked(t)' PROVE {"HIT", "TRACKER"} \subseteq Noted(t, f) /\ Stores(t, f)
  <2>1. hitBy[t] = {} /\ "TRACKER" \in f.hits /\ kind[t].above
    BY <1>1, <1>2, <1>5 DEF Tracked, TrackedInv
  <2>2. Begin(t) = Fresh(t) /\ "ABOVE" \in Fresh(t)
    BY <1>1, <2>1 DEF Begin, Fresh, Flag, Inv, ChainInv, MapInv, Followed
  <2>3. Steps(t, f) = Begin(t) \cup Flag("ABOVE" \in Begin(t) /\ f.secondaries > 0, "SECONDARIES")
                        \cup f.hits \cup Flag(f.hits # {}, "HIT") \cup f.marks
    BY DEF Steps
  <2>4. {"ABOVE", "TRACKER", "HIT"} \subseteq Steps(t, f)
    BY <2>1, <2>2, <2>3 DEF Flag
  <2>5. EndReason(t, f) = Steps(t, f)
    BY <2>4 DEF EndReason, UserReason
  <2> QED BY <2>4, <2>5 DEF Noted, Stores
<1>6. /\ Stored' = Stored \cup (IF Stores(t, f) THEN {t} ELSE {})
      /\ \A u \in Stored' :
           \/ u = t /\ Stores(t, f) /\ particleMap'[u] = Noted(t, f)
           \/ u \in Stored /\ u # t /\ particleMap'[u] = particleMap[u]
           \/ /\ u \in Stored /\ ~Stores(t, f)
              /\ particleMap'[u] \in {particleMap[u], particleMap[u] \cup Steps(t, f)}
  BY <1>1, EndProperty
<1>7. ASSUME NEW u \in Track, Tracked(u)'
      PROVE  u \in Stored' \ remove' /\ {"HIT", "TRACKER"} \subseteq particleMap'[u]
  <2>1. CASE u = t
    <3>1. t \in Stored' /\ particleMap'[t] = Noted(t, f)
      BY <1>5, <1>6, <1>7, <2>1
    <3> QED BY <1>1, <1>5, <1>7, <2>1, <3>1
  <2>2. CASE u # t
    <3>1. u \in Followed
      BY <1>1, <1>4, <1>7, <1>2, <2>2 DEF Tracked
    <3>2. Tracked(u)
      BY <1>1, <1>2, <1>7, <2>2, <3>1 DEF Tracked
    <3>3. u \in Stored /\ {"HIT", "TRACKER"} \subseteq particleMap[u]
      BY <3>2 DEF TrackedInv
    <3>4. u \in Stored' /\ particleMap[u] \subseteq particleMap'[u]
      BY <1>6, <2>2, <3>3
    <3> QED BY <1>1, <3>3, <3>4
  <2> QED BY <2>1, <2>2
<1> QED BY <1>3, <1>4, <1>7 DEF TrackedInv

\* recombineParents does not remove what left tracker hits.
LEMMA TrackedStep ==
  ASSUME NeverSuspended, Inv, PrimaryInv, TrackedInv, [Next]_vars
  PROVE  TrackedInv'
<1>1. ASSUME NEW t \in Track, NEW f \in Fates, SimulateTrack(t, f) PROVE TrackedInv'
  BY <1>1, TrackedSimulate
<1>2. ASSUME NEW t \in Track, Visit(t) PROVE TrackedInv'
  <2>1. /\ UNCHANGED <<kind, hitBy, state, Stored, Followed>> /\ t \in Stored
        /\ remove' \in {remove, remove \cup {t}} /\ (remove' # remove => Removed(t))
        /\ \A u \in Stored : particleMap[u] \subseteq particleMap'[u]
    BY <1>2, VisitProperty
  <2>2. Removed(t) => ~Tracked(t)
    <3>1. "KILL" \notin particleMap[t]
      BY <2>1 DEF PrimaryInv
    <3>2. Tracked(t) => {"HIT", "TRACKER"} \subseteq particleMap[t]
      BY DEF TrackedInv
    <3> QED BY <3>1, <3>2 DEF Removed, Drop
  <2>3. \A u \in Track : Tracked(u)' => Tracked(u) /\ u \in Stored' \ remove'
    BY <2>1, <2>2 DEF TrackedInv, Tracked
  <2> QED BY <2>1, <2>3 DEF TrackedInv
<1>3. CASE EndPass
  <2>1. /\ UNCHANGED <<kind, hitBy, state, Followed>> /\ remove' = {}
        /\ Stored' = Stored \ remove /\ \A u \in Stored' : particleMap'[u] = particleMap[u]
    BY <1>3, EndPassProperty
  <2> QED BY <2>1 DEF TrackedInv, Tracked
<1>4. CASE EndEvent \/ Rebase \/ UNCHANGED vars
  <2>1. UNCHANGED <<tracking, particleMap, remove>>
    BY <1>4 DEF EndEvent, Rebase, vars
  <2>2. UNCHANGED <<kind, hitBy, state, Followed, Stored>>
    BY <2>1 DEF tracking, Followed, Stored
  <2> QED BY <2>1, <2>2 DEF TrackedInv, Tracked
<1> QED BY <1>1, <1>2, <1>3, <1>4 DEF Next

\* setReason keeps particles that left tracker hits above the threshold, with or without
\* a user handler, if no track is suspended: it is the suspension alone that loses them.
THEOREM TrackerHitsAreKept ==
  ASSUME NeverKilled, NeverSuspended
  PROVE  Spec => []TrackerHitsKept
<1>1. Init => RecordedInv /\ TrackedInv
  BY DEF Init, RecordedInv, TrackedInv, Followed, Tracked
<1>2. Inv /\ PrimaryInv /\ RecordedInv /\ [Next]_vars => RecordedInv'
  BY RecordedStep
<1>3. Inv /\ PrimaryInv /\ TrackedInv /\ [Next]_vars => TrackedInv'
  BY TrackedStep
<1>4. RecordedInv /\ TrackedInv => TrackerHitsKept
  BY DEF RecordedInv, TrackedInv, TrackerHitsKept, Tracked, Tracks
<1> QED BY <1>1, <1>2, <1>3, <1>4, PrimariesKept, PTL DEF Spec
=============================================================================
