---------------------------- MODULE ParticleHandler ----------------------------
(***************************************************************************)
(* Geant4ParticleHandler: the Monte Carlo record of one event.  While the  *)
(* tracks are simulated, one at a time, the handler decides at the end of  *)
(* each track whether its particle enters the record and where its hits    *)
(* go otherwise.  At the end of the event the record is reduced by passes  *)
(* over the particles (recombineParents) and rebased to the identifiers of *)
(* the generator (rebaseSimulatedTracks).                                  *)
(*                                                                         *)
(* Geant4 itself is external: it takes any track that is waiting, it may   *)
(* suspend a track, as often as it likes, and resume it later, before or   *)
(* after its secondaries, and numbers tracks when it stacks them.  It also *)
(* makes the products of a decay that the generator has assigned to a      *)
(* primary track, if the track lives to decay.  The callbacks of a track,  *)
(* begin, the steps with the marks of the sensitive detectors and end, are *)
(* not interrupted by another track and form one action.                   *)
(***************************************************************************)
EXTENDS Integers, FiniteSets, FiniteSetsExt, Functions

CONSTANTS
  Generated,     \* number of particles of the generator, with identifiers 0, 1 ...
  Parents,       \* Parents[i], Daughters[i]: what the reader wrote in particle i
  Daughters,
  Roots,         \* particles that generatePrimaries put at a vertex of Geant4
  Products,      \* Products[i]: particles hung to i, for Geant4 to decay it to
  MaxTracks,     \* bound: tracks of an event
  MaxSuspensions,   \* bound: suspensions of tracks in an event
  Kinds,         \* what tracks may be like when they start
  Fates,         \* what tracks may go through
  UserHandlers   \* {TRUE} if Geant4TCUserParticleHandler is adopted, {FALSE}
                 \* if not, or both

Track == 1 .. MaxTracks
Particle == 0 .. Generated - 1
NoParticle == -1

\* The bits of Geant4Particle::reason.  SIM_BACKSCATTER, a bit of the status,
\* has the value of FORCE_KILL and is tested on the reason.
Reason == {"HIT", "PRIMARY", "SECONDARIES", "ABOVE", "PROCESS", "PARENT", "CALO",
           "TRACKER", "USER", "ALWAYS", "KILL", "IN_CALO"}

Kind == [above : BOOLEAN,                            \* MinimalKineticEnergy
         process : BOOLEAN,                          \* creator in SaveProcesses
         start : {"tracker", "calorimeter", "passive"}]

Fate == [hits : SUBSET {"TRACKER", "CALO"}, marks : SUBSET (Reason \ {"PRIMARY"}),
         secondaries : Nat, end : {"tracker", "calorimeter"},
         decays : BOOLEAN,    \* to the products the generator has assigned to it
         suspended : BOOLEAN, info : BOOLEAN]

\* The particles are numbered without holes and their daughters are among them; each is
\* handed to Geant4 at most once.
ASSUME ParticleAssumptions ==
  /\ Generated \in Nat \ {0}
  /\ Parents \in [Particle -> SUBSET Particle] /\ Daughters \in [Particle -> SUBSET Particle]
  /\ Roots \subseteq Particle /\ Products \in [Particle -> SUBSET Particle]
  /\ \A i \in Particle : Products[i] \cap Roots = {}
  /\ \A i, j \in Particle : Products[i] \cap Products[j] # {} => i = j
  /\ MaxTracks \in Nat /\ Cardinality(Roots) <= MaxTracks /\ MaxSuspensions \in Nat
  /\ Kinds \subseteq Kind /\ Fates \subseteq Fate
  /\ UserHandlers \subseteq BOOLEAN /\ UserHandlers # {}

VARIABLES
  userHandler,  \* a user handler is adopted (fixed)
  parent,       \* parent[t]: the track Geant4 created t from, 0 for one of a vertex
  particle,     \* particle[t]: the particle of the generator t is the track of
  kind,         \* kind[t]: what t is like at its start
  state,        \* state[t]: "none", "waiting", "suspended" or "done"
  suspensions,  \* how often a track was suspended
  particleMap,  \* m_particleMap: reason of the particle of each track in it
  suspendedPM,  \* m_suspendedPM: suspended tracks which are not in the record
  haveSuspended,    \* m_haveSuspended
  equivalents,  \* m_equivalentTracks
  phase,        \* "tracking", "recombine", "rebase" or "done"
  cursor,       \* the particle recombineParents visits next, from the back
  remove,       \* particles this pass is going to remove
  record,       \* final particles by identifier, adopted by Geant4ParticleMap
  trackId,      \* trackId[t]: identifier of the final particle for track t
  hitBy         \* history: flags of the hits a track created

tracking == <<userHandler, parent, particle, kind, state, suspensions, suspendedPM,
              haveSuspended, hitBy>>
final == <<record, trackId>>
vars == <<tracking, particleMap, equivalents, phase, cursor, remove, final>>

Tracks == {t \in Track : state[t] # "none"}
Primaries == {t \in Track : particle[t] # NoParticle}
Stored == DOMAIN particleMap

\* A map of the program with the entry for t set to, or without it.
Put(m, t, x) == [u \in DOMAIN m \cup {t} |-> IF u = t THEN x ELSE m[u]]
Without(m, S) == [u \in DOMAIN m \ S |-> m[u]]

\* The particles at the vertices of Geant4 are its first tracks.
Init ==
  /\ userHandler \in UserHandlers
  /\ parent = [t \in Track |-> 0]
  /\ \E p \in Bijection(1 .. Cardinality(Roots), Roots) :
       particle = [t \in Track |-> IF t \in DOMAIN p THEN p[t] ELSE NoParticle]
  /\ \E k \in Kinds : kind = [t \in Track |-> k]
  /\ state = [t \in Track |-> IF t \in Primaries THEN "waiting" ELSE "none"]
  /\ suspensions = 0
  /\ particleMap = <<>> /\ suspendedPM = <<>> /\ equivalents = <<>>
  /\ haveSuspended = FALSE
  /\ phase = "tracking" /\ cursor = 0 /\ remove = {}
  /\ record = <<>> /\ trackId = <<>>
  /\ hitBy = [t \in Track |-> {}]

-----------------------------------------------------------------------------
(***************************************************************************)
(* Callbacks of a track.                                                   *)
(***************************************************************************)
Flag(condition, name) == IF condition THEN {name} ELSE {}

\* The reason of a track that starts; the property KeepAllParticles is not set.
Fresh(t) ==
  Flag(t \in Primaries, "PRIMARY") \cup Flag(t \in Primaries \/ kind[t].above, "ABOVE")
    \cup Flag(kind[t].process, "PROCESS")
    \cup Flag(kind[t].start = "calorimeter", "IN_CALO")

\* Mutant: a track that is resumed starts again.
Begin_restart(t) == Fresh(t)

\* begin: a new track, or the particle a suspended track left behind.
Begin(t) ==
  IF haveSuspended /\ t \in Stored THEN particleMap[t]
  ELSE IF haveSuspended /\ t \in DOMAIN suspendedPM THEN suspendedPM[t]
  ELSE Fresh(t)

\* step and mark: secondaries, hits and the marks of user code.
Steps(t, f) ==
  LET r == Begin(t)
  IN  r \cup Flag("ABOVE" \in r /\ f.secondaries > 0, "SECONDARIES")
        \cup f.hits \cup Flag(f.hits # {}, "HIT") \cup f.marks

\* Geant4TCUserParticleHandler::end: setReason.
UserReason(t, f) ==
  LET r == Steps(t, f)
      starts == kind[t].start = "tracker"
  IN  IF "PRIMARY" \in r THEN r
      ELSE IF starts /\ "ABOVE" \notin r THEN {}
      ELSE IF {"TRACKER", "ABOVE"} \subseteq r \/ starts THEN r
      ELSE IF f.end # "tracker" \/ "TRACKER" \notin r THEN {} ELSE r

EndReason(t, f) == IF userHandler THEN UserReason(t, f) ELSE Steps(t, f)

Backscatter(t, f) ==
  LET r == Steps(t, f)
  IN  "KILL" \in r \/ ("IN_CALO" \in r /\ ("TRACKER" \in r \/ f.end = "tracker"))

\* Mutant: end forgets a track that is not stored.
Equivalent_none(t, store) == IF store THEN Put(equivalents, t, t) ELSE equivalents

Equivalent(t, store) == Put(equivalents, t, IF store THEN t ELSE parent[t])

\* The particle in the record for track t, at the end of a chain of equivalents.
Resolve(m, stored, t) ==
  LET up[u \in Track \cup {0}] ==
        IF u \in stored \/ u \notin DOMAIN m THEN u ELSE up[m[u]]
  IN  up[t]

\* Mutant: a track that is resumed stays among the suspended ones.
Suspended_kept(t, f, store) ==
  IF f.suspended /\ ~store /\ t \notin Stored
    THEN Put(suspendedPM, t, EndReason(t, f)) ELSE suspendedPM

Suspended(t, f, store) ==
  IF f.suspended /\ ~store /\ t \notin Stored
    THEN Put(suspendedPM, t, EndReason(t, f))
    ELSE Without(suspendedPM, {t})

\* end: the particle enters the record, or the nearest one that is there takes
\* over the reason of the track.
End(t, f) ==
  LET r     == EndReason(t, f)
      store == r # {} \/ f.info \/ Backscatter(t, f)
      near  == Resolve(equivalents, Stored, parent[t])
  IN  /\ equivalents' = Equivalent(t, store)
      /\ particleMap' =
           IF store
             THEN Put(particleMap, t, r \cup Flag(Backscatter(t, f), "ALWAYS")
                                        \cup Flag(f.info, "USER"))
             ELSE [u \in Stored |-> IF u = near THEN particleMap[u] \cup Steps(t, f)
                                                ELSE particleMap[u]]
      /\ suspendedPM' = Suspended(t, f, store)
      /\ haveSuspended' = (haveSuspended \/ f.suspended)

\* The products of the decay that is assigned to the track.
Assigned(t, f) == IF f.decays THEN Products[particle[t]] ELSE {}

\* One call of begin, step and mark, and end; the secondaries and the products of
\* the decay are numbered when the track is done or suspended.
SimulateTrack(t, f) ==
  /\ phase = "tracking"
  /\ state[t] \in {"waiting", "suspended"}
  /\ f.decays => t \in Primaries /\ ~f.suspended
  /\ suspensions' = suspensions + (IF f.suspended THEN 1 ELSE 0)
  /\ suspensions' <= MaxSuspensions
  /\ LET first == Cardinality(Tracks) + 1
         new   == first .. (first + f.secondaries + Cardinality(Assigned(t, f)) - 1)
     IN  /\ new \subseteq Track
         /\ state' = [u \in Track |->
              IF u = t THEN (IF f.suspended THEN "suspended" ELSE "done")
              ELSE IF u \in new THEN "waiting" ELSE state[u]]
         /\ parent' = [u \in Track |-> IF u \in new THEN t ELSE parent[u]]
         /\ \E S \in SUBSET new : \E p \in Bijection(S, Assigned(t, f)) :
              particle' = [u \in Track |-> IF u \in S THEN p[u] ELSE particle[u]]
         /\ \E k \in [new -> Kinds] :
              kind' = [u \in Track |-> IF u \in new THEN k[u] ELSE kind[u]]
  /\ hitBy' = [hitBy EXCEPT ![t] = @ \cup f.hits]
  /\ End(t, f)
  /\ UNCHANGED <<userHandler, phase, cursor, remove, final>>

-----------------------------------------------------------------------------
(***************************************************************************)
(* endEvent: recombineParents until it removes nothing.                    *)
(***************************************************************************)
\* The particle visited after those from t on.
Before(t) == Max({0} \cup {u \in Stored : u < t})

EndEvent ==
  /\ phase = "tracking"
  /\ \A t \in Tracks : state[t] = "done"
  /\ phase' = "recombine"
  /\ cursor' = Before(MaxTracks + 1)
  /\ UNCHANGED <<tracking, particleMap, equivalents, remove, final>>

\* defaultDropParticle, which the user handlers call as well.
Drop(r) ==
  /\ "KILL" \notin r
  /\ \/ r = {}
     \/ "HIT" \notin r /\ "ABOVE" \notin r
     \/ "TRACKER" \notin r /\ "CALO" \in r /\ "ABOVE" \notin r

ParentKeeps(t) == parent[t] \in Stored /\ "ABOVE" \in particleMap[parent[t]]

\* The order of the tests of the mask.
ByProcess(t) ==
  LET r == particleMap[t]
  IN  {"USER", "PRIMARY", "ALWAYS", "PARENT", "KILL"} \cap r = {} /\ "PROCESS" \in r

Removed(t) ==
  LET r == particleMap[t]
  IN  \/ r = {} \/ "KILL" \in r
      \/ /\ {"USER", "PRIMARY", "ALWAYS"} \cap r = {}
         /\ Drop(r) /\ ~(ByProcess(t) /\ ParentKeeps(t))

Inherit(t) ==
  [u \in Stored |-> IF u = parent[t] THEN particleMap[u] \cup particleMap[t]
                                     ELSE particleMap[u]]

\* Mutant: a particle that is removed keeps its own entry.
Redirect_self(t) == equivalents

Redirect(t) == Put(equivalents, t, parent[t])

Visit(t) ==
  /\ phase = "recombine" /\ cursor = t
  /\ cursor' = Before(t)
  /\ IF Removed(t)
       THEN /\ remove' = remove \cup {t}
            /\ equivalents' = Redirect(t)
            /\ particleMap' = Inherit(t)
       ELSE /\ particleMap' =
                 IF ByProcess(t) /\ ParentKeeps(t)
                   THEN Put(particleMap, parent[t], particleMap[parent[t]] \cup {"PARENT"})
                   ELSE particleMap
            /\ UNCHANGED <<remove, equivalents>>
  /\ UNCHANGED <<tracking, phase, final>>

\* Mutant: the particles of a pass are not erased.
EndPass_keep ==
  /\ phase = "recombine" /\ cursor = 0
  /\ remove' = {}
  /\ IF remove = {} THEN phase' = "rebase" /\ UNCHANGED cursor
                    ELSE cursor' = Before(MaxTracks + 1) /\ UNCHANGED phase
  /\ UNCHANGED <<tracking, particleMap, equivalents, final>>

\* The particles are erased after the pass; a pass that removes none is the last.
EndPass ==
  /\ phase = "recombine" /\ cursor = 0
  /\ particleMap' = Without(particleMap, remove)
  /\ remove' = {}
  /\ IF remove = {} THEN phase' = "rebase" /\ UNCHANGED cursor
                    ELSE cursor' = Before(MaxTracks + 1)' /\ UNCHANGED phase
  /\ UNCHANGED <<tracking, equivalents, final>>

-----------------------------------------------------------------------------
(***************************************************************************)
(* endEvent: rebaseSimulatedTracks.  The particles of the generator keep   *)
(* their identifiers 0, 1 ..., tracked or not, and the links the reader    *)
(* gave them; the particles of other tracks are numbered after them.       *)
(***************************************************************************)
NewId(t) ==
  IF t \in Primaries THEN particle[t]
  ELSE Generated - 1 + Cardinality({u \in Stored \ Primaries : u <= t})

\* Mutant: one link of the chain of equivalents is followed.
NewEquivalents_one ==
  LET known == {t \in DOMAIN equivalents : equivalents[t] \in Stored}
  IN  [t \in known |-> NewId(equivalents[t])]

NewEquivalents ==
  LET known == {t \in DOMAIN equivalents : Resolve(equivalents, Stored, t) \in Stored}
  IN  [t \in known |-> NewId(Resolve(equivalents, Stored, t))]

\* What stands for the track a particle came from.
Mother(t) == IF parent[t] \in DOMAIN trackId' THEN {trackId'[parent[t]]} ELSE {}

NewParents(t) == IF t \in Primaries THEN Parents[particle[t]] ELSE Mother(t)

\* The final particles with a track, and those which become daughters of i: what
\* stands for their mother is the first of their parents.
Final == Stored \cup Primaries
Hung(i) == {t \in Final : /\ Mother(t) = {i} /\ i \in NewParents(t)
                          /\ \A j \in NewParents(t) : i <= j}

\* The track of a final particle, 0 if Geant4 has not seen it.
TrackOf(i) ==
  LET own == {t \in Final : NewId(t) = i}
  IN  IF own = {} THEN 0 ELSE CHOOSE t \in own : TRUE

ReadDaughters(i) == IF i \in Particle THEN Daughters[i] ELSE {}

Rebase ==
  /\ phase = "rebase"
  /\ phase' = "done"
  /\ trackId' = NewEquivalents
  /\ record' = [i \in Particle \cup {NewId(t) : t \in Final} |->
       [track     |-> TrackOf(i),
        parents   |-> IF i \in Particle THEN Parents[i] ELSE NewParents(TrackOf(i)),
        daughters |-> ReadDaughters(i) \cup {NewId(t) : t \in Hung(i)}]]
  /\ UNCHANGED <<tracking, particleMap, equivalents, cursor, remove>>

\* checkConsistency: the particles it complains about.  A particle of the generator has
\* a generator status and is excused from the test of the parents.
Inconsistent ==
  {i \in DOMAIN record :
     \/ ~(record[i].daughters \subseteq DOMAIN record)
     \/ i \notin Particle /\
        LET mother == parent[record[i].track]
        IN  \/ mother \notin DOMAIN trackId
            \/ trackId[mother] \notin DOMAIN record
            \/ trackId[mother] \notin record[i].parents}

Next ==
  \/ \E t \in Track, f \in Fates : SimulateTrack(t, f)
  \/ EndEvent \/ (\E t \in Track : Visit(t)) \/ EndPass \/ Rebase

\* One thread simulates the event to its end.
Spec == Init /\ [][Next]_vars /\ WF_vars(Next)

-----------------------------------------------------------------------------
(***************************************************************************)
(* Properties.                                                             *)
(***************************************************************************)
\* Types; only tracks that will be resumed wait in m_suspendedPM, which clear()
\* asserts to be empty between events.
TypeOK ==
  /\ userHandler \in UserHandlers /\ haveSuspended \in BOOLEAN
  /\ parent \in [Track -> Track \cup {0}] /\ kind \in [Track -> Kinds]
  /\ particle \in [Track -> Particle \cup {NoParticle}] /\ Primaries \subseteq Tracks
  /\ suspensions \in 0 .. MaxSuspensions
  /\ state \in [Track -> {"none", "waiting", "suspended", "done"}]
  /\ Stored \subseteq Tracks /\ \A t \in Stored : particleMap[t] \subseteq Reason
  /\ DOMAIN suspendedPM \subseteq {t \in Track : state[t] = "suspended"} \ Stored
  /\ DOMAIN equivalents \subseteq Tracks
  /\ \A t \in DOMAIN equivalents : equivalents[t] \in {t, parent[t]}
  /\ phase \in {"tracking", "recombine", "rebase", "done"}
  /\ cursor \in 0 .. MaxTracks /\ remove \subseteq Stored
  /\ hitBy \in [Track -> SUBSET {"TRACKER", "CALO"}]

\* The loops of end and rebaseSimulatedTracks that follow the equivalents of a
\* track end: only a particle of the record stands for itself.
ChainsEnd == \A t \in DOMAIN equivalents : equivalents[t] = t => t \in Stored

\* checkConsistency, which ends the run with an exception, finds nothing; and whatever
\* was left out between them, the links rebaseSimulatedTracks adds to those of the reader
\* hold both ways: what stands for the mother of a particle, a product of an assigned
\* decay too if that is the first of its parents, knows it as a daughter, and nothing
\* else becomes one.
Consistent ==
  phase = "done" =>
    /\ Inconsistent = {}
    /\ \A i \in DOMAIN record :
         LET t == record[i].track
             m == trackId[parent[t]]
             known == \A j \in record[i].parents : m <= j
         IN  t # 0 /\ parent[t] # 0 /\ m \in record[i].parents /\ known
               => i \in record[m].daughters
    /\ \A i \in DOMAIN record : \A d \in record[i].daughters \ ReadDaughters(i) :
         i \in record[d].parents /\ i = trackId[parent[record[d].track]]

\* defaultDropParticle: without a user handler a track which hit a tracker, or
\* hit anything and started above the threshold, is in the record of the event,
\* however often it was suspended and whatever happened to its secondaries.
HitsKept ==
  phase = "done" /\ ~userHandler =>
    \A t \in Tracks :
      \/ "TRACKER" \in hitBy[t]
      \/ hitBy[t] # {} /\ kind[t].above
      => \E i \in DOMAIN record : record[i].track = t

\* setReason: "keep particles that left tracker hits if they are above
\* threshold".
TrackerHitsKept ==
  phase = "done" =>
    \A t \in Tracks :
      "TRACKER" \in hitBy[t] /\ kind[t].above
        => \E i \in DOMAIN record : record[i].track = t

\* Every event gets its record.
Ends == <>(phase = "done")

\* The tracks of the record, and the particle in it for a track that was followed.
Kept == IF phase = "done" THEN {record[i].track : i \in DOMAIN record} \ {0} ELSE Stored

Answer ==
  IF phase = "done" THEN [t \in DOMAIN trackId |-> record[trackId[t]].track]
  ELSE [t \in DOMAIN equivalents |-> Resolve(equivalents, Stored, t)]

\* The handler implements the abstract record: at every moment the hits of a track
\* belong to its nearest ancestor in the record.
Record == INSTANCE ParticleRecord
            WITH parent <- parent, kept <- Kept, answer <- Answer,
                 primaries <- Primaries, Track <- Track
ImplementsRecord == Record!Spec
===============================================================================
