------------------------------ MODULE Geant4Input ------------------------------
(***************************************************************************)
(* From the generators to the primary particles of Geant4, for one event.  *)
(* Each input action adds an interaction, a graph of generator particles   *)
(* with vertices, under its mask.  mergeInteractions joins them to one     *)
(* record with identifiers of their own, and generatePrimaries walks down  *)
(* that record from the particles without parents: stable particles and    *)
(* particles with a predefined decay become primaries of Geant4, those     *)
(* Geant4 cannot know are left out, and what is below them takes their     *)
(* place.  The primaries are the tracks module ParticleHandler starts from.*)
(*                                                                         *)
(* getRelevant calls itself; stack holds the calls that did not return.    *)
(***************************************************************************)
EXTENDS Integers, Sequences, FiniteSets, FiniteSetsExt

CONSTANTS
  ActionLists,  \* masks of the input actions of an event, in their order
  Inputs        \* Inputs[m]: interactions the action with mask m may read

Mask == DOMAIN Inputs

(***************************************************************************)
(* What the status, the PDG code, the definition and the times of a        *)
(* particle make of it:                                                    *)
(*   "stable"    GEN_STABLE                                                *)
(*   "vetoed"    GEN_STABLE, but its PDG code is in RejectPDGs             *)
(*   "decayed"   any other that Geant4 knows and can be told to decay      *)
(*   "dropped"   any other that is rejected: unknown, documentation, beam  *)
(*   "broken"    not GEN_STABLE, but stable for Geant4                     *)
(***************************************************************************)
Kind == {"stable", "vetoed", "decayed", "dropped", "broken"}

Particle == [kind : Kind, parents : SUBSET Nat, daughters : SUBSET Nat]
Vertex == [in : SUBSET Nat, out : SUBSET Nat]

\* An interaction as the readers make it: particles are numbered from zero, no particle
\* leaves two vertices, and parents and daughters agree but where the HepMC reader took
\* the parents, all of them, from the daughters of a particle without parents.
WellFormed(r) ==
  /\ IsFiniteSet(DOMAIN r.particles)
  /\ DOMAIN r.particles = 0 .. Cardinality(DOMAIN r.particles) - 1
  /\ \A i \in DOMAIN r.particles :
       /\ r.particles[i] \in Particle
       /\ r.particles[i].daughters \cup r.particles[i].parents \subseteq DOMAIN r.particles
       /\ \A j \in DOMAIN r.particles :
            /\ i \in r.particles[j].parents => j \in r.particles[i].daughters
            /\ j \in r.particles[i].daughters =>
                 i \in r.particles[j].parents \/ r.particles[j].parents = {}
  /\ r.vertices \in Seq(Vertex)
  /\ \A k \in DOMAIN r.vertices :
       /\ r.vertices[k].in \cup r.vertices[k].out \subseteq DOMAIN r.particles
       /\ \A l \in DOMAIN r.vertices :
            r.vertices[k].out \cap r.vertices[l].out # {} => k = l

ASSUME InputAssumptions ==
  /\ Mask \subseteq Int
  /\ \A m \in Mask : \A r \in Inputs[m] : WellFormed(r)
  /\ ActionLists \subseteq Seq(Mask)

VARIABLES
  actions,       \* masks of the actions (fixed)
  calls,         \* number of actions called so far
  interactions,  \* Geant4PrimaryEvent: the interactions by mask
  aborted,       \* abortRun was called
  merged,        \* masks of the interactions that were merged
  offset,        \* particle_offset of mergeInteractions
  particles,     \* particles of the output, with the one each comes from
  vertices,      \* vertices of the output by mask
  nextPID,       \* next_particle_identifier of the output
  rooted,        \* entries of the vertices generatePrimaries has looked at
  visited,       \* particles getRelevant was called for
  prim,          \* particles with a G4PrimaryParticle
  links,         \* calls of SetPrimary and SetDaughter: child and place
  stack,         \* open calls of getRelevant, above that of the vertex
  phase          \* "generate", "merge", "primaries", "done" or "failed"

input == <<actions, calls, interactions>>
output == <<merged, offset, particles, vertices, nextPID>>
walk == <<rooted, visited, prim, links, stack>>
vars == <<input, aborted, output, walk, phase>>

Init ==
  /\ actions \in ActionLists /\ calls = 0
  /\ interactions = <<>> /\ aborted = FALSE
  /\ merged = {} /\ offset = 0
  /\ particles = <<>> /\ vertices = <<>> /\ nextPID = -2
  /\ rooted = {} /\ visited = {} /\ prim = {} /\ links = <<>> /\ stack = <<>>
  /\ phase = "generate"

\* std::map::emplace: an entry that is there stays.
Emplace(f, g) ==
  [x \in DOMAIN f \cup DOMAIN g |-> IF x \in DOMAIN f THEN f[x] ELSE g[x]]

-----------------------------------------------------------------------------
(***************************************************************************)
(* The input actions.                                                      *)
(***************************************************************************)
Called == phase = "generate" /\ calls < Len(actions) /\ calls' = calls + 1
mask == actions[calls + 1]

\* The reader gives nothing: with m_abort the run is aborted after this event,
\* without it the event ends in an exception.
ReadFails ==
  /\ Called
  /\ \/ aborted' = TRUE /\ UNCHANGED phase
     \/ phase' = "failed" /\ UNCHANGED aborted
  /\ UNCHANGED <<actions, interactions, output, walk>>

Nothing == [particles |-> <<>>, vertices |-> <<>>]

\* Particles without a vertex are ignored, and a vertex without particles as well.
Taken(r) == IF r.particles = <<>> \/ r.vertices = <<>> THEN Nothing ELSE r

Add ==
  /\ Called
  /\ mask \notin DOMAIN interactions
  /\ \E r \in Inputs[mask] :
       interactions' = Emplace(interactions, [m \in {mask} |-> Taken(r)])
  /\ UNCHANGED <<actions, aborted, output, walk, phase>>

\* "exists and cannot be added twice!"
AddTwice ==
  /\ Called
  /\ mask \in DOMAIN interactions
  /\ phase' = "failed"
  /\ UNCHANGED <<actions, interactions, aborted, output, walk>>

-----------------------------------------------------------------------------
(***************************************************************************)
(* mergeInteractions.                                                      *)
(***************************************************************************)
StartMerge ==
  /\ phase = "generate" /\ calls = Len(actions)
  /\ phase' = "merge"
  /\ UNCHANGED <<input, aborted, output, walk>>

Shift(S) == {i + offset : i \in S}

\* rebaseParticles: the object knows where it comes from.
Rebased(m) ==
  LET r == interactions[m]
  IN  [j \in Shift(DOMAIN r.particles) |->
         LET p == r.particles[j - offset]
         IN  [origin |-> <<m, j - offset>>, kind |-> p.kind,
              parents |-> Shift(p.parents), daughters |-> Shift(p.daughters)]]

\* Mutant: the greatest identifier instead of the next one.
Beyond_last(m) == Max({offset} \cup {i + offset : i \in DOMAIN interactions[m].particles})

Beyond(m) == Max({offset} \cup {i + offset + 1 : i \in DOMAIN interactions[m].particles})

\* rebaseVertices.
RebasedVertices(m) ==
  LET v == interactions[m].vertices
  IN  [k \in DOMAIN v |-> [in |-> Shift(v[k].in), out |-> Shift(v[k].out)]]

Appended(m) == IF m \in DOMAIN vertices THEN vertices[m] ELSE <<>>

\* One interaction, in the order of the masks: rebaseParticles, rebaseVertices and
\* appendInteraction.
Merge(m) ==
  /\ phase = "merge"
  /\ m \in DOMAIN interactions \ merged
  /\ \A n \in DOMAIN interactions \ merged : m <= n
  /\ merged' = merged \cup {m}
  /\ offset' = Beyond(m)
  /\ particles' = Emplace(particles, Rebased(m))
  /\ IF interactions[m].vertices = <<>> THEN UNCHANGED <<vertices, aborted>>
     ELSE /\ aborted' = (aborted \/ m \in DOMAIN vertices)
          /\ vertices' = Emplace([n \in {m} |-> Appended(m) \o RebasedVertices(m)], vertices)
  /\ UNCHANGED <<input, nextPID, walk, phase>>

EndMerge ==
  /\ phase = "merge" /\ merged = DOMAIN interactions
  /\ nextPID' = offset - 1
  /\ phase' = "primaries"
  /\ UNCHANGED <<input, aborted, merged, offset, particles, vertices, walk>>

-----------------------------------------------------------------------------
(***************************************************************************)
(* generatePrimaries: all vertices, and of each the particles it lets out  *)
(* that have no parents.                                                   *)
(***************************************************************************)
Leaving(m, k) ==
  {<<m, k, i>> : i \in {j \in vertices[m][k].out : particles[j].parents = {}}}

Root == UNION {UNION {Leaving(m, k) : k \in DOMAIN vertices[m]} : m \in DOMAIN vertices}

Earlier(x, y) ==
  \/ x[1] < y[1]
  \/ x[1] = y[1] /\ (x[2] < y[2] \/ (x[2] = y[2] /\ x[3] <= y[3]))

Frame(call, of, left) == [call |-> call, of |-> of, left |-> left, found |-> <<>>]
top == stack[1]

Walking == phase = "primaries" /\ stack # <<>>

StartRoot(x) ==
  /\ phase = "primaries" /\ stack = <<>>
  /\ x \in Root \ rooted /\ \A y \in Root \ rooted : Earlier(x, y)
  /\ rooted' = rooted \cup {x}
  /\ stack' = <<Frame("vertex", <<x[1], x[2]>>, {x[3]})>>
  /\ UNCHANGED <<input, aborted, output, visited, prim, links, phase>>

-----------------------------------------------------------------------------
(***************************************************************************)
(* getRelevant.  The loops over daughters pass over those visited before.  *)
(***************************************************************************)
At(i) == Walking /\ i \in top.left /\ \A j \in top.left : i <= j

\* Mutant: a daughter is visited once for each of its parents.
Seen_never(i) == FALSE

Seen(i) == top.call # "vertex" /\ i \in visited

\* The call for i is made, and returns at once.
Answer(answer, i) ==
  /\ visited' = visited \cup {i}
  /\ stack' = <<[top EXCEPT !.left = @ \ {i}, !.found = @ \o answer]>> \o Tail(stack)

\* The call for i is made, and calls itself for the daughters.
Descend(call, i) ==
  /\ visited' = visited \cup {i}
  /\ stack' = <<Frame(call, <<i>>, particles[i].daughters),
                [top EXCEPT !.left = @ \ {i}]>> \o Tail(stack)

Parent(i) == particles[i].daughters # {}
Of(i, kind) == At(i) /\ ~Seen(i) /\ particles[i].kind = kind

\* Mutant: the iterator is not advanced.
Skip_retried(i) == At(i) /\ Seen(i) /\ UNCHANGED vars

Skip(i) ==
  /\ At(i) /\ Seen(i)
  /\ stack' = <<[top EXCEPT !.left = @ \ {i}]>> \o Tail(stack)
  /\ UNCHANGED <<input, aborted, output, rooted, visited, prim, links, phase>>

Stable(i) ==
  /\ Of(i, "stable")
  /\ prim' = prim \cup {i}
  /\ Answer(IF i \in prim THEN <<>> ELSE <<i>>, i)
  /\ UNCHANGED <<input, aborted, output, rooted, links, phase>>

\* Neither a stable particle nor the mother of any.
Ignore(i) ==
  /\ At(i) /\ ~Seen(i)
  /\ particles[i].kind = "vetoed" \/ (particles[i].kind # "stable" /\ ~Parent(i))
  /\ Answer(<<>>, i)
  /\ UNCHANGED <<input, aborted, output, rooted, prim, links, phase>>

\* "Stable particle with daughters!"
Refuse(i) ==
  /\ Of(i, "broken") /\ Parent(i)
  /\ phase' = "failed"
  /\ UNCHANGED <<input, aborted, output, walk>>

Decay(i) ==
  /\ Of(i, "decayed") /\ Parent(i)
  /\ prim' = prim \cup {i}
  /\ IF i \in prim THEN Answer(<<i>>, i) ELSE Descend("decay", i)
  /\ UNCHANGED <<input, aborted, output, rooted, links, phase>>

\* Mutant: a rejected particle takes its daughters with it.
Drop_all(i) ==
  /\ Of(i, "dropped") /\ Parent(i)
  /\ Answer(<<>>, i)
  /\ UNCHANGED <<input, aborted, output, rooted, prim, links, phase>>

Drop(i) ==
  /\ Of(i, "dropped") /\ Parent(i)
  /\ Descend("drop", i)
  /\ UNCHANGED <<input, aborted, output, rooted, prim, links, phase>>

\* The primaries found are hung to the vertex or to the particle they come from.
Hung == [n \in DOMAIN top.found |-> [child |-> top.found[n], at |-> top.of]]

Returned == Walking /\ top.left = {}
Found(answer) ==
  stack' = <<[stack[2] EXCEPT !.found = @ \o answer]>> \o Tail(Tail(stack))

EndRoot ==
  /\ Returned /\ top.call = "vertex"
  /\ links' = links \o Hung
  /\ stack' = <<>>
  /\ UNCHANGED <<input, aborted, output, rooted, visited, prim, phase>>

EndDecay ==
  /\ Returned /\ top.call = "decay"
  /\ links' = links \o Hung
  /\ Found(top.of)
  /\ UNCHANGED <<input, aborted, output, rooted, visited, prim, phase>>

\* Mutant: what a rejected particle was found to hold is hung nowhere.
EndDrop_lost ==
  /\ Returned /\ top.call = "drop"
  /\ Found(<<>>)
  /\ UNCHANGED <<input, aborted, output, rooted, visited, prim, links, phase>>

EndDrop ==
  /\ Returned /\ top.call = "drop"
  /\ Found(top.found)
  /\ UNCHANGED <<input, aborted, output, rooted, visited, prim, links, phase>>

EndPrimaries ==
  /\ phase = "primaries" /\ stack = <<>> /\ Root \subseteq rooted
  /\ phase' = "done"
  /\ UNCHANGED <<input, aborted, output, walk>>

GetRelevant(i) ==
  Skip(i) \/ Stable(i) \/ Ignore(i) \/ Refuse(i) \/ Decay(i) \/ Drop(i)

Next ==
  \/ ReadFails \/ Add \/ AddTwice
  \/ StartMerge \/ (\E m \in Mask : Merge(m)) \/ EndMerge
  \/ (\E x \in Root : StartRoot(x)) \/ EndRoot \/ EndDecay \/ EndDrop
  \/ (\E i \in DOMAIN particles : GetRelevant(i))
  \/ EndPrimaries

-----------------------------------------------------------------------------
(***************************************************************************)
(* Properties.                                                             *)
(***************************************************************************)
\* Everything is in its place: getRelevant never calls itself deeper than there
\* are particles (each call is of another one), it was called for every particle
\* that has a primary, and it hangs primaries to vertices and to primaries.
TypeOK ==
  /\ actions \in ActionLists /\ calls \in 0 .. Len(actions)
  /\ DOMAIN interactions \subseteq {actions[n] : n \in 1 .. calls}
  /\ aborted \in BOOLEAN /\ merged \subseteq DOMAIN interactions
  /\ DOMAIN vertices \subseteq merged /\ rooted \subseteq Root
  /\ offset \in Nat /\ nextPID \in {-2, offset - 1}
  /\ prim \subseteq visited /\ visited \subseteq DOMAIN particles
  /\ \A n \in DOMAIN links :
       /\ links[n].child \in prim
       /\ links[n].at \in {<<i>> : i \in prim} \cup {<<x[1], x[2]>> : x \in rooted}
  /\ Len(stack) <= 1 + Cardinality(DOMAIN particles)
  /\ stack # <<>> => phase \in {"primaries", "failed"}
  /\ phase \in {"generate", "merge", "primaries", "done", "failed"}

Origin(S) == {particles[j].origin : j \in S}
From(m, S) == {<<m, i>> : i \in S}

\* mergeInteractions: of every merged interaction each particle is in the output
\* exactly once, under an identifier no other particle has, and its parents, its
\* daughters and the vertices are those of the input, not those of another
\* interaction that was moved to the same identifiers; the next identifier is free.
MergedWhole ==
  /\ \A m \in merged : \A i \in DOMAIN interactions[m].particles :
       LET p == interactions[m].particles[i]
           copies == {j \in DOMAIN particles : particles[j].origin = <<m, i>>}
       IN  /\ Cardinality(copies) = 1
           /\ \A j \in copies :
                /\ particles[j].kind = p.kind
                /\ Origin(particles[j].parents) = From(m, p.parents)
                /\ Origin(particles[j].daughters) = From(m, p.daughters)
  /\ \A m \in merged :
       LET v == interactions[m].vertices
       IN  /\ v # <<>> <=> m \in DOMAIN vertices
           /\ v # <<>> => /\ Len(vertices[m]) = Len(v)
                          /\ \A k \in DOMAIN v :
                               /\ Origin(vertices[m][k].in) = From(m, v[k].in)
                               /\ Origin(vertices[m][k].out) = From(m, v[k].out)
  /\ phase \in {"primaries", "done"} => \A j \in DOMAIN particles : j <= nextPID

\* The particles found in S and, in place of those Geant4 cannot know, below them.
InPlaceOf(S) ==
  {i \in DOMAIN particles :
     \A X \in SUBSET DOMAIN particles :
       (S \subseteq X /\ \A j \in X : particles[j].kind = "dropped"
                                    => particles[j].daughters \subseteq X) => i \in X}

\* A daughter whose parents the reader took away: the walk begins with it as well.
Stripped(i) ==
  particles[i].parents = {} /\ \E j \in DOMAIN particles : i \in particles[j].daughters

\* generatePrimaries hands each primary to Geant4 once: never is one hung to two
\* mothers or vertices, although particles are reached along many ways, but for a
\* daughter without parents, which may be hung to a vertex after it was found
\* elsewhere; and when it ends each hangs where it belongs, at the nearest particle
\* or vertex above it that Geant4 knows of.
AttachedOnce ==
  /\ \A n, o \in DOMAIN links :
       n < o /\ links[n].child = links[o].child =>
         Stripped(links[o].child) /\ Len(links[o].at) = 2
  /\ phase = "done" =>
       /\ prim = {links[n].child : n \in DOMAIN links}
       /\ \A n \in DOMAIN links :
            LET at == links[n].at
            IN  links[n].child \in
                  IF Len(at) = 1 THEN InPlaceOf(particles[at[1]].daughters)
                  ELSE InPlaceOf({x[3] : x \in Leaving(at[1], at[2])})

\* What a walk over the record from the particles without parents can reach, if it
\* goes on below the particles that decay and those Geant4 cannot know.
Reached ==
  {i \in DOMAIN particles :
     \A X \in SUBSET DOMAIN particles :
       ({x[3] : x \in Root} \subseteq X
        /\ \A j \in X : particles[j].kind \in {"decayed", "dropped"}
                          => particles[j].daughters \subseteq X) => i \in X}

\* generatePrimaries misses nothing, whatever the order in which particles are
\* visited and whichever were visited before: in the end exactly the stable and
\* the decaying particles that can be reached are primaries, and a record with a
\* stable particle that has daughters is refused exactly if that can be reached.
PrimariesComplete ==
  LET Refused == {i \in Reached : particles[i].kind = "broken" /\ Parent(i)}
  IN  /\ phase = "done" =>
           /\ Refused = {}
           /\ prim = {i \in Reached : \/ particles[i].kind = "stable"
                                      \/ particles[i].kind = "decayed" /\ Parent(i)}
      /\ (phase = "failed" /\ stack # <<>>) => Refused # {}

\* Loops in the record do not keep the walk from ending: every event is generated
\* or given up.
Ends == <>(phase \in {"done", "failed"})

\* One thread generates the event.
Spec == Init /\ [][Next]_vars /\ WF_vars(Next)
================================================================================
