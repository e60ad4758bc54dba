---------------------------- MODULE ParticleRecord ----------------------------
(***************************************************************************)
(* What the Monte Carlo record promises to the hits of an event: whatever  *)
(* tracks are left out of the record, at the end of their tracking or when *)
(* the record is reduced, a hit belongs to the particle of its own track   *)
(* if that is kept, else to that of the nearest ancestor which is.         *)
(***************************************************************************)
EXTENDS Integers, FiniteSets

CONSTANTS
  Track       \* track identifiers, a parent has a smaller one than a daughter

VARIABLES
  parent,     \* parent[t]: the track t comes from, 0 for one from a vertex
  primaries,  \* tracks of particles of the generator
  kept,       \* tracks with a particle in the record
  answer      \* answer[t]: the track in the record a hit of t is credited to

vars == <<parent, primaries, kept, answer>>

Nearest(mother, K) ==
  LET up[t \in Track \cup {0}] ==
        IF t \in K \cup {0} THEN t ELSE up[mother[t]]
  IN  up

Init ==
  /\ parent = [t \in Track |-> 0]
  /\ primaries \subseteq Track
  /\ kept = {}
  /\ answer = <<>>

\* A track was simulated, to its end or until it was suspended.  Its secondaries
\* get their parent, some of them may be products the generator has assigned to it.
Follow(t) ==
  /\ kept' \in {kept, kept \cup {t}}
  /\ t \in primaries => t \in kept'
  /\ DOMAIN answer' = DOMAIN answer \cup {t}
  /\ \A u \in Track : parent'[u] \in {parent[u], t}
  /\ \A u \in DOMAIN answer : parent'[u] = parent[u]
  /\ primaries \subseteq primaries' /\ primaries' \cap DOMAIN answer' \subseteq primaries

\* The record is reduced: secondaries are left out.
Reduce ==
  /\ kept' \subseteq kept /\ primaries \cap kept \subseteq kept'
  /\ DOMAIN answer' = DOMAIN answer
  /\ parent' = parent /\ primaries' = primaries

Next ==
  /\ Reduce \/ \E t \in Track : Follow(t)
  /\ parent' \in [Track -> Track \cup {0}] /\ primaries' \subseteq Track
  /\ answer' = [t \in DOMAIN answer' |-> Nearest(parent', kept')[t]]

Spec == Init /\ [][Next]_vars
===============================================================================
