---------------------------- MODULE MCGeant4Input ----------------------------
(***************************************************************************)
(* Instances of Geant4Input: the input with mask 0 is an event of one or   *)
(* two particles, or empty; the one with mask 1 has three particles of all *)
(* kinds in all acyclic family trees, and some with more or with a loop.   *)
(***************************************************************************)
EXTENDS Geant4Input, SequencesExt

\* As the readers do it: a vertex for every particle without parents.
Event(kinds, edges) ==
  LET ids == DOMAIN kinds
      parents(i) == {j \in ids : <<j, i>> \in edges}
      roots == SetToSortSeq({i \in ids : parents(i) = {}}, <)
  IN  [particles |-> [i \in ids |-> [kind |-> kinds[i], parents |-> parents(i),
                                     daughters |-> {j \in ids : <<i, j>> \in edges}]],
       vertices |-> [k \in DOMAIN roots |-> [in |-> {}, out |-> {roots[k]}]]]

Events(n, graphs) == {Event(kinds, edges) : kinds \in [0 .. n - 1 -> Kind], edges \in graphs}

\* All families without loops in which particles come before their daughters.
Forward == SUBSET {<<0, 1>>, <<0, 2>>, <<1, 2>>}

\* Two particles that are daughters of each other, below a third.
Loop == {{<<0, 1>>, <<1, 2>>, <<2, 1>>}}

\* A particle with two mothers, which have one; and with one mother in a longer line.
Diamond == {{<<0, 1>>, <<0, 2>>, <<1, 3>>, <<2, 3>>}, {<<0, 1>>, <<1, 2>>, <<2, 3>>, <<1, 3>>}}

Small ==
  {Event(<<>>, {}), Event([i \in {0} |-> "stable"], {}),
   Event([i \in 0 .. 1 |-> IF i = 0 THEN "decayed" ELSE "stable"], {<<0, 1>>})}
\* Two particles without parents, from one vertex, that share a daughter.
OneVertex ==
  {[e EXCEPT !.vertices = <<[in |-> {}, out |-> {0, 1}]>>] :
     e \in Events(3, {{<<0, 2>>, <<1, 2>>}})}

\* fix_particles of the HepMC reader: the daughters of particles without parents lose
\* theirs and are no longer GEN_STABLE, and what has no parents then leaves one vertex.
Strip(e) ==
  LET ids == DOMAIN e.particles
      free == {i \in ids : e.particles[i].parents = {}}
      lost == UNION {e.particles[i].daughters : i \in free}
  IN  [particles |-> [i \in ids |-> IF i \in lost THEN [e.particles[i] EXCEPT !.parents = {}]
                                                ELSE e.particles[i]],
       vertices |-> <<[in |-> {}, out |-> free \cup lost]>>]

Fixed ==
  {Strip(e) : e \in {d \in Events(3, {{<<0, 1>>, <<1, 2>>}, {<<1, 0>>, <<0, 2>>},
                                       {<<0, 1>>, <<2, 1>>}}) :
                      \A i \in 0 .. 2 : d.particles[i].kind \in {"stable", "vetoed"} =>
                        \A j \in d.particles[i].parents : d.particles[j].parents # {}}}

Large == Events(3, Forward \cup Loop) \cup OneVertex \cup Fixed
           \cup {e \in Events(4, Diamond) : e.particles[3].kind # "vetoed"}

MCInputs == (0 :> Small) @@ (1 :> Large)

MCActionLists == {<<1, 0>>, <<0, 0>>}
=============================================================================
