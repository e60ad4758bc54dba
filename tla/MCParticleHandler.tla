--------------------------- MODULE MCParticleHandler ---------------------------
(* ParticleHandler on small events.                                          *)
EXTENDS ParticleHandler

(* Particle 1 is at a vertex, it decays to 2 and 3; the first parent of 3 is not 1, *)
(* and Geant4 never sees 0, nor 2 and 3 if the track of 1 does not live to decay.   *)
MCParents == [i \in 0 .. 3 |-> CASE i = 0 -> {} [] i = 1 -> {0} [] i = 2 -> {1} [] i = 3 -> {0, 1}]
MCDaughters == [i \in 0 .. 3 |-> {j \in 0 .. 3 : i \in MCParents[j]}]
MCProducts == [i \in 0 .. 3 |-> IF i = 1 THEN {2, 3} ELSE {}]

MCKinds ==
  {[above |-> TRUE,  process |-> FALSE, start |-> "calorimeter"],
   [above |-> FALSE, process |-> TRUE, start |-> "tracker"]}

Quiet == [hits |-> {}, marks |-> {}, secondaries |-> 0, end |-> "calorimeter",
          decays |-> FALSE, suspended |-> FALSE, info |-> FALSE]

MCFates ==
  {Quiet,
   [Quiet EXCEPT !.hits = {"TRACKER"}, !.end = "tracker", !.secondaries = 1],
   [Quiet EXCEPT !.suspended = TRUE, !.secondaries = 1, !.hits = {"TRACKER"}],
   [Quiet EXCEPT !.suspended = TRUE, !.hits = {"CALO"}],
   [Quiet EXCEPT !.decays = TRUE],
   [Quiet EXCEPT !.marks = {"ALWAYS"}, !.info = TRUE]}

HitsLaterFates ==
  {Quiet,
   [Quiet EXCEPT !.hits = {"TRACKER"}],
   [Quiet EXCEPT !.secondaries = 1],
   [Quiet EXCEPT !.suspended = TRUE]}
===============================================================================
