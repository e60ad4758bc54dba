------------------------- MODULE MCDependencyHandler -------------------------
(***************************************************************************)
(* Instances of DependencyHandler: every dependency graph of the kind the  *)
(* run asks about.  The derived condition number i has the ingredient      *)
(* number i of its own in the user pool.                                   *)
(***************************************************************************)
EXTENDS DependencyHandler

CONSTANTS d1, d2, d3, r1, r2, r3, unknown

Own == [d \in Todo |-> CASE d = d1 -> r1 [] d = d2 -> r2 [] d = d3 -> r3]

MCPoolIov ==
  [k \in Pool |-> CASE k = r1 -> Interval(1, 3) [] k = r2 -> Interval(1, 2)
                    [] k = r3 -> Interval(2, 3)]

MCValidity == Discrete(2)

SelfReachable(access, d) ==
  \A S \in SUBSET Todo :
    access[d] \cap Todo \subseteq S /\ (\A e \in S : access[e] \cap Todo \subseteq S) => d \in S

\* The documented use: derived conditions are accessed at resolve.
ResolveGraphs ==
  {[create |-> [d \in Todo |-> {}], resolve |-> [d \in Todo |-> access[d] \cup {Own[d]}]] :
     access \in [Todo -> SUBSET Todo]}

AcyclicGraphs == {g \in ResolveGraphs : \A d \in Todo : ~SelfReachable(g.resolve, d)}

\* Two conditions whose callbacks access anything in either call, something
\* unknown included; a third one is left alone.
Pair == Todo \ {d3}

AnyGraphs ==
  {[create |-> [d \in Todo |-> IF d \in Pair THEN c[d] ELSE {}],
    resolve |-> [d \in Todo |-> IF d \in Pair THEN r[d] \cup {Own[d]} ELSE {Own[d]}]] :
     c \in [Pair -> SUBSET (Pair \cup {r3})], r \in [Pair -> SUBSET (Pair \cup {unknown})]}

MCGraphs == AcyclicGraphs \cup AnyGraphs
=============================================================================
