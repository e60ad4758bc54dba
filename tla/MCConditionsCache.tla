-------------------------- MODULE MCConditionsCache --------------------------
(***************************************************************************)
(* Instances of ConditionsCache.  With two times, r1 keeps its value over  *)
(* both, r2 and with it the derived condition d1 changes between them.     *)
(***************************************************************************)
EXTENDS ConditionsCache, FiniteSetsExt

CONSTANTS a, b, r1, r2, d1

MCDeps == [d \in Derived |-> Raw]

\* Slice b lacks what d1 depends on but for r2: its prepare may fail.
MCWanted == [s \in Slices |-> IF s = a THEN Raw \cup {d1} ELSE {r2, d1}]

\* A change of r1 between 2 and 3 and one of r2 between 1 and 2: d1 changes twice.
Staggered ==
  [k \in Raw |-> [t \in Times |->
     IF k = r1 THEN (IF t = 3 THEN Discrete(3) ELSE Interval(1, 2))
               ELSE (IF t = 1 THEN Discrete(1) ELSE Interval(2, 3))]]

MCDatabase ==
  [k \in Raw |-> [t \in Times |-> IF k = r1 THEN Interval(1, 2) ELSE Discrete(t)]]

\* Pools that are created again while a slice points to the old one: of the first
\* time only, or of every key.
FirstTime == {Discrete(1)}
EveryKey == Key

Option(load, output, cleaner) == [load |-> load, output |-> output, cleaner |-> cleaner]

\* ConditionsManager_Type1 loads by default and has no cleanup handler.
Default == {Option(TRUE, FALSE, FALSE)}
AllSettings == {Option(l, o, c) : l, o, c \in BOOLEAN}

\* The closed form of a sequence of intersections is what the loops compute.
ASSUME IntersectionIsFold ==
  \A S \in SUBSET Key : Intersection(S) = FoldSet(iov_intersection, key_forever, S)
=============================================================================
