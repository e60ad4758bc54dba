--------------------------- MODULE MCConditionsLocks ---------------------------
(* ConditionsLocks on small instances.                                     *)
EXTENDS ConditionsLocks

MCDeps == [d \in {"d"} |-> {"a", "b"}]

\* Name "a" changes at time 2, "b" never does, "d" is derived from both.
MCValidity ==
  [c \in {"a", "b", "d"} |-> [x \in {1, 2} |-> IF c = "b" THEN {1, 2} ELSE {x}]]
===============================================================================
