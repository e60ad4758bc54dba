-------------------------- MODULE ConditionsService --------------------------
(***************************************************************************)
(* What a client of the conditions store relies on: a slice it prepared    *)
(* and holds answers for one time, with true values only, and nothing but  *)
(* the client's own next call on the slice changes what it reads.          *)
(***************************************************************************)
EXTENDS Integers, FiniteSets

CONSTANTS
  Slices,
  Times,
  NoTime,      \* the time of a slice that is not held
  Wanted,      \* Wanted[s]: names of the conditions the client of s asks for
  Answers      \* Answers[t]: the conditions that may be served for time t

VARIABLE view  \* view[s]: the time s answers for, what can be read, what lacks

NotHeld == [time |-> NoTime, readable |-> {}, missing |-> 0]

Init == view = [s \in Slices |-> NotHeld]

\* An answer to s for time t: one condition per name, all true, and an honest
\* count of the wanted conditions that are not there.
Answer(s, t, R, n) ==
  /\ R \subseteq Answers[t]
  /\ \A c, d \in R : c.name = d.name => c = d
  /\ n = Cardinality(Wanted[s] \ {c.name : c \in R})

Serve(s, t) ==
  /\ Answer(s, t, view'[s].readable, view'[s].missing)
  /\ view' = [view EXCEPT ![s] =
       [time |-> t, readable |-> view'[s].readable, missing |-> view'[s].missing]]

Release(s) == view' = [view EXCEPT ![s] = NotHeld]

Next == \E s \in Slices : Release(s) \/ \E t \in Times : Serve(s, t)

Spec == Init /\ [][Next]_view
=============================================================================
