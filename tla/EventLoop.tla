------------------------------- MODULE EventLoop -------------------------------
(***************************************************************************)
(* What DigiKernel::run promises: the events of a run are begun in the     *)
(* order of their numbers, each of them once, no more than limit of them   *)
(* at a time and none after a stop; run returns when nothing is in flight  *)
(* and there is nothing left to begin, and every event begun was closed.   *)
(***************************************************************************)
EXTENDS Integers, FiniteSets

CONSTANTS
  NumEvents,  \* events requested for a run
  Limits      \* how many events a run may have in flight: one of these

VARIABLES
  limit,      \* events that may be in flight in this run
  active,     \* run was called and did not return
  begun,      \* number of events begun in this run
  inFlight,   \* numbers of the events begun and not closed
  stopped     \* the run was asked to stop

vars == <<limit, active, begun, inFlight, stopped>>

Init ==
  /\ ~active /\ begun = 0 /\ inFlight = {}
  /\ stopped \in BOOLEAN /\ limit \in Limits

Run ==
  /\ ~active
  /\ limit' \in Limits
  /\ active' = TRUE
  /\ begun' = 0
  /\ inFlight' = {}
  /\ stopped' = FALSE

Begin ==
  /\ active /\ ~stopped
  /\ begun < NumEvents
  /\ Cardinality(inFlight) < limit
  /\ begun' = begun + 1
  /\ inFlight' = inFlight \cup {begun + 1}
  /\ UNCHANGED <<limit, active, stopped>>

\* An event is closed, at its end or by an exception, which asks for a stop.
Close(e) ==
  /\ inFlight' = inFlight \ {e}
  /\ stopped' \in {stopped, TRUE}
  /\ UNCHANGED <<limit, active, begun>>

Stop ==
  /\ stopped' = TRUE
  /\ UNCHANGED <<limit, active, begun, inFlight>>

Return ==
  /\ active /\ inFlight = {}
  /\ stopped \/ begun = NumEvents
  /\ active' = FALSE
  /\ UNCHANGED <<limit, begun, inFlight, stopped>>

Next == Run \/ Begin \/ (\E e \in inFlight : Close(e)) \/ Stop \/ Return

\* A run that was called returns.
Spec == Init /\ [][Next]_vars /\ (active ~> ~active)
================================================================================
