---------------------------- MODULE MCDigiKernel ----------------------------
(***************************************************************************)
(* Instances of DigiKernel.                                                *)
(***************************************************************************)
EXTENDS DigiKernel

CONSTANTS p1, p2

\* An empty file between two that have entries; three entries for three events
\* of the first run, none is left for a second one.
MCFiles == <<1, 0, 2>>

AllFaults == {"start", "input", "action", "output", "end", "user"}
=============================================================================
