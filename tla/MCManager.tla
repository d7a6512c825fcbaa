------------------------------- MODULE MCManager ------------------------------
(***************************************************************************)
(* Symmetry of the workers and of the event types for TLC.                 *)
(***************************************************************************)
EXTENDS Manager

Symmetry == Permutations(Worker) \cup Permutations(EventType)
=============================================================================
