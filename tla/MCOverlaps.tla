----------------------------- MODULE MCOverlaps -----------------------------
(* A small instance of Overlaps for TLC.                                   *)
EXTENDS Overlaps, TLC

\* Client objects and tasks are interchangeable.
Symmetry == Permutations(Clients) \cup Permutations(Tasks)
=============================================================================
