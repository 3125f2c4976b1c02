---------------------------- MODULE MCConnection ----------------------------
(* Small instances of Connection for TLC.                                  *)
EXTENDS SessionRefinement, TLC

\* Client objects and tasks are interchangeable.
Symmetry == Permutations(Clients) \cup Permutations(Tasks)
=============================================================================
