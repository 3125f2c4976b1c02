---------------------------- MODULE MCFramePath -----------------------------
(* Small instances of FramePath for TLC.                                   *)
EXTENDS MailboxRefinement, TLC

\* Consumers are interchangeable.
Symmetry == Permutations(Consumers)
=============================================================================
