------------------------------ MODULE MCProbe -------------------------------
(* A small instance of Probe for TLC.                                      *)
EXTENDS Probe

\* One command that changes a setting and one that reads it.
MCWanted == {Set("name", Test), Get("name")}
=============================================================================
