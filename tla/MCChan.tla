------------------------------- MODULE MCChan -------------------------------
(***************************************************************************)
(* A small instance of Chan for TLC.                                       *)
(***************************************************************************)
EXTENDS Chan, TLC

Symmetry == Permutations(Tasks)

=============================================================================
