---------------------------- MODULE MCEventLoop ----------------------------
(***************************************************************************)
(* A small instance of EventLoop for TLC.                                  *)
(***************************************************************************)
EXTENDS EventLoop, TLC

Symmetry == Permutations(Tasks \ Boot) \cup Permutations(Ifaces)

=============================================================================
