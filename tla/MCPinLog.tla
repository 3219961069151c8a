------------------------------ MODULE MCPinLog ------------------------------
(***************************************************************************)
(* An instance of PinLog: three words of four attempts, three tries.       *)
(* Two PINs besides the empty one are interchangeable.                     *)
(***************************************************************************)
EXTENDS PinLog, TLC

Symmetry == Permutations(Pins \ {PIN_EMPTY})
=============================================================================
