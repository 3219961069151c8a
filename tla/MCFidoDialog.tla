---------------------------- MODULE MCFidoDialog ----------------------------
(***************************************************************************)
(* Two channels: on one a host with a U2F and a CTAP2 request, on the      *)
(* other a host with another U2F request and another CTAP2 request.        *)
(***************************************************************************)
EXTENDS FidoDialog

CONSTANTS u1, u2, c1, c2, chan1, chan2

MCCid == [r \in {u1, u2, c1, c2} |-> IF r \in {u1, c1} THEN chan1 ELSE chan2]
=============================================================================
