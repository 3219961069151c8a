------------------------------ MODULE MCSignTx ------------------------------
(***************************************************************************)
(* An instance of SignTx: two inputs, two outputs, two accounts.  One coin *)
(* belongs to this device, the other one to the same account, to the other *)
(* account or to somebody else.                                            *)
(***************************************************************************)
EXTENDS SignTx, SequencesExt

CONSTANTS c1, c2, a1, a2

Coin(type, owner, amount) == [script |-> [type |-> type, owner |-> owner], amount |-> amount]

MCTruths ==
  {[c \in Coins |-> IF c = c1 THEN Coin(p[1], a1, 2) ELSE Coin(p[2], p[3], 1)] :
     p \in {<<"segwit", "legacy", a2>>, <<"taproot", "segwit", a1>>,
            <<"taproot", "taproot", Other>>}}

MCClaims ==
  {Coin("segwit", a1, 1), Coin("segwit", a1, 2), Coin("segwit", a2, 2),
   Coin("legacy", a2, 1), Coin("legacy", a2, 2),
   Coin("taproot", a1, 1), Coin("taproot", a1, 2), Coin("taproot", Other, 1)}

\* Signatures of earlier sessions matter only in a session for the same transaction.
\* A session for another one is the same as without them, so they are left out of
\* the search there.
GivenMatters ==
  \A old \in given : IsPrefix(CoinsOf(ins), old.coins) /\ IsPrefix(outs, old.outs)
=============================================================================
