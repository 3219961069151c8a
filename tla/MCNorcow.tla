------------------------------ MODULE MCNorcow ------------------------------
(***************************************************************************)
(* Instances of Norcow for model checking: three keys, values of one and   *)
(* two cells, and a sector that three items fill, so that sets fail and    *)
(* compact often, and compaction has two other entries to copy.            *)
(***************************************************************************)
EXTENDS Norcow, TLC

MCBits == {1, 2}

MCValues == {<<{1}>>, <<{2}>>, <<{}, {1}>>, <<{1}, {2}>>}

SmallValues == {<<{1}>>, <<{2}>>}

\* Sectors of storage versions 0 and 2.  In version 0 an old item is not deleted
\* when its key is set again.
Sector(cells) == [o \in 0 .. Size - 1 |-> IF o < Len(cells) THEN cells[o + 1] ELSE Blank]

LegacyV2(k, z) ==
  Sector(<<Magic, Version(2), Prefix(k, 1), Data({1}), Prefix(z, 1), Data({2})>>)

LegacyV0(k, z) ==
  Sector(<<MagicV0, Prefix(k, 1), Data({1}), Prefix(z, 1), Data({1}), Prefix(k, 1), Data({2})>>)

MCLegacy ==
  UNION {{LegacyV2(p[1], p[2]), LegacyV0(p[1], p[2])} : p \in {q \in Keys \X Keys : q[1] # q[2]}}

Symmetry == Permutations(Keys)

=============================================================================
