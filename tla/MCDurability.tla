---------------------------- MODULE MCDurability ----------------------------
(* Small instances of Durability. *)
EXTENDS Durability, TLC

CONSTANTS k1, k2

Two == {k1, k2}

\* Transactions are alike.
Alike == Permutations(Txns)
=============================================================================
