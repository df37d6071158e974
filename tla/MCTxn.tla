------------------------------- MODULE MCTxn -------------------------------
(* Small instances of Txn. *)
EXTENDS Txn, TLC

CONSTANTS t1, t2

One == {t1}
Two == {t1, t2}
Alike == Permutations(Two)
=============================================================================
