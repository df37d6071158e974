------------------------------- MODULE MCIter -------------------------------
(* A small instance of Iter. *)
EXTENDS Iter, TLC

CONSTANTS t1, t2

Two == {t1, t2}
Alike == Permutations(Two)

Rec(k, v) == [key |-> k, value |-> v]

\* Shorter than a header, and as long as one; one without a key.
Kinds == {Rec(1, 1), Rec(0, 1)}

\* An empty database; sections with several records, and empty ones before,
\* between and behind them.
Logs == {<<>>,
         <<<<Rec(1, 1), Rec(1, 1)>>, <<>>, <<Rec(0, 1)>>>>,
         <<<<>>, <<Rec(0, 1), Rec(1, 1)>>, <<>>>>}
=============================================================================
