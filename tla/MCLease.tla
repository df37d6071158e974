------------------------------ MODULE MCLease ------------------------------
(* Small instances of Lease. *)
EXTENDS Lease, TLC

CONSTANTS p1, p2, t1, t2, t3

MCIndex == 0..(MaxCount - 1)

\* Two processes with a thread each.
TwoProcs == {p1, p2}
TwoThreads == {t1, t2}
TwoProcOf == (t1 :> p1) @@ (t2 :> p2)

\* Two threads of a process beside one of another.
ThreeThreads == {t1, t2, t3}
ThreeProcOf == (t1 :> p1) @@ (t2 :> p1) @@ (t3 :> p2)
Alike == Permutations(TwoThreads)

NoLen == [i \in {} |-> 0]
OneLen == [i \in {0} |-> 1]
=============================================================================
