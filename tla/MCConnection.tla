---------------------------- MODULE MCConnection ----------------------------
(* Small instances of Connection. *)
EXTENDS Connection, TLC

CONSTANTS p1, p2, p3

F(create, nosync) == [create |-> create, nosync |-> nosync]

Three == {p1, p2, p3}

\* An ordinary connection that may create the database, and a NOSYNC one.
Mixed == {F(TRUE, FALSE), F(FALSE, TRUE)}

\* Processes behave alike.
Alike == Permutations(Procs)
=============================================================================
