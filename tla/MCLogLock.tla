----------------------------- MODULE MCLogLock -----------------------------
(* Small instances of LogLock. *)
EXTENDS LogLock, TLC

CONSTANTS p1, p2, t1, t2, t3

\* Two threads in one process, one in another.
MCProcs == {p1, p2}
MCThreads == {t1, t2, t3}
MCProcOf == (t1 :> p1) @@ (t2 :> p1) @@ (t3 :> p2)

\* With Span = 2 the nodes of entries 0 and 1, or of 1 and 2, overlap, and
\* entry 2 lies past the end of the node of entry 0.
WideIndex == {0, 1, 2}
MCIndex == {0, 1}

\* The threads of the first process behave alike.
Alike == Permutations({t1, t2})
=============================================================================
