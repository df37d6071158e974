------------------------------- MODULE Store -------------------------------
(***************************************************************************)
(* What the library promises of a database, seen by whoever opens it next: *)
(* a set of transactions, which only grows, by one whole transaction at a  *)
(* time.  Opening, closing, merging, recovering, failing and crashing are  *)
(* not seen at all.                                                        *)
(***************************************************************************)
CONSTANT Txns      \* the transactions
VARIABLE visible   \* those that were committed

Init == visible = {}

Commit(k) ==
    /\ k \notin visible
    /\ visible' = visible \cup {k}

Next == \E k \in Txns : Commit(k)

Spec == Init /\ [][Next]_visible
=============================================================================
