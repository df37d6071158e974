--------------------------- MODULE LogLockProofs ---------------------------
(***************************************************************************)
(* Proofs about LogLock, for any number of processes, threads and entries  *)
(* and any span of a node: the list of nodes stays a sorted chain while    *)
(* threads walk and extend it, and the loads and swaps of logdb_log_lock   *)
(* and logdb_log_unlock implement the steps of LockTable.                  *)
(***************************************************************************)
EXTENDS LogLock, TLAPS

Places == {"idle", "walk", "cas", "fcntl", "load", "unwalk"}

Types ==
    /\ next \in [Procs -> [Index \cup {Head} -> Index \cup {Null}]]
    /\ cell \in [Procs -> [Index -> [Index -> Int]]]
    /\ record \in [Index -> [Procs -> {"none", "read", "write"}]]
    /\ holds \in [Threads -> SUBSET (Index \X {"read", "write"})]
    /\ pc \in [Threads -> Places]
    /\ index \in [Threads -> Nat]
    /\ mode \in [Threads -> {"read", "write"}]
    /\ dest \in [Threads -> Index \cup {Head}]
    /\ lock \in [Threads -> Index \cup {Null}]
    /\ value \in [Threads -> Int]

\* d comes before s in the list.
Before(d, s) == d = Head \/ (d \in Index /\ d < s)

\* The list of p is sorted, a node with a successor is in it, and no node lies
\* between one and its successor.
Chained(p) ==
    /\ \A d \in Linked(p) : next[p][d] # Null => d < next[p][d]
    /\ \A d \in Index : next[p][d] # Null => d \in Linked(p)
    /\ \A d \in Linked(p) \cup {Head} : \A s \in Linked(p) :
        Before(d, s) => next[p][d] # Null /\ next[p][d] <= s

\* A node whose array has the counter of entry i.
Covered(p, i) == \E s \in Linked(p) : s <= i /\ i < s + Span

\* A walk has passed only nodes that end before the entry, and has still the
\* right to ask for it.
Walking(t) ==
    /\ dest[t] # Head => dest[t] \in Linked(ProcOf[t]) /\ dest[t] + Span <= index[t]
    /\ mode[t] \in Modes
    /\ Cardinality(holds[t]) < MaxHolds
    /\ <<index[t], "read">> \notin holds[t]
    /\ mode[t] = "read" => <<index[t], "write">> \notin holds[t]

\* What is known of a thread, by the place it is at.
ThreadInv(t) ==
    /\ pc[t] # "idle" => index[t] \in Index
    /\ lock[t] # Null => lock[t] \in Linked(ProcOf[t])
    /\ pc[t] = "walk" => Walking(t)
    /\ pc[t] \in {"cas", "fcntl"} =>
        lock[t] # Null /\ lock[t] <= index[t] /\ index[t] < lock[t] + Span
    /\ pc[t] \in {"load", "unwalk"} => Covered(ProcOf[t], index[t])
    /\ pc[t] = "unwalk" => lock[t] # Null
    /\ \A l \in holds[t] : Covered(ProcOf[t], l[1])

ListInv ==
    /\ Types
    /\ \A p \in Procs : Chained(p)
    /\ \A t \in Threads : ThreadInv(t)
-----------------------------------------------------------------------------
(***************************************************************************)
(* The list.                                                               *)
(***************************************************************************)

\* Entries are numbers, and a node has room for one.
LEMMA Numbers == (\A i \in Index : i \in Nat) /\ Span \in Nat /\ Span > 0
<1>1. \A i \in Index : i \in Nat
  BY PointerAssumption DEF PointerAssumption
<1>2. Span \in Nat /\ Span > 0
  BY PointerAssumption DEF PointerAssumption
<1> QED
  BY <1>1, <1>2

\* The invariant holds at the start.
LEMMA ListInitInv == Init => ListInv
<1> SUFFICES ASSUME Init PROVE ListInv
  OBVIOUS
<1> USE PointerAssumption DEF PointerAssumption
<1>1. Types
  BY DEF Init, Types, Places
<1>2. ASSUME NEW p \in Procs PROVE Linked(p) = {}
  BY DEF Init, Linked
<1>3. \A p \in Procs : Chained(p)
  <2>1. ASSUME NEW p \in Procs, NEW d \in Index PROVE next[p][d] = Null
    BY DEF Init
  <2> QED
    BY <1>2, <2>1 DEF Chained
<1>4. \A t \in Threads : ThreadInv(t)
  BY DEF Init, ThreadInv
<1> QED
  BY <1>1, <1>3, <1>4 DEF ListInv

\* A thread has found the place for its node: nothing is there, and what a
\* walk for its entry might stop at lies behind.
LEMMA InsertPlace ==
  ASSUME ListInv, NEW t \in Threads, pc[t] = "walk", Missing(t), Swappable(t)
  PROVE  LET p == ProcOf[t] IN
         /\ index[t] \in Index \ Linked(p)
         /\ dest[t] # index[t]
         /\ dest[t] \in Linked(p) \cup {Head} /\ Before(dest[t], index[t])
         /\ next[p][dest[t]] = lock[t] /\ next[p][index[t]] = Null
         /\ lock[t] # Null => lock[t] \in Linked(p) /\ index[t] < lock[t]
         /\ \A s \in Linked(p) : s < index[t] \/ (lock[t] # Null /\ lock[t] <= s)
<1> DEFINE p == ProcOf[t]
           i == index[t]
           d == dest[t]
           l == lock[t]
<1> USE PointerAssumption DEF PointerAssumption
<1>1. Types /\ Chained(p) /\ ThreadInv(t) /\ p \in Procs
  BY DEF ListInv, Types
<1>2. i \in Index /\ Walking(t) /\ next[p][d] = l
  BY <1>1 DEF ThreadInv, Swappable
<1>3. d \in Linked(p) \cup {Head} /\ Before(d, i) /\ d # i
  <2>1. CASE d = Head
    BY <1>2, <2>1 DEF Before
  <2>2. CASE d # Head
    <3>1. d \in Linked(p) /\ d \in Index /\ d + Span <= i
      BY <1>2, <2>2 DEF Walking, Linked
    <3>2. d \in Nat /\ i \in Nat /\ Span \in Nat /\ Span > 0
      BY <1>2, <3>1, Numbers
    <3>3. ASSUME NEW a \in Nat, NEW b \in Nat, a + Span <= b PROVE a < b /\ a # b
      BY <3>2, <3>3
    <3>4. d < i /\ d # i
      BY <3>1, <3>2, <3>3
    <3> QED
      BY <3>1, <3>4 DEF Before
  <2> QED
    BY <2>1, <2>2
<1>4. l # Null => l \in Linked(p) /\ l \in Index /\ i < l
  <2>1. l # Null => l \in Linked(p) /\ l \in Index
    BY <1>1 DEF ThreadInv, Linked
  <2>2. l # Null => l > i
    BY DEF Missing
  <2> QED
    BY <1>2, <2>1, <2>2
<1>5. ASSUME NEW s \in Linked(p) PROVE s < i \/ (l # Null /\ l <= s)
  <2>1. s \in Index
    BY DEF Linked
  <2>2. CASE s < i
    BY <2>2
  <2>3. CASE ~(s < i)
    <3>0. s \in Nat /\ i \in Nat
      BY <1>2, <2>1
    <3>1. Before(d, s)
      <4>1. CASE d = Head
        BY <4>1 DEF Before
      <4>2. CASE d # Head
        <5>1. d \in Index /\ d \in Nat /\ d < i
          BY <1>3, <4>2 DEF Before
        <5>2. d < s
          BY <2>3, <3>0, <5>1
        <5> QED
          BY <5>1, <5>2 DEF Before
      <4> QED
        BY <4>1, <4>2
    <3> QED
      BY <1>1, <1>2, <1>3, <3>1 DEF Chained
  <2> QED
    BY <2>2, <2>3
<1>6. i \notin Linked(p)
  <2>1. SUFFICES ASSUME i \in Linked(p) PROVE FALSE
    OBVIOUS
  <2>2. i \in Nat
    BY <1>2
  <2>3. l # Null /\ l <= i
    BY <1>5, <2>1, <2>2
  <2>4. l \in Nat /\ i < l
    BY <1>4, <2>3
  <2> QED
    BY <2>2, <2>3, <2>4
<1>7. next[p][i] = Null
  BY <1>1, <1>2, <1>6 DEF Chained
<1> QED
  BY <1>2, <1>3, <1>4, <1>5, <1>6, <1>7

\* What the insertion of a node does to the pointers.
LEMMA InsertPointers ==
  ASSUME ListInv, NEW t \in Threads, Insert(t)
  PROVE  LET p == ProcOf[t] IN
         /\ next' \in [Procs -> [Index \cup {Head} -> Index \cup {Null}]]
         /\ next'[p][dest[t]] = index[t]
         /\ next'[p][index[t]] = lock[t]
         /\ \A d \in (Index \cup {Head}) \ {dest[t], index[t]} : next'[p][d] = next[p][d]
         /\ \A q \in Procs \ {p} : next'[q] = next[q] /\ Linked(q)' = Linked(q)
         /\ Linked(p)' = Linked(p) \cup {index[t]}
<1> DEFINE p == ProcOf[t]
<1> USE PointerAssumption DEF PointerAssumption
<1>1. Types /\ p \in Procs
  BY DEF ListInv, Types
<1>2. /\ index[t] \in Index \ Linked(p) /\ dest[t] # index[t]
      /\ dest[t] \in Index \cup {Head}
      /\ next[p][dest[t]] = lock[t] /\ next[p][index[t]] = Null
      /\ lock[t] # Null => lock[t] \in Linked(p)
  BY <1>1, InsertPlace DEF Insert, Types
<1> DEFINE row == [next[p] EXCEPT ![dest[t]] = index[t], ![index[t]] = lock[t]]
<1>3. /\ next' = [next EXCEPT ![p] = row]
      /\ row \in [Index \cup {Head} -> Index \cup {Null}]
      /\ row[dest[t]] = index[t] /\ row[index[t]] = lock[t]
      /\ \A d \in (Index \cup {Head}) \ {dest[t], index[t]} : row[d] = next[p][d]
  <2>1. next' = [next EXCEPT ![p] = row]
    BY <1>1, <1>2 DEF Insert, Types
  <2>2. next[p] \in [Index \cup {Head} -> Index \cup {Null}]
    BY <1>1 DEF Types
  <2>3. lock[t] \in Index \cup {Null}
    BY <1>1 DEF Types
  <2> QED
    BY <1>2, <2>1, <2>2, <2>3
<1>4. /\ next' \in [Procs -> [Index \cup {Head} -> Index \cup {Null}]]
      /\ next'[p][dest[t]] = index[t]
      /\ next'[p][index[t]] = lock[t]
      /\ \A d \in (Index \cup {Head}) \ {dest[t], index[t]} : next'[p][d] = next[p][d]
      /\ \A q \in Procs \ {p} : next'[q] = next[q]
  <2> HIDE DEF row
  <2> QED
    BY <1>1, <1>3 DEF Types
<1>5. \A q \in Procs \ {p} : Linked(q)' = Linked(q)
  BY <1>4 DEF Linked
<1>6. Linked(p)' = Linked(p) \cup {index[t]}
  <2>1. ASSUME NEW s \in Linked(p)' PROVE s \in Linked(p) \cup {index[t]}
    <3>1. PICK d \in Index \cup {Head} : next'[p][d] = s
      BY <2>1 DEF Linked
    <3>2. s \in Index
      BY DEF Linked
    <3>3. CASE d \notin {dest[t], index[t]}
      BY <1>4, <3>1, <3>2, <3>3 DEF Linked
    <3>4. CASE d \in {dest[t], index[t]}
      BY <1>2, <1>4, <3>1, <3>2, <3>4
    <3> QED
      BY <3>3, <3>4
  <2>2. ASSUME NEW s \in Linked(p) PROVE s \in Linked(p)'
    <3>1. PICK d \in Index \cup {Head} : next[p][d] = s
      BY DEF Linked
    <3>2. s \in Index
      BY DEF Linked
    <3>3. CASE d # dest[t]
      BY <1>2, <1>4, <3>1, <3>2, <3>3 DEF Linked
    <3>4. CASE d = dest[t]
      BY <1>2, <1>4, <3>1, <3>2, <3>4 DEF Linked
    <3> QED
      BY <3>3, <3>4
  <2>3. index[t] \in Linked(p)'
    BY <1>2, <1>4 DEF Linked
  <2> QED
    BY <2>1, <2>2, <2>3
<1> QED
  BY <1>4, <1>5, <1>6

\* The list is still a sorted chain after the insertion.
LEMMA InsertChained ==
  ASSUME ListInv, NEW t \in Threads, Insert(t), NEW q \in Procs
  PROVE  Chained(q)'
<1> DEFINE p == ProcOf[t]
           i == index[t]
           d0 == dest[t]
           l0 == lock[t]
<1>1. Types /\ p \in Procs /\ Head \notin Index
  BY PointerAssumption DEF ListInv, Types, PointerAssumption
<1>2. Chained(q) /\ Chained(p)
  BY <1>1 DEF ListInv
<1>3. CASE q # p
  <2>1. next'[q] = next[q] /\ Linked(q)' = Linked(q)
    BY <1>3, InsertPointers
  <2> QED
    BY <1>2, <2>1 DEF Chained, Before
<1>4. CASE q = p
  <2>1. /\ i \in Index \ Linked(p) /\ d0 # i
        /\ d0 \in Linked(p) \cup {Head} /\ Before(d0, i)
        /\ next[p][d0] = l0 /\ next[p][i] = Null
        /\ l0 # Null => l0 \in Linked(p) /\ i < l0
        /\ \A s \in Linked(p) : s < i \/ (l0 # Null /\ l0 <= s)
    BY InsertPlace DEF Insert
  <2>2. /\ next'[p][d0] = i /\ next'[p][i] = l0
        /\ \A d \in (Index \cup {Head}) \ {d0, i} : next'[p][d] = next[p][d]
        /\ Linked(p)' = Linked(p) \cup {i}
        /\ next' \in [Procs -> [Index \cup {Head} -> Index \cup {Null}]]
    BY InsertPointers
  <2>3. Linked(p) \subseteq Index /\ Linked(p) \subseteq Nat /\ i \in Nat
    BY <2>1, Numbers DEF Linked
  <2> HIDE DEF p, i, d0, l0
  <2>4. ASSUME NEW d \in Linked(p)', next'[p][d] # Null PROVE d < next'[p][d]
    <3>1. CASE d = d0
      BY <1>1, <2>1, <2>2, <2>3, <2>4, <3>1 DEF Before
    <3>2. CASE d = i
      BY <2>1, <2>2, <2>4, <3>2
    <3>3. CASE d \notin {d0, i}
      BY <1>2, <2>2, <2>3, <2>4, <3>3 DEF Chained
    <3> QED
      BY <3>1, <3>2, <3>3
  <2>5. ASSUME NEW d \in Index, next'[p][d] # Null PROVE d \in Linked(p)'
    <3>1. CASE d \in {d0, i}
      BY <1>1, <2>1, <2>2, <3>1
    <3>2. CASE d \notin {d0, i}
      BY <1>2, <2>2, <2>5, <3>2 DEF Chained
    <3> QED
      BY <3>1, <3>2
  <2>6. ASSUME NEW d \in Linked(p)' \cup {Head}, NEW s \in Linked(p)', Before(d, s)
        PROVE  next'[p][d] # Null /\ next'[p][d] <= s
    <3>0. i # Null /\ s \in Nat
      BY <2>1, <2>2, <2>3, PointerAssumption DEF PointerAssumption
    <3>1. CASE d = i
      <4>1. i < s
        BY <1>1, <2>1, <2>6, <3>1 DEF Before
      <4>2. s \in Linked(p)
        BY <2>2, <2>3, <3>0, <4>1
      <4> QED
        BY <2>1, <2>2, <2>3, <3>0, <3>1, <4>1, <4>2
    <3>2. CASE d = d0
      <4>1. s = i \/ (s \in Linked(p) /\ Before(d0, s))
        BY <2>2, <2>6, <3>2
      <4>2. s = i \/ (l0 # Null /\ l0 <= s /\ i < l0 /\ l0 \in Nat)
        BY <1>2, <2>1, <2>3, <4>1 DEF Chained
      <4> QED
        BY <2>2, <2>3, <3>0, <3>2, <4>2
    <3>3. CASE d \notin {d0, i}
      <4>1. d \in Linked(p) \cup {Head} /\ next'[p][d] = next[p][d]
        BY <2>2, <2>3, <3>3
      <4>2. CASE s # i
        BY <1>2, <2>2, <2>6, <4>1, <4>2 DEF Chained
      <4>3. CASE s = i
        <5>1. d0 # Head
          <6>1. SUFFICES ASSUME d0 = Head PROVE FALSE
            OBVIOUS
          <6>2. d \in Linked(p) /\ d < i
            BY <2>6, <3>3, <4>1, <4>3, <6>1 DEF Before
          <6>3. Before(d0, d)
            BY <6>1 DEF Before
          <6>4. l0 # Null /\ l0 <= d /\ i < l0 /\ l0 \in Nat /\ d \in Nat
            BY <1>2, <2>1, <2>3, <6>2, <6>3 DEF Chained
          <6> QED
            BY <2>3, <6>2, <6>4
        <5>2. d0 \in Linked(p) /\ d0 \in Nat /\ d0 < i
          BY <1>1, <2>1, <2>3, <5>1 DEF Before
        <5>3. Before(d, d0)
          <6>1. CASE d = Head
            BY <6>1 DEF Before
          <6>2. CASE d # Head /\ d < d0
            BY <2>3, <4>1, <6>2 DEF Before
          <6>3. CASE d # Head /\ ~(d < d0)
            <7>1. d \in Linked(p) /\ d \in Nat /\ d < i /\ d0 < d
              BY <2>3, <2>6, <3>3, <4>1, <4>3, <5>2, <6>3 DEF Before
            <7>2. l0 # Null /\ l0 <= d /\ i < l0 /\ l0 \in Nat
              BY <1>2, <2>1, <2>3, <5>2, <7>1 DEF Chained, Before
            <7> QED
              BY <2>3, <7>1, <7>2
          <6> QED
            BY <6>1, <6>2, <6>3
        <5>4. next[p][d] # Null /\ next[p][d] <= d0
          BY <1>2, <4>1, <5>2, <5>3 DEF Chained
        <5>5. next[p][d] \in Nat
          <6>1. next[p][d] \in Index \cup {Null}
            BY <1>1, <2>3, <4>1 DEF Types
          <6> QED
            BY <5>4, <6>1, Numbers
        <5> QED
          BY <2>3, <4>1, <4>3, <5>2, <5>4, <5>5
      <4> QED
        BY <4>2, <4>3
    <3> QED
      BY <3>1, <3>2, <3>3
  <2>7. Chained(p)'
    BY <2>4, <2>5, <2>6 DEF Chained, Before
  <2> QED
    BY <1>4, <2>7 DEF p
<1> QED
  BY <1>3, <1>4
-----------------------------------------------------------------------------
(***************************************************************************)
(* The threads.                                                            *)
(***************************************************************************)

\* A step of t.
Acts(t) ==
    \/ \E i \in Index, m \in Modes : Lock(t, i, m) \/ Unlock(t, i, m)
    \/ Step(t)

\* What is known of the locals of a thread inside a call.
LEMMA LocalTypes ==
  ASSUME ListInv, NEW t \in Threads
  PROVE  /\ ProcOf[t] \in Procs
         /\ pc[t] # "idle" => index[t] \in Index
         /\ lock[t] # Null => lock[t] \in Index /\ lock[t] \in Linked(ProcOf[t])
         /\ pc[t] \in {"cas", "fcntl", "unwalk"} => lock[t] # Null
         /\ next[ProcOf[t]][Head] \in Index \cup {Null}
         /\ next[ProcOf[t]][dest[t]] \in Index \cup {Null}
         /\ lock[t] # Null => next[ProcOf[t]][lock[t]] \in Index \cup {Null}
<1>1. Types /\ ThreadInv(t) /\ ProcOf[t] \in Procs
  BY PointerAssumption DEF ListInv, PointerAssumption
<1>2. lock[t] # Null => lock[t] \in Index
  BY <1>1 DEF Types
<1>3. next[ProcOf[t]] \in [Index \cup {Head} -> Index \cup {Null}] /\ dest[t] \in Index \cup {Head}
  BY <1>1 DEF Types
<1> QED
  BY <1>1, <1>2, <1>3 DEF ThreadInv

\* A counter may be set to any number.
LEMMA CellSet ==
  ASSUME cell \in [Procs -> [Index -> [Index -> Int]]],
         NEW p \in Procs, NEW s \in Index, NEW i \in Index, NEW v \in Int
  PROVE  [cell EXCEPT ![p][s][i] = v] \in [Procs -> [Index -> [Index -> Int]]]
<1>1. [cell[p][s] EXCEPT ![i] = v] \in [Index -> Int]
  OBVIOUS
<1>2. [cell[p] EXCEPT ![s] = [cell[p][s] EXCEPT ![i] = v]] \in [Index -> [Index -> Int]]
  BY <1>1
<1> QED
  BY <1>2

\* The locals of a thread that returns.
LEMMA ReturnTypes ==
  ASSUME Types, NEW t \in Threads, Return(t)
  PROVE  /\ pc' \in [Threads -> Places]
         /\ index' \in [Threads -> Nat]
         /\ mode' \in [Threads -> {"read", "write"}]
         /\ dest' \in [Threads -> Index \cup {Head}]
         /\ lock' \in [Threads -> Index \cup {Null}]
         /\ value' \in [Threads -> Int]
<1>1. pc' \in [Threads -> Places]
  BY DEF Types, Return, Goto, Places
<1>2. index' \in [Threads -> Nat]
  BY DEF Types, Return
<1>3. mode' \in [Threads -> {"read", "write"}]
  BY DEF Types, Return
<1>4. dest' \in [Threads -> Index \cup {Head}]
  BY DEF Types, Return
<1>5. lock' \in [Threads -> Index \cup {Null}]
  BY DEF Types, Return
<1>6. value' \in [Threads -> Int]
  BY DEF Types, Return
<1> QED
  BY <1>1, <1>2, <1>3, <1>4, <1>5, <1>6

\* Every step keeps the types.
LEMMA StepTypes ==
  ASSUME ListInv, NEW t \in Threads, Acts(t)
  PROVE  Types'
<1> DEFINE p == ProcOf[t]
<1>0. Types /\ p \in Procs
  BY PointerAssumption DEF ListInv, PointerAssumption
<1>1. ASSUME NEW i \in Index, NEW m \in Modes, Lock(t, i, m) PROVE Types'
  <2>1. m \in {"read", "write"} /\ i \in Nat /\ next[p][Head] \in Index \cup {Null}
    BY PointerAssumption, Numbers, LocalTypes DEF PointerAssumption
  <2> QED
    BY <1>0, <1>1, <2>1 DEF Types, Lock, Goto, Places
<1>2. ASSUME NEW i \in Index, NEW m \in Modes, Unlock(t, i, m) PROVE Types'
  <2>1. m \in {"read", "write"} /\ i \in Nat
    BY PointerAssumption, Numbers DEF PointerAssumption
  <2>2. record' \in [Index -> [Procs -> {"none", "read", "write"}]]
    <3>1. [record[i] EXCEPT ![p] = "none"] \in [Procs -> {"none", "read", "write"}]
      BY <1>0 DEF Types
    <3>2. record' = [record EXCEPT ![i] = [record[i] EXCEPT ![p] = "none"]]
      BY <1>2 DEF Unlock
    <3> QED
      BY <1>0, <3>1, <3>2 DEF Types
  <2>3. holds' \in [Threads -> SUBSET (Index \X {"read", "write"})]
    BY <1>0, <1>2 DEF Types, Unlock
  <2> QED
    BY <1>0, <1>2, <2>1, <2>2, <2>3 DEF Types, Unlock, Goto, Places
<1>3. CASE Insert(t)
  <2>1. next' \in [Procs -> [Index \cup {Head} -> Index \cup {Null}]]
    BY <1>3, InsertPointers
  <2>2. index[t] \in Index
    BY <1>3, LocalTypes DEF Insert
  <2>3. cell' \in [Procs -> [Index -> [Index -> Int]]]
    <3>1. cell[p] \in [Index -> [Index -> Int]] /\ [i \in Index |-> 0] \in [Index -> Int]
      BY <1>0 DEF Types
    <3>2. [cell[p] EXCEPT ![index[t]] = [i \in Index |-> 0]] \in [Index -> [Index -> Int]]
      BY <3>1
    <3>3. cell' = [cell EXCEPT ![p] = [cell[p] EXCEPT ![index[t]] = [i \in Index |-> 0]]]
      BY <1>3 DEF Insert
    <3> QED
      BY <1>0, <3>2, <3>3 DEF Types
  <2>4. UNCHANGED <<record, holds, pc, index, mode, dest, value>>
        /\ lock' = [lock EXCEPT ![t] = index[t]]
    BY <1>3 DEF Insert, locals
  <2> QED
    BY <1>0, <2>1, <2>2, <2>3, <2>4 DEF Types
<1>4. CASE InsertFails(t)
  <2>1. next[p][dest[t]] \in Index \cup {Null}
    BY LocalTypes
  <2> QED
    BY <1>0, <1>4, <2>1 DEF Types, InsertFails, locals
<1>5. CASE Advance(t)
  <2>1. lock[t] \in Index /\ next[p][lock[t]] \in Index \cup {Null}
    BY <1>5, LocalTypes DEF Advance, Missing
  <2> QED
    BY <1>0, <1>5, <2>1 DEF Types, Advance, locals
<1>6. CASE LoadCell(t)
  <2>1. lock[t] \in Index /\ index[t] \in Index
    BY <1>6, LocalTypes DEF LoadCell, Missing
  <2>2. cell[p][lock[t]][index[t]] \in Int
    BY <1>0, <2>1 DEF Types
  <2> QED
    BY <1>0, <1>6, <2>2 DEF Types, LoadCell, locals, Goto, Places
<1>7. CASE Refuse(t)
  <2>1. Return(t) /\ UNCHANGED <<next, cell, record, holds>>
    BY <1>7 DEF Refuse
  <2> QED
    BY <1>0, <2>1, ReturnTypes DEF Types
<1>8. CASE CasCell(t)
  <2> DEFINE now == cell[p][lock[t]][index[t]]
             v == IF mode[t] = "read" THEN now + 1 ELSE -1
  <2>1. lock[t] \in Index /\ index[t] \in Index
    BY <1>8, LocalTypes DEF CasCell
  <2>2. now \in Int
    BY <1>0, <2>1 DEF Types
  <2>3. v \in Int
    BY <2>2
  <2>4. /\ value' = [value EXCEPT ![t] = 0] \/ value' = [value EXCEPT ![t] = now]
        /\ pc' = pc \/ pc' = [pc EXCEPT ![t] = "fcntl"]
        /\ UNCHANGED <<next, record, holds, index, mode, dest, lock>>
        /\ cell' = cell \/ cell' = [cell EXCEPT ![p][lock[t]][index[t]] = v]
    BY <1>8 DEF CasCell, locals, Goto
  <2> HIDE DEF now, v
  <2>5. cell \in [Procs -> [Index -> [Index -> Int]]]
    BY <1>0 DEF Types
  <2>6. [cell EXCEPT ![p][lock[t]][index[t]] = v] \in [Procs -> [Index -> [Index -> Int]]]
    BY <1>0, <2>1, <2>3, <2>5, CellSet
  <2>7. cell' \in [Procs -> [Index -> [Index -> Int]]]
    BY <2>4, <2>5, <2>6
  <2>8. value' \in [Threads -> Int]
    BY <1>0, <2>2, <2>4 DEF Types
  <2>9. pc' \in [Threads -> Places]
    BY <1>0, <2>4 DEF Types, Places
  <2> QED
    BY <1>0, <2>4, <2>7, <2>8, <2>9 DEF Types
<1>9. CASE Fcntl(t)
  <2>1. index[t] \in Index /\ mode[t] \in {"read", "write"}
    BY <1>0, <1>9, LocalTypes DEF Fcntl, Types
  <2>2. record' \in [Index -> [Procs -> {"none", "read", "write"}]]
    <3>1. record[index[t]] \in [Procs -> {"none", "read", "write"}]
      BY <1>0, <2>1 DEF Types
    <3>2. [record[index[t]] EXCEPT ![p] = mode[t]] \in [Procs -> {"none", "read", "write"}]
      BY <1>0, <2>1, <3>1
    <3>3. record' = record \/ record' = [record EXCEPT ![index[t]] = [record[index[t]] EXCEPT ![p] = mode[t]]]
      <4>1. record' = record \/ record' = [record EXCEPT ![index[t]][p] = mode[t]]
        BY <1>9 DEF Fcntl
      <4> QED
        BY <4>1
    <3> DEFINE row == [record[index[t]] EXCEPT ![p] = mode[t]]
    <3>4. row \in [Procs -> {"none", "read", "write"}] /\ (record' = record \/ record' = [record EXCEPT ![index[t]] = row])
      BY <3>2, <3>3
    <3> HIDE DEF row
    <3> QED
      BY <1>0, <3>4 DEF Types
  <2>3. holds' \in [Threads -> SUBSET (Index \X {"read", "write"})]
    <3>1. holds' = holds \/ holds' = [holds EXCEPT ![t] = holds[t] \cup {<<index[t], mode[t]>>}]
      BY <1>9 DEF Fcntl
    <3>2. holds \in [Threads -> SUBSET (Index \X {"read", "write"})]
      BY <1>0 DEF Types
    <3>3. holds[t] \cup {<<index[t], mode[t]>>} \in SUBSET (Index \X {"read", "write"})
      BY <2>1, <3>2
    <3> QED
      BY <3>1, <3>2, <3>3
  <2>4. Return(t) \/ (Goto(t, "load") /\ UNCHANGED <<index, mode, dest, lock, value>>)
    BY <1>9 DEF Fcntl, locals
  <2>5. next' = next /\ cell' = cell
    BY <1>9 DEF Fcntl
  <2>6. CASE Return(t)
    BY <1>0, <2>2, <2>3, <2>5, <2>6, ReturnTypes DEF Types
  <2>7. CASE Goto(t, "load") /\ UNCHANGED <<index, mode, dest, lock, value>>
    BY <1>0, <2>2, <2>3, <2>5, <2>7 DEF Types, Goto, Places
  <2> QED
    BY <2>4, <2>6, <2>7
<1>10. CASE LoadHead(t)
  <2>1. next[p][Head] \in Index \cup {Null}
    BY LocalTypes
  <2> QED
    BY <1>0, <1>10, <2>1 DEF Types, LoadHead, locals, Goto, Places
<1>11. CASE UnlockAdvance(t)
  <2>1. next[p][lock[t]] \in Index \cup {Null}
    BY <1>11, LocalTypes DEF UnlockAdvance
  <2> QED
    BY <1>0, <1>11, <2>1 DEF Types, UnlockAdvance, locals
<1>12. CASE Decrement(t)
  <2> DEFINE now == cell[p][lock[t]][index[t]]
             v == IF mode[t] = "read" THEN now - 1 ELSE now + 1
  <2>1. lock[t] \in Index /\ index[t] \in Index
    BY <1>12, LocalTypes DEF Decrement
  <2>2. now \in Int
    BY <1>0, <2>1 DEF Types
  <2>3. v \in Int
    BY <2>2
  <2>4. cell' = [cell EXCEPT ![p][lock[t]][index[t]] = v] /\ Return(t) /\ UNCHANGED <<next, record, holds>>
    BY <1>12 DEF Decrement
  <2> HIDE DEF now, v
  <2>5. cell \in [Procs -> [Index -> [Index -> Int]]]
    BY <1>0 DEF Types
  <2>6. cell' \in [Procs -> [Index -> [Index -> Int]]]
    BY <1>0, <2>1, <2>3, <2>4, <2>5, CellSet
  <2> QED
    BY <1>0, <2>4, <2>6, ReturnTypes DEF Types
<1> QED
  BY <1>1, <1>2, <1>3, <1>4, <1>5, <1>6, <1>7, <1>8, <1>9, <1>10, <1>11, <1>12
     DEF Acts, Step

\* Nodes are only added, and the lists stay sorted chains.
LEMMA ListGrows ==
  ASSUME ListInv, NEW t \in Threads, Acts(t), NEW p \in Procs
  PROVE  Linked(p) \subseteq Linked(p)' /\ Chained(p)'
<1>1. CASE Insert(t)
  <2>1. Linked(p) \subseteq Linked(p)'
    BY <1>1, InsertPointers
  <2> QED
    BY <1>1, <2>1, InsertChained
<1>2. CASE next' = next
  <2>1. Linked(p)' = Linked(p)
    BY <1>2 DEF Linked
  <2>2. Chained(p)
    BY DEF ListInv
  <2> QED
    BY <1>2, <2>1, <2>2 DEF Chained, Before
<1>3. Insert(t) \/ next' = next
  BY DEF Acts, Step, Lock, Unlock, InsertFails, Advance, LoadCell, Refuse, CasCell,
         Fcntl, LoadHead, UnlockAdvance, Decrement
<1> QED
  BY <1>1, <1>2, <1>3

\* A node that covers an entry goes on covering it.
LEMMA CoveredGrows ==
  ASSUME NEW p \in Procs, NEW i, Linked(p) \subseteq Linked(p)', Covered(p, i)
  PROVE  Covered(p, i)'
BY DEF Covered

\* A step of t changes nothing of another thread.
LEMMA OtherLocals ==
  ASSUME Types, NEW t \in Threads, Acts(t), NEW u \in Threads, u # t
  PROVE  /\ pc'[u] = pc[u] /\ index'[u] = index[u] /\ mode'[u] = mode[u]
         /\ dest'[u] = dest[u] /\ lock'[u] = lock[u] /\ value'[u] = value[u]
         /\ holds'[u] = holds[u]
<1>1. ASSUME NEW i \in Index, NEW m \in Modes, Lock(t, i, m) \/ Unlock(t, i, m)
      PROVE  /\ pc'[u] = pc[u] /\ index'[u] = index[u] /\ mode'[u] = mode[u]
             /\ dest'[u] = dest[u] /\ lock'[u] = lock[u] /\ value'[u] = value[u]
             /\ holds'[u] = holds[u]
  BY <1>1 DEF Types, Lock, Unlock, Goto
<1>2. CASE Insert(t) \/ InsertFails(t) \/ Advance(t) \/ LoadCell(t)
  BY <1>2 DEF Types, Insert, InsertFails, Advance, LoadCell, Goto, locals
<1>3. CASE Refuse(t) \/ CasCell(t) \/ Fcntl(t)
  BY <1>3 DEF Types, Refuse, CasCell, Fcntl, Goto, Return, locals
<1>4. CASE LoadHead(t) \/ UnlockAdvance(t) \/ Decrement(t)
  BY <1>4 DEF Types, LoadHead, UnlockAdvance, Decrement, Goto, Return, locals
<1> QED
  BY <1>1, <1>2, <1>3, <1>4 DEF Acts, Step

\* What is known of another thread stays true.
LEMMA OtherStep ==
  ASSUME ListInv, NEW t \in Threads, Acts(t), NEW u \in Threads, u # t
  PROVE  ThreadInv(u)'
<1>1. Types /\ ThreadInv(u) /\ ProcOf[u] \in Procs
  BY PointerAssumption DEF ListInv, PointerAssumption
<1>2. /\ pc'[u] = pc[u] /\ index'[u] = index[u] /\ mode'[u] = mode[u]
      /\ dest'[u] = dest[u] /\ lock'[u] = lock[u] /\ value'[u] = value[u]
      /\ holds'[u] = holds[u]
  BY <1>1, OtherLocals
<1>3. Linked(ProcOf[u]) \subseteq Linked(ProcOf[u])'
  BY <1>1, ListGrows
<1>4. \A i : Covered(ProcOf[u], i) => Covered(ProcOf[u], i)'
  BY <1>1, <1>3, CoveredGrows
<1>5. pc'[u] = "walk" => Walking(u)'
  BY <1>1, <1>2, <1>3 DEF ThreadInv, Walking
<1> QED
  BY <1>1, <1>2, <1>3, <1>4, <1>5 DEF ThreadInv, Covered

\* A walk that has passed only nodes ending before entry i loads a pointer that
\* is not past any node that reaches i.
LEMMA LoadReaches ==
  ASSUME ListInv, NEW p \in Procs, NEW i \in Nat,
         NEW d \in Linked(p) \cup {Head}, d # Head => d + Span <= i,
         NEW s \in Linked(p), i < s + Span
  PROVE  next[p][d] # Null /\ next[p][d] <= s
<1>1. Linked(p) \subseteq Index /\ Chained(p)
  BY DEF Linked, ListInv
<1>2. Before(d, s)
  <2>1. CASE d = Head
    BY <2>1 DEF Before
  <2>2. CASE d # Head
    <3>1. d \in Index /\ d \in Nat /\ s \in Nat /\ Span \in Nat
      BY <1>1, <2>2, Numbers
    <3>2. d < s
      BY <2>2, <3>1
    <3> QED
      BY <3>1, <3>2 DEF Before
  <2> QED
    BY <2>1, <2>2
<1> QED
  BY <1>1, <1>2 DEF Chained

\* A pointer leads to a node of the list.
LEMMA PointerLinked ==
  ASSUME Types, NEW p \in Procs, NEW d \in Index \cup {Head}, next[p][d] # Null
  PROVE  next[p][d] \in Linked(p)
<1>1. next[p][d] \in Index
  BY DEF Types
<1> QED
  BY <1>1 DEF Linked

\* What is known of the thread that takes the step.
LEMMA OwnStep ==
  ASSUME ListInv, NEW t \in Threads, Acts(t)
  PROVE  ThreadInv(t)'
<1> DEFINE p == ProcOf[t]
<1>0. Types /\ ThreadInv(t) /\ p \in Procs
  BY PointerAssumption DEF ListInv, PointerAssumption
<1>a. Linked(p) \subseteq Linked(p)' /\ \A i : Covered(p, i) => Covered(p, i)'
  <2>1. Linked(p) \subseteq Linked(p)'
    BY <1>0, ListGrows
  <2> QED
    BY <2>1 DEF Covered
<1>b. ASSUME NEW d \in Index \cup {Head}, next[p][d] # Null
      PROVE  next[p][d] \in Linked(p)'
  BY <1>0, <1>a, <1>b, PointerLinked
<1>c. (\A l \in holds[t] : Covered(p, l[1])) /\ (lock[t] # Null => lock[t] \in Linked(p)')
  BY <1>0, <1>a DEF ThreadInv
<1>d. holds'[t] \subseteq holds[t] => \A l \in holds'[t] : Covered(p, l[1])'
  <2> SUFFICES ASSUME holds'[t] \subseteq holds[t], NEW l \in holds'[t] PROVE Covered(p, l[1])'
    OBVIOUS
  <2>1. Covered(p, l[1])
    BY <1>c
  <2> QED
    BY <1>0, <1>a, <2>1 DEF Covered
<1>1. ASSUME NEW i \in Index, NEW m \in Modes, Lock(t, i, m) PROVE ThreadInv(t)'
  <2>1. /\ pc'[t] = "walk" /\ index'[t] = i /\ mode'[t] = m /\ dest'[t] = Head
        /\ lock'[t] = next[p][Head] /\ holds' = holds
        /\ Cardinality(holds[t]) < MaxHolds /\ <<i, "read">> \notin holds[t]
        /\ m = "read" => <<i, "write">> \notin holds[t]
    BY <1>0, <1>1 DEF Types, Lock, Goto
  <2>2. Walking(t)'
    BY <2>1 DEF Walking
  <2>3. lock'[t] # Null => lock'[t] \in Linked(p)'
    BY <1>b, <2>1
  <2> QED
    BY <1>d, <2>1, <2>2, <2>3 DEF ThreadInv
<1>2. ASSUME NEW i \in Index, NEW m \in Modes, Unlock(t, i, m) PROVE ThreadInv(t)'
  <2>1. /\ pc'[t] = "load" /\ index'[t] = i /\ lock' = lock
        /\ holds'[t] \subseteq holds[t] /\ <<i, m>> \in holds[t]
    BY <1>0, <1>2 DEF Types, Unlock, Goto
  <2>2. Covered(p, i)
    <3>1. Covered(p, <<i, m>>[1])
      BY <1>c, <2>1
    <3> QED
      BY <3>1
  <2>3. Covered(p, index[t])'
    BY <1>a, <2>1, <2>2 DEF Covered
  <2> QED
    BY <1>c, <1>d, <2>1, <2>3 DEF ThreadInv
<1>3. CASE Insert(t)
  <2>1. /\ pc'[t] = "walk" /\ pc[t] = "walk" /\ index' = index /\ mode' = mode
        /\ dest' = dest /\ lock'[t] = index[t] /\ holds' = holds
    BY <1>0, <1>3 DEF Types, Insert, locals
  <2>2. index[t] \in Linked(p)' /\ index[t] \in Index
    BY <1>3, <2>1, InsertPointers, LocalTypes
  <2>3. Walking(t)'
    BY <1>0, <1>a, <2>1 DEF ThreadInv, Walking
  <2> QED
    BY <1>d, <2>1, <2>2, <2>3 DEF ThreadInv
<1>4. CASE InsertFails(t)
  <2>1. /\ pc'[t] = "walk" /\ pc[t] = "walk" /\ index' = index /\ mode' = mode
        /\ dest' = dest /\ lock'[t] = next[p][dest[t]] /\ holds' = holds
        /\ dest[t] \in Index \cup {Head}
    BY <1>0, <1>4 DEF Types, InsertFails, locals
  <2>2. index[t] \in Index
    BY <2>1, LocalTypes
  <2>3. Walking(t)'
    BY <1>0, <1>a, <2>1 DEF ThreadInv, Walking
  <2>4. lock'[t] # Null => lock'[t] \in Linked(p)'
    BY <1>b, <2>1
  <2> QED
    BY <1>d, <2>1, <2>2, <2>3, <2>4 DEF ThreadInv
<1>5. CASE Advance(t)
  <2>1. /\ pc'[t] = "walk" /\ pc[t] = "walk" /\ index' = index /\ mode' = mode
        /\ dest'[t] = lock[t] /\ lock'[t] = next[p][lock[t]] /\ holds' = holds
        /\ lock[t] # Null /\ index[t] - lock[t] > Span - 1
    BY <1>0, <1>5 DEF Types, Advance, Missing, Past, locals
  <2>2. index[t] \in Index /\ lock[t] \in Index
    BY <2>1, LocalTypes
  <2>3. lock[t] + Span <= index[t]
    <3>1. index[t] \in Nat /\ lock[t] \in Nat /\ Span \in Nat
      BY <2>2, Numbers
    <3> QED
      BY <2>1, <3>1
  <2>4. Walking(t)'
    BY <1>0, <1>c, <2>1, <2>3 DEF ThreadInv, Walking
  <2>5. lock'[t] # Null => lock'[t] \in Linked(p)'
    BY <1>b, <2>1, <2>2
  <2> QED
    BY <1>d, <2>1, <2>2, <2>4, <2>5 DEF ThreadInv
<1>6. CASE LoadCell(t)
  <2>1. /\ pc'[t] = "cas" /\ pc[t] = "walk" /\ index' = index
        /\ lock' = lock /\ holds' = holds
        /\ lock[t] # Null /\ ~(lock[t] > index[t]) /\ ~(index[t] - lock[t] > Span - 1)
    BY <1>0, <1>6 DEF Types, LoadCell, Missing, Past, locals, Goto
  <2>2. index[t] \in Index /\ lock[t] \in Index
    BY <2>1, LocalTypes
  <2>3. lock[t] <= index[t] /\ index[t] < lock[t] + Span
    <3>1. index[t] \in Nat /\ lock[t] \in Nat /\ Span \in Nat
      BY <2>2, Numbers
    <3> QED
      BY <2>1, <3>1
  <2> QED
    BY <1>c, <1>d, <2>1, <2>2, <2>3 DEF ThreadInv
<1>7. CASE Refuse(t)
  <2>1. pc'[t] = "idle" /\ lock'[t] = Null /\ holds' = holds
    BY <1>0, <1>7 DEF Types, Refuse, Return, Goto
  <2> QED
    BY <1>d, <2>1 DEF ThreadInv
<1>8. CASE CasCell(t)
  <2>1. /\ pc'[t] \in {"cas", "fcntl"} /\ pc[t] = "cas" /\ index' = index
        /\ lock' = lock /\ holds' = holds
    BY <1>0, <1>8 DEF Types, CasCell, locals, Goto
  <2>2. index[t] \in Index
    BY <2>1, LocalTypes
  <2> QED
    BY <1>0, <1>c, <1>d, <2>1, <2>2 DEF ThreadInv
<1>9. CASE Fcntl(t)
  <2>1. pc[t] = "fcntl"
    BY <1>9 DEF Fcntl
  <2>2. Covered(p, index[t])
    BY <1>0, <2>1 DEF ThreadInv, Covered
  <2>3. index[t] \in Index
    BY <2>1, LocalTypes
  <2>4. \/ pc'[t] = "idle" /\ lock'[t] = Null /\ holds'[t] = holds[t] \cup {<<index[t], mode[t]>>}
        \/ pc'[t] = "load" /\ lock' = lock /\ index' = index /\ holds' = holds
    BY <1>0, <1>9 DEF Types, Fcntl, Return, Goto, locals
  <2>5. CASE pc'[t] = "idle" /\ lock'[t] = Null /\ holds'[t] = holds[t] \cup {<<index[t], mode[t]>>}
    <3>1. ASSUME NEW l \in holds'[t] PROVE Covered(p, l[1])'
      <4>1. Covered(p, l[1])
        <5>1. CASE l \in holds[t]
          BY <1>c, <5>1
        <5>2. CASE l = <<index[t], mode[t]>>
          BY <2>2, <5>2
        <5> QED
          BY <2>5, <5>1, <5>2
      <4> QED
        BY <1>a, <4>1 DEF Covered
    <3> QED
      BY <2>5, <3>1 DEF ThreadInv
  <2>6. CASE pc'[t] = "load" /\ lock' = lock /\ index' = index /\ holds' = holds
    <3>1. Covered(p, index[t])'
      BY <1>a, <2>2, <2>6 DEF Covered
    <3> QED
      BY <1>c, <1>d, <2>3, <2>6, <3>1 DEF ThreadInv
  <2> QED
    BY <2>4, <2>5, <2>6
<1>10. CASE LoadHead(t)
  <2>1. /\ pc'[t] = "unwalk" /\ pc[t] = "load" /\ index' = index
        /\ lock'[t] = next[p][Head] /\ holds' = holds
    BY <1>0, <1>10 DEF Types, LoadHead, locals, Goto
  <2>2. index[t] \in Index /\ Covered(p, index[t])
    BY <1>0, <2>1, LocalTypes DEF ThreadInv
  <2>3. PICK s \in Linked(p) : s <= index[t] /\ index[t] < s + Span
    BY <2>2 DEF Covered
  <2>4. index[t] \in Nat
    BY <2>2, Numbers
  <2>5. lock'[t] # Null
    BY <1>0, <2>1, <2>3, <2>4, LoadReaches
  <2>6. lock'[t] \in Linked(p)'
    BY <1>b, <2>1, <2>5
  <2>7. Covered(p, index[t])'
    BY <1>a, <2>1, <2>2 DEF Covered
  <2> QED
    BY <1>d, <2>1, <2>2, <2>5, <2>6, <2>7 DEF ThreadInv
<1>11. CASE UnlockAdvance(t)
  <2>1. /\ pc'[t] = "unwalk" /\ pc[t] = "unwalk" /\ index' = index
        /\ lock'[t] = next[p][lock[t]] /\ holds' = holds
        /\ lock[t] + Span - 1 < index[t]
    BY <1>0, <1>11 DEF Types, UnlockAdvance, locals
  <2>2. index[t] \in Index /\ Covered(p, index[t]) /\ lock[t] \in Index /\ lock[t] \in Linked(p)
    BY <1>0, <2>1, LocalTypes DEF ThreadInv
  <2>3. PICK s \in Linked(p) : s <= index[t] /\ index[t] < s + Span
    BY <2>2 DEF Covered
  <2>4. index[t] \in Nat /\ lock[t] \in Nat /\ Span \in Nat
    BY <2>2, Numbers
  <2>5. lock[t] + Span <= index[t]
    BY <2>1, <2>4
  <2>6. lock'[t] # Null
    BY <1>0, <2>1, <2>2, <2>3, <2>4, <2>5, LoadReaches
  <2>7. lock'[t] \in Linked(p)'
    BY <1>b, <2>1, <2>2, <2>6
  <2>8. Covered(p, index[t])'
    BY <1>a, <2>1, <2>2 DEF Covered
  <2> QED
    BY <1>d, <2>1, <2>2, <2>6, <2>7, <2>8 DEF ThreadInv
<1>12. CASE Decrement(t)
  <2>1. pc'[t] = "idle" /\ lock'[t] = Null /\ holds' = holds
    BY <1>0, <1>12 DEF Types, Decrement, Return, Goto
  <2> QED
    BY <1>d, <2>1 DEF ThreadInv
<1> QED
  BY <1>1, <1>2, <1>3, <1>4, <1>5, <1>6, <1>7, <1>8, <1>9, <1>10, <1>11, <1>12
     DEF Acts, Step

\* Every step keeps the invariant.
LEMMA ListStepInv == ListInv /\ [Next]_vars => ListInv'
<1> SUFFICES ASSUME ListInv, [Next]_vars PROVE ListInv'
  OBVIOUS
<1>1. CASE UNCHANGED vars
  <2>1. UNCHANGED <<next, cell, record, holds, pc, index, mode, dest, lock, value>>
    BY <1>1 DEF vars
  <2>2. Types'
    BY <2>1 DEF ListInv, Types
  <2>3. \A p \in Procs : Chained(p)'
    BY <2>1 DEF ListInv, Chained, Before, Linked
  <2>4. \A u \in Threads : ThreadInv(u)'
    BY <2>1 DEF ListInv, ThreadInv, Walking, Covered, Linked
  <2> QED
    BY <2>2, <2>3, <2>4 DEF ListInv
<1>2. CASE Next
  <2>1. PICK t \in Threads : Acts(t)
    BY <1>2 DEF Next, Acts
  <2>2. Types'
    BY <2>1, StepTypes
  <2>3. \A p \in Procs : Chained(p)'
    BY <2>1, ListGrows
  <2>4. \A u \in Threads : ThreadInv(u)'
    BY <2>1, OwnStep, OtherStep
  <2> QED
    BY <2>2, <2>3, <2>4 DEF ListInv
<1> QED
  BY <1>1, <1>2

\* The invariant holds in every reachable state.
LEMMA ListAlways == Spec => []ListInv
BY ListInitInv, ListStepInv, PTL DEF Spec

\* Two pointers never lead to one node: of the two that hold them the later one
\* would lie between the earlier one and its successor.
LEMMA OnePointer ==
  ASSUME ListInv, NEW p \in Procs, NEW d \in Index \cup {Head}, NEW e \in Index \cup {Head},
         next[p][d] = next[p][e], next[p][d] # Null
  PROVE  d = e
<1>1. Types /\ Chained(p) /\ Head \notin Index
  BY PointerAssumption DEF ListInv, PointerAssumption
<1>2. ASSUME NEW a \in Index \cup {Head}, NEW b \in Index \cup {Head},
             next[p][a] = next[p][b], next[p][a] # Null,
             b \in Index, Before(a, b)
      PROVE  FALSE
  <2>1. b \in Linked(p) /\ (a = Head \/ a \in Linked(p))
    BY <1>1, <1>2 DEF Chained
  <2>2. next[p][a] <= b /\ b < next[p][b]
    BY <1>1, <1>2, <2>1 DEF Chained
  <2>3. next[p][b] \in Nat /\ b \in Nat
    <3>1. next[p][b] \in Index
      BY <1>1, <1>2 DEF Types
    <3> QED
      BY <1>2, <3>1, Numbers
  <2> QED
    BY <1>2, <2>2, <2>3
<1>3. CASE d = Head \/ e = Head
  BY <1>2, <1>3 DEF Before
<1>4. CASE d \in Index /\ e \in Index
  <2>1. d \in Nat /\ e \in Nat
    BY <1>4, Numbers
  <2>2. ~(d < e) /\ ~(e < d)
    BY <1>2, <1>4 DEF Before
  <2> QED
    BY <2>1, <2>2
<1> QED
  BY <1>3, <1>4

\* ListSorted: however the insertions of logdb_log_lock race, the list of a
\* process stays in ascending order, every node has one pointer to it, and the
\* node a thread works on is never cut out of the list, for any number of
\* processes, threads and entries and any span of a node.
THEOREM ListStaysSorted == Spec => []ListSorted
<1>1. ListInv => ListSorted
  <2> SUFFICES ASSUME ListInv PROVE ListSorted
    OBVIOUS
  <2>1. \A p \in Procs : Chained(p)
    BY DEF ListInv
  <2>2. ASSUME NEW p \in Procs, NEW d \in Index \cup {Head}, NEW e \in Index \cup {Head},
               next[p][d] = next[p][e], next[p][d] # Null
        PROVE  d = e
    BY <2>2, OnePointer
  <2>3. \A t \in Threads : lock[t] # Null => lock[t] \in Linked(ProcOf[t])
    BY DEF ListInv, ThreadInv
  <2>4. ASSUME NEW p \in Procs
        PROVE  /\ \A d \in Linked(p) : next[p][d] # Null => d < next[p][d]
               /\ \A d \in Index : next[p][d] # Null => d \in Linked(p)
    BY <2>1 DEF Chained
  <2> QED
    BY <2>2, <2>3, <2>4 DEF ListSorted
<1> QED
  BY <1>1, ListAlways, PTL
-----------------------------------------------------------------------------
(***************************************************************************)
(* LockTable.                                                              *)
(***************************************************************************)

\* The walk of t has come to the node at which it stops.
Arrived(t) == ~Missing(t) /\ ~Past(lock[t], index[t])

\* What LockTable sees of a thread, by the place it is at.
LEMMA SeenIs ==
  ASSUME NEW t \in Threads
  PROVE  /\ pc[t] = "idle" \/ (pc[t] = "walk" /\ ~Arrived(t)) \/ (pc[t] = "cas" /\ ~Open(t)) =>
              Seen(t) = LT!Idle
         /\ (pc[t] = "walk" /\ Arrived(t)) \/ (pc[t] = "cas" /\ Open(t)) =>
              Seen(t) = LT!Call("cell", index[t], mode[t], lock[t])
         /\ pc[t] = "fcntl" => Seen(t) = LT!Call("fcntl", index[t], mode[t], lock[t])
         /\ pc[t] = "load" \/ (pc[t] = "unwalk" /\ lock[t] + Span - 1 < index[t]) =>
              Seen(t) = LT!Call("unfind", index[t], mode[t], 0)
         /\ pc[t] = "unwalk" /\ ~(lock[t] + Span - 1 < index[t]) =>
              Seen(t) = LT!Call("uncell", index[t], mode[t], lock[t])
<1>1. pc[t] = "idle" \/ (pc[t] = "walk" /\ ~Arrived(t)) \/ (pc[t] = "cas" /\ ~Open(t)) =>
        At(t) = "none"
  BY DEF At, Arrived
<1>2. (pc[t] = "walk" /\ Arrived(t)) \/ (pc[t] = "cas" /\ Open(t)) => At(t) = "cell"
  BY DEF At, Arrived
<1>3. pc[t] = "fcntl" => At(t) = "fcntl"
  BY DEF At
<1>4. pc[t] = "load" \/ (pc[t] = "unwalk" /\ lock[t] + Span - 1 < index[t]) => At(t) = "unfind"
  BY DEF At
<1>5. pc[t] = "unwalk" /\ ~(lock[t] + Span - 1 < index[t]) => At(t) = "uncell"
  BY DEF At
<1> QED
  BY <1>1, <1>2, <1>3, <1>4, <1>5 DEF Seen, LT!Idle, LT!Call

\* The same after a step.
LEMMA SeenNext ==
  ASSUME NEW t \in Threads
  PROVE  /\ pc'[t] = "idle" \/ (pc'[t] = "walk" /\ ~Arrived(t)') \/ (pc'[t] = "cas" /\ ~Open(t)') =>
              Seen(t)' = LT!Idle
         /\ (pc'[t] = "walk" /\ Arrived(t)') \/ (pc'[t] = "cas" /\ Open(t)') =>
              Seen(t)' = LT!Call("cell", index'[t], mode'[t], lock'[t])
         /\ pc'[t] = "fcntl" => Seen(t)' = LT!Call("fcntl", index'[t], mode'[t], lock'[t])
         /\ pc'[t] = "load" \/ (pc'[t] = "unwalk" /\ lock'[t] + Span - 1 < index'[t]) =>
              Seen(t)' = LT!Call("unfind", index'[t], mode'[t], 0)
         /\ pc'[t] = "unwalk" /\ ~(lock'[t] + Span - 1 < index'[t]) =>
              Seen(t)' = LT!Call("uncell", index'[t], mode'[t], lock'[t])
<1>1. pc'[t] = "idle" \/ (pc'[t] = "walk" /\ ~Arrived(t)') \/ (pc'[t] = "cas" /\ ~Open(t)') =>
        At(t)' = "none"
  BY DEF At, Arrived
<1>2. (pc'[t] = "walk" /\ Arrived(t)') \/ (pc'[t] = "cas" /\ Open(t)') => At(t)' = "cell"
  BY DEF At, Arrived
<1>3. pc'[t] = "fcntl" => At(t)' = "fcntl"
  BY DEF At
<1>4. pc'[t] = "load" \/ (pc'[t] = "unwalk" /\ lock'[t] + Span - 1 < index'[t]) => At(t)' = "unfind"
  BY DEF At
<1>5. pc'[t] = "unwalk" /\ ~(lock'[t] + Span - 1 < index'[t]) => At(t)' = "uncell"
  BY DEF At
<1> QED
  BY <1>1, <1>2, <1>3, <1>4, <1>5 DEF Seen, LT!Idle, LT!Call

\* LockTable sees the call of t change, and no other.
LEMMA CallStep ==
  ASSUME Types, NEW t \in Threads, Acts(t)
  PROVE  [u \in Threads |-> Seen(u)]' = [[u \in Threads |-> Seen(u)] EXCEPT ![t] = Seen(t)']
<1>1. ASSUME NEW u \in Threads, u # t PROVE Seen(u)' = Seen(u)
  <2>1. /\ pc'[u] = pc[u] /\ index'[u] = index[u] /\ mode'[u] = mode[u]
        /\ lock'[u] = lock[u] /\ value'[u] = value[u]
    BY <1>1, OtherLocals
  <2>2. Missing(u)' = Missing(u) /\ Past(lock[u], index[u])' = Past(lock[u], index[u]) /\ Open(u)' = Open(u)
    BY <2>1 DEF Missing, Past, Open
  <2>3. At(u)' = At(u)
    BY <2>1, <2>2 DEF At
  <2> QED
    BY <2>1, <2>3 DEF Seen
<1> QED
  BY <1>1

\* The node at which a walk has arrived is the one a walk in one step stops at.
LEMMA ArrivesWhereItStops ==
  ASSUME ListInv, NEW p \in Procs, NEW i \in Nat,
         NEW d \in Linked(p) \cup {Head}, d # Head => d + Span <= i,
         next[p][d] # Null, i < next[p][d] + Span
  PROVE  next[p][d] \in Linked(p) /\ LT!StopsAt(Linked(p), next[p][d], i)
<1>1. d \in Index \cup {Head} /\ Types
  BY DEF Linked, ListInv
<1>2. next[p][d] \in Linked(p)
  BY <1>1, PointerLinked
<1>3. ASSUME NEW r \in Linked(p), i < r + Span PROVE next[p][d] <= r
  BY <1>3, LoadReaches
<1> QED
  BY <1>2, <1>3 DEF LT!StopsAt, LT!Reaches

\* LockTable counts as LogLock does.
LEMMA SameCardinality == \A S : LT!Cardinality(S) = Cardinality(S)
BY DEF LT!Cardinality, Cardinality

\* A load that ends a walk at an existing node, or brings it no further, is the
\* walk of LockTable or no step of it.
LEMMA LoadIsFind ==
  ASSUME ListInv, NEW t \in Threads, Acts(t),
         NEW i \in Index, NEW m \in Modes, NEW d \in Linked(ProcOf[t]) \cup {Head},
         d # Head => d + Span <= i,
         Cardinality(holds[t]) < MaxHolds, <<i, "read">> \notin holds[t],
         m = "read" => <<i, "write">> \notin holds[t],
         Seen(t) = LT!Idle,
         pc'[t] = "walk", index'[t] = i, mode'[t] = m, lock'[t] = next[ProcOf[t]][d],
         UNCHANGED <<next, cell, record, holds>>
  PROVE  [LT!LockNext]_(LT!lockVars)
<1> DEFINE p == ProcOf[t]
           s == next[p][d]
<1>1. Types /\ p \in Procs
  BY PointerAssumption DEF ListInv, PointerAssumption
<1>2. [u \in Threads |-> Seen(u)]' = [[u \in Threads |-> Seen(u)] EXCEPT ![t] = Seen(t)']
  BY <1>1, CallStep
<1>3. [q \in Procs |-> Linked(q)]' = [q \in Procs |-> Linked(q)]
  BY DEF Linked
<1>4. CASE Arrived(t)'
  <2>1. s # Null /\ ~(s > i) /\ ~(i - s > Span - 1)
    BY <1>4 DEF Arrived, Missing, Past
  <2>2. s \in Index
    <3>1. d \in Index \cup {Head}
      BY DEF Linked
    <3> QED
      BY <1>1, <2>1, <3>1 DEF Types
  <2>3. i \in Nat /\ s \in Nat /\ Span \in Nat
    BY <2>2, Numbers
  <2>4. s <= i /\ i < s + Span
    BY <2>1, <2>3
  <2>5. s \in Linked(p) /\ LT!StopsAt(Linked(p), s, i)
    BY <1>1, <2>1, <2>3, <2>4, ArrivesWhereItStops
  <2>6. Seen(t)' = LT!Call("cell", i, m, s)
    BY <1>4, SeenNext
  <2>7. LT!Find(t, i, m)
    <3> HIDE DEF s
    <3>1. [u \in Threads |-> Seen(u)][t].at = "none"
      BY DEF LT!Idle
    <3>2. [q \in Procs |-> Linked(q)][p] = Linked(p)
      BY <1>1
    <3> QED
      BY <1>2, <1>3, <2>4, <2>5, <2>6, <3>1, <3>2 DEF LT!Find
  <2>8. \E j \in Index, n \in Modes : LT!Cardinality(holds[t]) < MaxHolds /\ LT!Find(t, j, n)
    BY <2>7, SameCardinality
  <2>9. LT!LockNext
    BY <2>8 DEF LT!LockNext
  <2> QED
    BY <2>9
<1>5. CASE ~Arrived(t)'
  <2>1. Seen(t)' = Seen(t)
    BY <1>5, SeenNext
  <2>2. [u \in Threads |-> Seen(u)]' = [u \in Threads |-> Seen(u)]
    BY <1>2, <2>1
  <2> QED
    BY <1>3, <2>2 DEF LT!lockVars
<1> QED
  BY <1>4, <1>5

\* The successful insertion of a node is the walk of LockTable that needs one.
LEMMA InsertIsFind ==
  ASSUME ListInv, NEW t \in Threads, Acts(t), Insert(t)
  PROVE  LT!LockNext
<1> DEFINE p == ProcOf[t]
           i == index[t]
           m == mode[t]
<1>1. Types /\ p \in Procs /\ pc[t] = "walk" /\ Walking(t) /\ i \in Index
  <2>1. pc[t] = "walk"
    BY DEF Insert
  <2> QED
    BY <2>1, PointerAssumption DEF ListInv, ThreadInv, PointerAssumption
<1>2. [u \in Threads |-> Seen(u)]' = [[u \in Threads |-> Seen(u)] EXCEPT ![t] = Seen(t)']
  BY <1>1, CallStep
<1>3. Seen(t) = LT!Idle
  <2>1. ~Arrived(t)
    BY DEF Insert, Arrived
  <2> QED
    BY <1>1, <2>1, SeenIs
<1>4. Seen(t)' = LT!Call("cell", i, m, i)
  <2>1. pc'[t] = "walk" /\ index'[t] = i /\ mode'[t] = m /\ lock'[t] = i
    BY <1>1 DEF Insert, locals, Types
  <2>2. i \in Nat /\ Span \in Nat /\ Span > 0 /\ i # Null
    BY <1>1, Numbers, PointerAssumption DEF PointerAssumption
  <2>3. Arrived(t)'
    <3>1. ~(i > i) /\ ~(i - i > Span - 1)
      BY <2>2
    <3> QED
      BY <2>1, <2>2, <3>1 DEF Arrived, Missing, Past
  <2> QED
    BY <2>1, <2>3, SeenNext
<1>5. [q \in Procs |-> Linked(q)]' = [[q \in Procs |-> Linked(q)] EXCEPT ![p] = Linked(p) \cup {i}]
  <2>1. Linked(p)' = Linked(p) \cup {i} /\ \A q \in Procs \ {p} : Linked(q)' = Linked(q)
    BY InsertPointers
  <2> QED
    BY <1>1, <2>1
<1>6. LT!NeedsNode(Linked(p), i)
  <2> SUFFICES ASSUME NEW s \in Linked(p), i < s + Span PROVE s > i
    BY DEF LT!NeedsNode, LT!Reaches
  <2>1. /\ dest[t] \in Linked(p) \cup {Head} /\ next[p][dest[t]] = lock[t]
        /\ lock[t] # Null => lock[t] \in Linked(p) /\ i < lock[t]
    BY InsertPlace DEF Insert
  <2>2. dest[t] # Head => dest[t] + Span <= i
    BY <1>1 DEF Walking
  <2>3. i \in Nat /\ s \in Nat
    BY <1>1, Numbers DEF Linked
  <2>4. lock[t] # Null /\ lock[t] <= s
    BY <1>1, <2>1, <2>2, <2>3, LoadReaches
  <2>5. lock[t] \in Nat /\ i < lock[t]
    BY <2>1, <2>4, Numbers DEF Linked
  <2> QED
    BY <2>3, <2>4, <2>5
<1>7. cell' = [cell EXCEPT ![p][i] = LT!Zeros] /\ UNCHANGED <<record, holds>>
  BY DEF Insert, LT!Zeros
<1>8. /\ m \in Modes /\ Cardinality(holds[t]) < MaxHolds /\ <<i, "read">> \notin holds[t]
      /\ m = "read" => <<i, "write">> \notin holds[t]
  BY <1>1 DEF Walking
<1> HIDE DEF i, m
<1>9. LT!Find(t, i, m)
  <2>1. [u \in Threads |-> Seen(u)][t].at = "none"
    BY <1>3 DEF LT!Idle
  <2>2. [q \in Procs |-> Linked(q)][p] = Linked(p)
    BY <1>1
  <2> QED
    BY <1>2, <1>4, <1>5, <1>6, <1>7, <1>8, <2>1, <2>2 DEF LT!Find
<1>10. \E j \in Index, n \in Modes : LT!Cardinality(holds[t]) < MaxHolds /\ LT!Find(t, j, n)
  <2>1. i \in Index
    BY <1>1 DEF i
  <2> QED
    BY <1>8, <1>9, <2>1, SameCardinality
<1> QED
  BY <1>10 DEF LT!LockNext

\* A load of a counter, alone or after a failed swap, is the refusal of
\* LockTable or no step of it.
LEMMA LoadIsRefusal ==
  ASSUME ListInv, NEW t \in Threads, Acts(t),
         Seen(t) = LT!Call("cell", index[t], mode[t], lock[t]),
         pc'[t] = "cas", value'[t] = cell[ProcOf[t]][lock[t]][index[t]],
         UNCHANGED <<next, cell, record, holds, index, mode, lock>>
  PROVE  [LT!LockNext]_(LT!lockVars)
<1> DEFINE p == ProcOf[t]
<1>1. Types /\ p \in Procs
  BY PointerAssumption DEF ListInv, PointerAssumption
<1>2. [u \in Threads |-> Seen(u)]' = [[u \in Threads |-> Seen(u)] EXCEPT ![t] = Seen(t)']
  BY <1>1, CallStep
<1>3. [q \in Procs |-> Linked(q)]' = [q \in Procs |-> Linked(q)]
  BY DEF Linked
<1>4. CASE Open(t)'
  <2>1. Seen(t)' = Seen(t)
    BY <1>4, SeenNext
  <2>2. [u \in Threads |-> Seen(u)]' = [u \in Threads |-> Seen(u)]
    BY <1>2, <2>1
  <2> QED
    BY <1>3, <2>2 DEF LT!lockVars
<1>5. CASE ~Open(t)'
  <2>1. Seen(t)' = LT!Idle
    BY <1>5, SeenNext
  <2>2. ~LT!Available(cell[p][lock[t]][index[t]], mode[t])
    BY <1>5 DEF Open, LT!Available
  <2>3. LT!TakeCell(t)
    <3>1. [u \in Threads |-> Seen(u)][t] = LT!Call("cell", index[t], mode[t], lock[t])
      OBVIOUS
    <3>2. /\ [u \in Threads |-> Seen(u)][t].at = "cell"
          /\ [u \in Threads |-> Seen(u)][t].index = index[t]
          /\ [u \in Threads |-> Seen(u)][t].mode = mode[t]
          /\ [u \in Threads |-> Seen(u)][t].node = lock[t]
      BY <3>1 DEF LT!Call
    <3> QED
      BY <1>2, <1>3, <2>1, <2>2, <3>2 DEF LT!TakeCell
  <2>4. LT!LockNext
    BY <2>3 DEF LT!LockNext
  <2> QED
    BY <2>4
<1> QED
  BY <1>4, <1>5

\* The swap of a counter is the one of LockTable.
LEMMA SwapIsTake ==
  ASSUME ListInv, NEW t \in Threads, Acts(t), CasCell(t),
         cell[ProcOf[t]][lock[t]][index[t]] = value[t]
  PROVE  LT!LockNext
<1> DEFINE p == ProcOf[t]
           now == cell[p][lock[t]][index[t]]
<1>1. Types /\ p \in Procs
  BY PointerAssumption DEF ListInv, PointerAssumption
<1>2. [u \in Threads |-> Seen(u)]' = [[u \in Threads |-> Seen(u)] EXCEPT ![t] = Seen(t)']
  BY <1>1, CallStep
<1>3. /\ cell' = [cell EXCEPT ![p][lock[t]][index[t]] = LT!Taken(now, mode[t])]
      /\ pc'[t] = "fcntl" /\ UNCHANGED <<next, record, holds, index, mode, lock>>
      /\ pc[t] = "cas" /\ Open(t)
  BY <1>1 DEF CasCell, locals, Goto, Types, LT!Taken
<1>4. [q \in Procs |-> Linked(q)]' = [q \in Procs |-> Linked(q)]
  BY <1>3 DEF Linked
<1>5. Seen(t) = LT!Call("cell", index[t], mode[t], lock[t])
  BY <1>3, SeenIs
<1>6. Seen(t)' = LT!Call("fcntl", index[t], mode[t], lock[t])
  BY <1>3, SeenNext
<1>7. LT!Available(now, mode[t])
  BY <1>3 DEF Open, LT!Available
<1>8. LT!TakeCell(t)
  <2>1. [u \in Threads |-> Seen(u)][t] = LT!Call("cell", index[t], mode[t], lock[t])
    BY <1>5
  <2>2. /\ [u \in Threads |-> Seen(u)][t].at = "cell"
        /\ [u \in Threads |-> Seen(u)][t].index = index[t]
        /\ [u \in Threads |-> Seen(u)][t].mode = mode[t]
        /\ [u \in Threads |-> Seen(u)][t].node = lock[t]
    BY <2>1 DEF LT!Call
  <2>3. [u \in Threads |-> Seen(u)]' = [[u \in Threads |-> Seen(u)] EXCEPT ![t].at = "fcntl"]
    <3>1. Seen(t)' = [Seen(t) EXCEPT !.at = "fcntl"]
      BY <1>5, <1>6 DEF LT!Call
    <3> QED
      BY <1>2, <3>1
  <2> QED
    BY <1>3, <1>4, <1>7, <2>2, <2>3 DEF LT!TakeCell
<1> QED
  BY <1>8 DEF LT!LockNext

\* fcntl is the same step in both.
LEMMA FcntlIsTakeRecord ==
  ASSUME ListInv, NEW t \in Threads, Acts(t), Fcntl(t)
  PROVE  LT!LockNext
<1> DEFINE p == ProcOf[t]
           i == index[t]
           m == mode[t]
<1>1. Types /\ p \in Procs /\ pc[t] = "fcntl"
  BY PointerAssumption DEF ListInv, PointerAssumption, Fcntl
<1>2. [u \in Threads |-> Seen(u)]' = [[u \in Threads |-> Seen(u)] EXCEPT ![t] = Seen(t)']
  BY <1>1, CallStep
<1>3. [q \in Procs |-> Linked(q)]' = [q \in Procs |-> Linked(q)] /\ cell' = cell
  BY DEF Linked, Fcntl
<1>4. Seen(t) = LT!Call("fcntl", i, m, lock[t])
  BY <1>1, SeenIs
<1>5. \/ /\ LT!Grantable(i, p, m)
         /\ record' = [record EXCEPT ![i][p] = m]
         /\ holds' = [holds EXCEPT ![t] = @ \cup {<<i, m>>}]
         /\ pc'[t] = "idle"
      \/ /\ ~LT!Grantable(i, p, m)
         /\ pc'[t] = "load"
         /\ UNCHANGED <<record, holds, index, mode>>
  BY <1>1 DEF Fcntl, LT!Grantable, Return, Goto, Types, locals
<1>6. \/ /\ LT!Grantable(i, p, m)
         /\ record' = [record EXCEPT ![i][p] = m]
         /\ holds' = [holds EXCEPT ![t] = @ \cup {<<i, m>>}]
         /\ Seen(t)' = LT!Idle
      \/ /\ ~LT!Grantable(i, p, m)
         /\ Seen(t)' = LT!Call("unfind", i, m, 0)
         /\ UNCHANGED <<record, holds>>
  BY <1>5, SeenNext
<1>7. LT!TakeRecord(t)
  <2>1. [u \in Threads |-> Seen(u)][t] = LT!Call("fcntl", i, m, lock[t])
    BY <1>4
  <2>2. /\ [u \in Threads |-> Seen(u)][t].at = "fcntl"
        /\ [u \in Threads |-> Seen(u)][t].index = i
        /\ [u \in Threads |-> Seen(u)][t].mode = m
    BY <2>1 DEF LT!Call
  <2> QED
    BY <1>2, <1>3, <1>6, <2>2 DEF LT!TakeRecord
<1> QED
  BY <1>7 DEF LT!LockNext

\* So is the F_UNLCK of unlock.
LEMMA UnlockIsUnlock ==
  ASSUME ListInv, NEW t \in Threads, Acts(t), NEW i \in Index, NEW m \in Modes, Unlock(t, i, m)
  PROVE  LT!LockNext
<1> DEFINE p == ProcOf[t]
<1>1. Types /\ p \in Procs /\ pc[t] = "idle"
  BY PointerAssumption DEF ListInv, PointerAssumption, Unlock
<1>2. [u \in Threads |-> Seen(u)]' = [[u \in Threads |-> Seen(u)] EXCEPT ![t] = Seen(t)']
  BY <1>1, CallStep
<1>3. [q \in Procs |-> Linked(q)]' = [q \in Procs |-> Linked(q)] /\ cell' = cell
  BY DEF Linked, Unlock
<1>4. Seen(t) = LT!Idle
  BY <1>1, SeenIs
<1>5. Seen(t)' = LT!Call("unfind", i, m, 0)
  <2>1. pc'[t] = "load" /\ index'[t] = i /\ mode'[t] = m
    BY <1>1 DEF Unlock, Goto, Types
  <2> QED
    BY <2>1, SeenNext
<1>6. LT!Unlock(t, i, m)
  <2>1. [u \in Threads |-> Seen(u)][t].at = "none"
    BY <1>4 DEF LT!Idle
  <2>2. /\ <<i, m>> \in holds[t]
        /\ record' = [record EXCEPT ![i][p] = "none"]
        /\ holds' = [holds EXCEPT ![t] = @ \ {<<i, m>>}]
    BY DEF Unlock
  <2> QED
    BY <1>2, <1>3, <1>5, <2>1, <2>2 DEF LT!Unlock
<1>7. \E j \in Index, n \in Modes : LT!Unlock(t, j, n)
  BY <1>6
<1> QED
  BY <1>7 DEF LT!LockNext

\* A load of the walk of unlock that ends it is the walk of LockTable.
LEMMA LoadIsFindHeld ==
  ASSUME ListInv, NEW t \in Threads, Acts(t), pc[t] \in {"load", "unwalk"},
         NEW d \in Linked(ProcOf[t]) \cup {Head}, d # Head => d + Span <= index[t],
         Seen(t) = LT!Call("unfind", index[t], mode[t], 0),
         pc'[t] = "unwalk", lock'[t] = next[ProcOf[t]][d],
         UNCHANGED <<next, cell, record, holds, index, mode>>
  PROVE  [LT!LockNext]_(LT!lockVars)
<1> DEFINE p == ProcOf[t]
           i == index[t]
           s == next[p][d]
<1>1. Types /\ p \in Procs /\ i \in Nat /\ Covered(p, i)
  <2>1. Types /\ ThreadInv(t) /\ p \in Procs
    BY PointerAssumption DEF ListInv, PointerAssumption
  <2> QED
    BY <2>1 DEF Types, ThreadInv
<1>2. [u \in Threads |-> Seen(u)]' = [[u \in Threads |-> Seen(u)] EXCEPT ![t] = Seen(t)']
  BY <1>1, CallStep
<1>3. [q \in Procs |-> Linked(q)]' = [q \in Procs |-> Linked(q)]
  BY DEF Linked
<1>4. CASE s + Span - 1 < i
  <2>1. Seen(t)' = Seen(t)
    BY <1>4, SeenNext
  <2>2. [u \in Threads |-> Seen(u)]' = [u \in Threads |-> Seen(u)]
    BY <1>2, <2>1
  <2> QED
    BY <1>3, <2>2 DEF LT!lockVars
<1>5. CASE ~(s + Span - 1 < i)
  <2>1. s # Null
    <3>1. PICK r \in Linked(p) : r <= i /\ i < r + Span
      BY <1>1 DEF Covered
    <3> QED
      BY <1>1, <3>1, LoadReaches
  <2>2. s \in Index
    <3>1. d \in Index \cup {Head}
      BY DEF Linked
    <3> QED
      BY <1>1, <2>1, <3>1 DEF Types
  <2>3. s \in Nat /\ Span \in Nat
    BY <2>2, Numbers
  <2>4. i < s + Span
    BY <1>1, <1>5, <2>3
  <2>5. s \in Linked(p) /\ LT!StopsAt(Linked(p), s, i)
    BY <1>1, <2>1, <2>4, ArrivesWhereItStops
  <2>6. Seen(t)' = LT!Call("uncell", i, mode[t], s)
    BY <1>5, SeenNext
  <2>7. LT!FindHeld(t)
    <3> HIDE DEF s
    <3>1. [u \in Threads |-> Seen(u)][t] = LT!Call("unfind", i, mode[t], 0)
      OBVIOUS
    <3>2. /\ [u \in Threads |-> Seen(u)][t].at = "unfind"
          /\ [u \in Threads |-> Seen(u)][t].index = i
          /\ [u \in Threads |-> Seen(u)][t].mode = mode[t]
      BY <3>1 DEF LT!Call
    <3>3. [q \in Procs |-> Linked(q)][p] = Linked(p)
      BY <1>1
    <3>4. \E r \in Linked(p) :
            /\ LT!StopsAt(Linked(p), r, i)
            /\ [u \in Threads |-> Seen(u)]' =
                 [[u \in Threads |-> Seen(u)] EXCEPT ![t] = LT!Call("uncell", i, mode[t], r)]
      BY <1>2, <2>5, <2>6
    <3>5. UNCHANGED <<cell, record, holds>>
      OBVIOUS
    <3> HIDE DEF i, p
    <3> QED
      BY <1>3, <3>2, <3>3, <3>4, <3>5 DEF LT!FindHeld, p
  <2>8. LT!LockNext
    BY <2>7 DEF LT!LockNext
  <2> QED
    BY <2>8
<1> QED
  BY <1>4, <1>5

\* The atomic add or subtract is the same step in both.
LEMMA DecrementIsDrop ==
  ASSUME ListInv, NEW t \in Threads, Acts(t), Decrement(t)
  PROVE  LT!LockNext
<1> DEFINE p == ProcOf[t]
<1>1. Types /\ p \in Procs /\ pc[t] = "unwalk" /\ ~(lock[t] + Span - 1 < index[t])
  BY PointerAssumption DEF ListInv, PointerAssumption, Decrement
<1>2. [u \in Threads |-> Seen(u)]' = [[u \in Threads |-> Seen(u)] EXCEPT ![t] = Seen(t)']
  BY <1>1, CallStep
<1>3. [q \in Procs |-> Linked(q)]' = [q \in Procs |-> Linked(q)]
  BY DEF Linked, Decrement
<1>4. Seen(t) = LT!Call("uncell", index[t], mode[t], lock[t])
  BY <1>1, SeenIs
<1>5. Seen(t)' = LT!Idle
  <2>1. pc'[t] = "idle"
    BY <1>1 DEF Decrement, Return, Goto, Types
  <2> QED
    BY <2>1, SeenNext
<1>6. LT!DropCell(t)
  <2>1. [u \in Threads |-> Seen(u)][t] = LT!Call("uncell", index[t], mode[t], lock[t])
    BY <1>4
  <2>2. /\ [u \in Threads |-> Seen(u)][t].at = "uncell"
        /\ [u \in Threads |-> Seen(u)][t].index = index[t]
        /\ [u \in Threads |-> Seen(u)][t].mode = mode[t]
        /\ [u \in Threads |-> Seen(u)][t].node = lock[t]
    BY <2>1 DEF LT!Call
  <2>3. /\ cell' = [cell EXCEPT ![p][lock[t]][index[t]] = LT!Released(@, mode[t])]
        /\ UNCHANGED <<record, holds>>
    BY DEF Decrement, LT!Released
  <2> QED
    BY <1>2, <1>3, <1>5, <2>2, <2>3 DEF LT!DropCell
<1> QED
  BY <1>6 DEF LT!LockNext

\* Every step of a thread is a step of LockTable or none.
LEMMA StepIsLockStep ==
  ASSUME ListInv, NEW t \in Threads, Acts(t)
  PROVE  [LT!LockNext]_(LT!lockVars)
<1> DEFINE p == ProcOf[t]
<1>0. Types /\ ThreadInv(t) /\ p \in Procs
  BY PointerAssumption DEF ListInv, PointerAssumption
<1>1. ASSUME NEW i \in Index, NEW m \in Modes, Lock(t, i, m)
      PROVE  [LT!LockNext]_(LT!lockVars)
  <2>1. /\ pc[t] = "idle" /\ pc'[t] = "walk" /\ index'[t] = i /\ mode'[t] = m
        /\ lock'[t] = next[p][Head] /\ UNCHANGED <<next, cell, record, holds>>
        /\ Cardinality(holds[t]) < MaxHolds /\ <<i, "read">> \notin holds[t]
        /\ m = "read" => <<i, "write">> \notin holds[t]
    BY <1>0, <1>1 DEF Lock, Goto, Types
  <2>2. Seen(t) = LT!Idle
    BY <2>1, SeenIs
  <2>3. Head \in Linked(p) \cup {Head} /\ (Head # Head => Head + Span <= i)
    OBVIOUS
  <2> QED
    BY <2>1, <2>2, <2>3, LoadIsFind
<1>2. ASSUME NEW i \in Index, NEW m \in Modes, Unlock(t, i, m)
      PROVE  [LT!LockNext]_(LT!lockVars)
  BY <1>2, UnlockIsUnlock
<1>3. CASE Insert(t)
  BY <1>3, InsertIsFind
<1>4. CASE InsertFails(t)
  <2>1. /\ pc[t] = "walk" /\ pc'[t] = "walk" /\ index'[t] = index[t] /\ mode'[t] = mode[t]
        /\ lock'[t] = next[p][dest[t]] /\ UNCHANGED <<next, cell, record, holds>> /\ ~Arrived(t)
    BY <1>0, <1>4 DEF InsertFails, locals, Types, Arrived
  <2>2. Walking(t) /\ index[t] \in Index
    BY <1>0, <2>1 DEF ThreadInv
  <2>3. Seen(t) = LT!Idle
    BY <2>1, SeenIs
  <2>4. dest[t] \in Linked(p) \cup {Head} /\ (dest[t] # Head => dest[t] + Span <= index[t])
    BY <2>2 DEF Walking
  <2> QED
    BY <2>1, <2>2, <2>3, <2>4, LoadIsFind DEF Walking
<1>5. CASE Advance(t)
  <2>1. /\ pc[t] = "walk" /\ pc'[t] = "walk" /\ index'[t] = index[t] /\ mode'[t] = mode[t]
        /\ lock'[t] = next[p][lock[t]] /\ UNCHANGED <<next, cell, record, holds>> /\ ~Arrived(t)
        /\ lock[t] # Null /\ index[t] - lock[t] > Span - 1
    BY <1>0, <1>5 DEF Advance, locals, Types, Arrived, Missing, Past
  <2>2. Walking(t) /\ index[t] \in Index /\ lock[t] \in Index /\ lock[t] \in Linked(p)
    BY <1>0, <2>1, LocalTypes DEF ThreadInv
  <2>3. Seen(t) = LT!Idle
    BY <2>1, SeenIs
  <2>4. lock[t] + Span <= index[t]
    <3>1. index[t] \in Nat /\ lock[t] \in Nat /\ Span \in Nat
      BY <2>2, Numbers
    <3> QED
      BY <2>1, <3>1
  <2>5. lock[t] \in Linked(p) \cup {Head} /\ (lock[t] # Head => lock[t] + Span <= index[t])
    BY <2>2, <2>4
  <2> QED
    BY <2>1, <2>2, <2>3, <2>5, LoadIsFind DEF Walking
<1>6. CASE LoadCell(t)
  <2>1. /\ pc[t] = "walk" /\ Arrived(t) /\ pc'[t] = "cas"
        /\ value'[t] = cell[p][lock[t]][index[t]]
        /\ UNCHANGED <<next, cell, record, holds, index, mode, lock>>
    BY <1>0, <1>6 DEF LoadCell, locals, Types, Arrived, Goto
  <2>2. Seen(t) = LT!Call("cell", index[t], mode[t], lock[t])
    BY <2>1, SeenIs
  <2> QED
    BY <2>1, <2>2, LoadIsRefusal
<1>7. CASE Refuse(t)
  <2>1. /\ pc[t] = "cas" /\ ~Open(t) /\ pc'[t] = "idle"
        /\ UNCHANGED <<next, cell, record, holds>>
    BY <1>0, <1>7 DEF Refuse, Return, Goto, Types
  <2>2. Seen(t)' = Seen(t)
    BY <2>1, SeenIs, SeenNext
  <2>3. [u \in Threads |-> Seen(u)]' = [u \in Threads |-> Seen(u)]
    BY <1>0, <2>2, CallStep
  <2>4. [q \in Procs |-> Linked(q)]' = [q \in Procs |-> Linked(q)]
    BY <2>1 DEF Linked
  <2> QED
    BY <2>1, <2>3, <2>4 DEF LT!lockVars
<1>8. CASE CasCell(t)
  <2>1. CASE cell[p][lock[t]][index[t]] = value[t]
    BY <1>8, <2>1, SwapIsTake
  <2>2. CASE cell[p][lock[t]][index[t]] # value[t]
    <3>1. /\ pc[t] = "cas" /\ Open(t) /\ pc'[t] = "cas"
          /\ value'[t] = cell[p][lock[t]][index[t]]
          /\ UNCHANGED <<next, cell, record, holds, index, mode, lock>>
      BY <1>0, <1>8, <2>2 DEF CasCell, locals, Types
    <3>2. Seen(t) = LT!Call("cell", index[t], mode[t], lock[t])
      BY <3>1, SeenIs
    <3> QED
      BY <3>1, <3>2, LoadIsRefusal
  <2> QED
    BY <2>1, <2>2
<1>9. CASE Fcntl(t)
  BY <1>9, FcntlIsTakeRecord
<1>10. CASE LoadHead(t)
  <2>1. /\ pc[t] = "load" /\ pc'[t] = "unwalk" /\ lock'[t] = next[p][Head]
        /\ UNCHANGED <<next, cell, record, holds, index, mode>>
    BY <1>0, <1>10 DEF LoadHead, locals, Goto, Types
  <2>2. Seen(t) = LT!Call("unfind", index[t], mode[t], 0)
    BY <2>1, SeenIs
  <2>3. Head \in Linked(p) \cup {Head} /\ (Head # Head => Head + Span <= index[t])
    OBVIOUS
  <2> QED
    BY <2>1, <2>2, <2>3, LoadIsFindHeld
<1>11. CASE UnlockAdvance(t)
  <2>1. /\ pc[t] = "unwalk" /\ pc'[t] = "unwalk" /\ lock'[t] = next[p][lock[t]]
        /\ UNCHANGED <<next, cell, record, holds, index, mode>>
        /\ lock[t] + Span - 1 < index[t]
    BY <1>0, <1>11 DEF UnlockAdvance, locals, Types
  <2>2. Seen(t) = LT!Call("unfind", index[t], mode[t], 0)
    BY <2>1, SeenIs
  <2>3. index[t] \in Index /\ lock[t] \in Index /\ lock[t] \in Linked(p)
    BY <2>1, LocalTypes
  <2>4. lock[t] + Span <= index[t]
    <3>1. index[t] \in Nat /\ lock[t] \in Nat /\ Span \in Nat
      BY <2>3, Numbers
    <3> QED
      BY <2>1, <3>1
  <2>5. lock[t] \in Linked(p) \cup {Head} /\ (lock[t] # Head => lock[t] + Span <= index[t])
    BY <2>3, <2>4
  <2> QED
    BY <2>1, <2>2, <2>5, LoadIsFindHeld
<1>12. CASE Decrement(t)
  BY <1>12, DecrementIsDrop
<1> QED
  BY <1>1, <1>2, <1>3, <1>4, <1>5, <1>6, <1>7, <1>8, <1>9, <1>10, <1>11, <1>12
     DEF Acts, Step

\* ImplementsLockTable: the loads and compare-and-swaps of logdb_log_lock and
\* logdb_log_unlock, in every interleaving, behave as if a walk of the list
\* were one step, for any number of processes, threads and entries and any
\* span of a node.
THEOREM RefinesLockTable == Spec => ImplementsLockTable
<1>1. Init => LT!LockInit
  <2> SUFFICES ASSUME Init PROVE LT!LockInit
    OBVIOUS
  <2>1. [p \in Procs |-> Linked(p)] = [p \in Procs |-> {}]
    <3>1. ASSUME NEW p \in Procs PROVE Linked(p) = {}
      BY PointerAssumption DEF Init, Linked, PointerAssumption
    <3> QED
      BY <3>1
  <2>2. [t \in Threads |-> Seen(t)] = [t \in Threads |-> LT!Idle]
    <3>1. ASSUME NEW t \in Threads PROVE Seen(t) = LT!Idle
      <4>1. pc[t] = "idle"
        BY DEF Init
      <4> QED
        BY <4>1, SeenIs
    <3> QED
      BY <3>1
  <2> QED
    BY <2>1, <2>2 DEF Init, LT!LockInit, LT!Zeros
<1>2. ListInv /\ [Next]_vars => [LT!LockNext]_(LT!lockVars)
  <2> SUFFICES ASSUME ListInv, [Next]_vars PROVE [LT!LockNext]_(LT!lockVars)
    OBVIOUS
  <2>1. CASE UNCHANGED vars
    <3>1. UNCHANGED <<next, cell, record, holds, pc, index, mode, dest, lock, value>>
      BY <2>1 DEF vars
    <3>2. [q \in Procs |-> Linked(q)]' = [q \in Procs |-> Linked(q)]
      BY <3>1 DEF Linked
    <3>3. [u \in Threads |-> Seen(u)]' = [u \in Threads |-> Seen(u)]
      <4>1. ASSUME NEW u \in Threads PROVE Seen(u)' = Seen(u)
        <5>1. At(u)' = At(u)
          BY <3>1 DEF At, Missing, Past, Open
        <5> QED
          BY <3>1, <5>1 DEF Seen
      <4> QED
        BY <4>1
    <3> QED
      BY <3>1, <3>2, <3>3 DEF LT!lockVars
  <2>2. CASE Next
    <3>1. PICK t \in Threads : Acts(t)
      BY <2>2 DEF Next, Acts
    <3> QED
      BY <3>1, StepIsLockStep
  <2> QED
    BY <2>1, <2>2
<1> QED
  BY <1>1, <1>2, ListAlways, PTL DEF Spec, ImplementsLockTable, LT!LockSpec
-----------------------------------------------------------------------------
(***************************************************************************)
(* What is proved of LockTable holds of the pointers.                      *)
(***************************************************************************)

LP == INSTANCE LockTableProofs WITH
        nodes <- [p \in Procs |-> Linked(p)],
        call  <- [t \in Threads |-> Seen(t)]

\* LogLock's constants are LockTable's.
LEMMA LockConstants == LP!LockAssumption
BY PointerAssumption DEF PointerAssumption, LP!LockAssumption, LP!IsFiniteSet, IsFiniteSet

\* LockTable and the copy of it that its proofs are about have the same steps.
LEMMA SameSteps == [LT!LockNext]_(LT!lockVars) => [LP!LockNext]_(LP!lockVars)
<1>1. ASSUME NEW t, NEW i, NEW m PROVE LT!Find(t, i, m) => LP!Find(t, i, m)
  BY DEF LT!Find, LP!Find, LT!StopsAt, LP!StopsAt, LT!NeedsNode, LP!NeedsNode,
         LT!Reaches, LP!Reaches, LT!Call, LP!Call, LT!Zeros, LP!Zeros
<1>2. ASSUME NEW t, NEW i, NEW m PROVE LT!Unlock(t, i, m) => LP!Unlock(t, i, m)
  BY DEF LT!Unlock, LP!Unlock, LT!Call, LP!Call
<1>3. ASSUME NEW t PROVE LT!TakeCell(t) => LP!TakeCell(t)
  BY DEF LT!TakeCell, LP!TakeCell, LT!Available, LP!Available, LT!Taken, LP!Taken,
         LT!Idle, LP!Idle
<1>4. ASSUME NEW t PROVE LT!TakeRecord(t) => LP!TakeRecord(t)
  BY DEF LT!TakeRecord, LP!TakeRecord, LT!Grantable, LP!Grantable, LT!Idle, LP!Idle,
         LT!Call, LP!Call
<1>5. ASSUME NEW t PROVE LT!FindHeld(t) => LP!FindHeld(t)
  BY DEF LT!FindHeld, LP!FindHeld, LT!StopsAt, LP!StopsAt, LT!Reaches, LP!Reaches,
         LT!Call, LP!Call
<1>6. ASSUME NEW t PROVE LT!DropCell(t) => LP!DropCell(t)
  BY DEF LT!DropCell, LP!DropCell, LT!Released, LP!Released, LT!Idle, LP!Idle
<1>7. ASSUME NEW p PROVE LT!LockCrash(p) => LP!LockCrash(p)
  BY DEF LT!LockCrash, LP!LockCrash, LT!Zeros, LP!Zeros, LT!Idle, LP!Idle
<1>8. \A S : LT!Cardinality(S) = LP!Cardinality(S)
  BY DEF LT!Cardinality, LP!Cardinality
<1>9. LT!LockNext => LP!LockNext
  BY <1>1, <1>2, <1>3, <1>4, <1>5, <1>6, <1>7, <1>8 DEF LT!LockNext, LP!LockNext
<1> QED
  BY <1>9 DEF LT!lockVars, LP!lockVars

\* Nodes, counters and fcntl locks do their work at the level of the pointers:
\* a counter that lock or unlock touches lies inside a node of the list, a
\* counter counts its owners, two threads hold one write lock only through an
\* overlap of nodes in a multithreaded process, and the fcntl lock under a write
\* lock stays.  The four are the theorems of LockTableProofs, carried over by
\* RefinesLockTable.
THEOREM PointersLock ==
  Spec => [](LT!CellInBounds /\ LT!CellsCountOwners /\ LT!WriterExclusion /\ LT!WriteInKernel)
<1>1. LT!LockInit => LP!LockInit
  BY DEF LT!LockInit, LP!LockInit, LT!Zeros, LP!Zeros, LT!Idle, LP!Idle
<1>2. LP!LockSpec => []LP!CellInBounds
  BY LockConstants, LP!CountersInBounds
<1>3. LP!LockSpec => []LP!CellsCountOwners
  BY LockConstants, LP!CountersCount
<1>4. LP!LockSpec => []LP!WriterExclusion
  BY LockConstants, LP!WritersExclude
<1>5. LP!LockSpec => []LP!WriteInKernel
  BY LockConstants, LP!WritersKeepRecord
<1>6. LP!CellInBounds => LT!CellInBounds
  BY DEF LP!CellInBounds, LT!CellInBounds, LP!Covers, LT!Covers
<1>7. LP!CellsCountOwners => LT!CellsCountOwners
  BY DEF LP!CellsCountOwners, LT!CellsCountOwners, LP!NoOverlap, LT!NoOverlap, LP!Covers, LT!Covers,
         LP!Owners, LT!Owners, LP!Owns, LT!Owns, LP!Cardinality, LT!Cardinality
<1>8. LP!WriterExclusion => LT!WriterExclusion
  BY DEF LP!WriterExclusion, LT!WriterExclusion, LP!Sound, LT!Sound, LP!NoOverlap, LT!NoOverlap,
         LP!Covers, LT!Covers, LP!SingleThreaded, LT!SingleThreaded
<1>9. LP!WriteInKernel => LT!WriteInKernel
  BY DEF LP!WriteInKernel, LT!WriteInKernel, LP!Sound, LT!Sound, LP!NoOverlap, LT!NoOverlap,
         LP!Covers, LT!Covers, LP!SingleThreaded, LT!SingleThreaded
<1>10. LT!LockSpec => LP!LockSpec
  BY <1>1, SameSteps, PTL DEF LT!LockSpec, LP!LockSpec
<1> QED
  BY <1>2, <1>3, <1>4, <1>5, <1>6, <1>7, <1>8, <1>9, <1>10, RefinesLockTable, PTL
     DEF ImplementsLockTable
=============================================================================
