-------------------------- MODULE LockTableProofs --------------------------
(***************************************************************************)
(* Proofs about LockTable, for any number of processes, threads and        *)
(* entries and any size of node.  A step of a specification that uses the  *)
(* locks is a LockStep, whatever else it does: Lease cites the same lemmas.*)
(***************************************************************************)
EXTENDS LockTable, FiniteSetTheorems, TLAPS

\* Any step on the locks.
LockStep ==
    \/ \E t \in Threads :
        \/ \E i \in Index, m \in {"read", "write"} : Find(t, i, m) \/ Unlock(t, i, m)
        \/ TakeCell(t) \/ TakeRecord(t) \/ FindHeld(t) \/ DropCell(t)
    \/ \E p \in Procs : LockCrash(p)
    \/ UNCHANGED lockVars

\* A lock that is held has a counter somewhere in the list.
HoldsCovered ==
    \A t \in Threads : \A l \in holds[t] :
        \E s \in nodes[ProcOf[t]] : Covers(s, l[1])

\* Two processes have fcntl locks on an entry only if both are for reading.
RecordExclusion ==
    \A i \in Index : \A p, q \in Procs :
        p # q /\ record[i][p] = "write" => record[i][q] = "none"

\* A thread holds an entry in one mode, and asks again only for writing.
OneMode ==
    \A t \in Threads : \A i \in Index :
        /\ ~(<<i, "read">> \in holds[t] /\ <<i, "write">> \in holds[t])
        /\ call[t].at \in {"cell", "fcntl"} /\ call[t].index = i =>
            /\ <<i, "read">> \notin holds[t]
            /\ call[t].mode = "read" => <<i, "write">> \notin holds[t]

\* Where counters are unique, a thread that has taken a counter in the call it
\* is in does not hold that entry through an earlier call.
CallApart ==
    \A t \in Threads : \A i \in Index :
        /\ NoOverlap(ProcOf[t])
        /\ call[t].at \in {"fcntl", "unfind", "uncell"}
        /\ call[t].index = i
        => <<i, "read">> \notin holds[t] /\ <<i, "write">> \notin holds[t]

LockInv ==
    /\ LockTypeOK
    /\ CellInBounds
    /\ HoldsCovered
    /\ RecordExclusion
    /\ OneMode
    /\ CallApart
    /\ CellsCountOwners
    /\ WriteInKernel
-----------------------------------------------------------------------------
(***************************************************************************)
(* Types.                                                                  *)
(***************************************************************************)

\* Init gives every variable its type.
LEMMA InitType == LockInit => LockTypeOK
  BY LockAssumption DEF LockAssumption, LockInit, LockTypeOK, Zeros, Idle, Calls

\* The record that describes a call is one of Calls.
LEMMA CallType ==
  ASSUME NEW a \in {"none", "cell", "fcntl", "unfind", "uncell"},
         NEW i \in Nat, NEW m \in {"read", "write"}, NEW s \in Nat
  PROVE  /\ Call(a, i, m, s) \in Calls
         /\ Call(a, i, m, s).at = a
         /\ Call(a, i, m, s).index = i
         /\ Call(a, i, m, s).mode = m
         /\ Call(a, i, m, s).node = s
         /\ Idle \in Calls
         /\ Idle.at = "none"
  BY DEF Call, Calls, Idle

\* What a lock or an unlock stores in a counter is an integer.
LEMMA CounterType ==
  \A v \in Int : \A m : Taken(v, m) \in Int /\ Released(v, m) \in Int
  BY DEF Taken, Released

\* A counter is an integer.
LEMMA CounterIsInt ==
  ASSUME LockTypeOK, NEW p \in Procs, NEW s \in Index, NEW i \in Index
  PROVE  cell[p][s][i] \in Int
  BY DEF LockTypeOK

\* Every step on the locks keeps the types.
LEMMA StepType == LockTypeOK /\ LockStep => LockTypeOK'
<1> SUFFICES ASSUME LockTypeOK, LockStep PROVE LockTypeOK'
  OBVIOUS
<1> USE LockAssumption DEF LockAssumption
<1> \A i \in Index : i \in Nat
  OBVIOUS
<1> Zeros \in [Index -> Int]
  BY DEF Zeros
<1>1. ASSUME NEW t \in Threads, NEW i \in Index, NEW m \in {"read", "write"},
             Find(t, i, m)
      PROVE  LockTypeOK'
  <2>1. CASE \E s \in nodes[ProcOf[t]] :
               /\ call' = [call EXCEPT ![t] = Call("cell", i, m, s)]
               /\ UNCHANGED <<nodes, cell>>
    <3> PICK s \in nodes[ProcOf[t]] :
               /\ call' = [call EXCEPT ![t] = Call("cell", i, m, s)]
               /\ UNCHANGED <<nodes, cell>>
      BY <2>1
    <3> s \in Nat
      BY DEF LockTypeOK
    <3> /\ Call("cell", i, m, s) \in Calls
        /\ Call("cell", i, m, s).index = i
        /\ Call("cell", i, m, s).node = s
      BY CallType
    <3> QED
      BY <1>1 DEF Find, LockTypeOK
  <2>2. CASE /\ nodes' = [nodes EXCEPT ![ProcOf[t]] = @ \cup {i}]
             /\ cell' = [cell EXCEPT ![ProcOf[t]][i] = Zeros]
             /\ call' = [call EXCEPT ![t] = Call("cell", i, m, i)]
    <3> /\ Call("cell", i, m, i) \in Calls
        /\ Call("cell", i, m, i).index = i
        /\ Call("cell", i, m, i).node = i
      BY CallType
    <3> QED
      BY <1>1, <2>2 DEF Find, LockTypeOK
  <2> QED
    BY <1>1, <2>1, <2>2 DEF Find
<1>2. ASSUME NEW t \in Threads, TakeCell(t) PROVE LockTypeOK'
  <2> DEFINE c == call[t]
             p == ProcOf[t]
             v == cell[p][c.node][c.index]
  <2> /\ [c EXCEPT !.at = "fcntl"] \in Calls
      /\ [c EXCEPT !.at = "fcntl"].index = c.index
      /\ [c EXCEPT !.at = "fcntl"].at = "fcntl"
    BY DEF LockTypeOK, Calls
  <2> Idle \in Calls /\ Idle.at = "none"
    BY DEF Idle, Calls
  <2> /\ c.index \in Index
      /\ c.node \in Index
      /\ p \in Procs
      /\ v \in Int
    BY <1>2 DEF TakeCell, LockTypeOK
  <2> Taken(v, c.mode) \in Int
    BY CounterType
  <2>1. CASE /\ cell' = [cell EXCEPT ![p][c.node][c.index] = Taken(v, c.mode)]
             /\ call' = [call EXCEPT ![t].at = "fcntl"]
    <3> HIDE DEF v
    <3> cell' \in [Procs -> [Index -> [Index -> Int]]]
      BY <2>1 DEF LockTypeOK
    <3> QED
      BY <1>2, <2>1 DEF TakeCell, LockTypeOK
  <2>2. CASE call' = [call EXCEPT ![t] = Idle] /\ cell' = cell
    BY <1>2, <2>2 DEF TakeCell, LockTypeOK
  <2> QED
    BY <1>2, <2>1, <2>2 DEF TakeCell
<1>3. ASSUME NEW t \in Threads, TakeRecord(t) PROVE LockTypeOK'
  <2> DEFINE c == call[t]
  <2> /\ c.index \in Index
      /\ c.index \in Nat
      /\ c.mode \in {"read", "write"}
    BY <1>3 DEF TakeRecord, LockTypeOK, Calls
  <2> HIDE DEF c
  <2> /\ Call("unfind", c.index, c.mode, 0) \in Calls
      /\ Call("unfind", c.index, c.mode, 0).index = c.index
      /\ Call("unfind", c.index, c.mode, 0).at = "unfind"
      /\ Idle \in Calls
      /\ Idle.at = "none"
    BY CallType
  <2>1. CASE /\ record' = [record EXCEPT ![c.index][ProcOf[t]] = c.mode]
             /\ holds' = [holds EXCEPT ![t] = @ \cup {<<c.index, c.mode>>}]
             /\ call' = [call EXCEPT ![t] = Idle]
    <3> record' \in [Index -> [Procs -> {"none", "read", "write"}]]
      BY <2>1 DEF LockTypeOK
    <3> holds' \in [Threads -> SUBSET (Index \X {"read", "write"})]
      BY <2>1 DEF LockTypeOK
    <3> QED
      BY <1>3, <2>1 DEF TakeRecord, LockTypeOK
  <2>2. CASE /\ call' = [call EXCEPT ![t] = Call("unfind", c.index, c.mode, 0)]
             /\ UNCHANGED <<record, holds>>
    BY <1>3, <2>2 DEF TakeRecord, LockTypeOK
  <2> QED
    BY <1>3, <2>1, <2>2 DEF TakeRecord, c
<1>4. ASSUME NEW t \in Threads, NEW i \in Index, NEW m \in {"read", "write"},
             Unlock(t, i, m)
      PROVE  LockTypeOK'
  <2> /\ Call("unfind", i, m, 0) \in Calls
      /\ Call("unfind", i, m, 0).index = i
      /\ Call("unfind", i, m, 0).at = "unfind"
    BY CallType
  <2> QED
    BY <1>4 DEF Unlock, LockTypeOK
<1>5. ASSUME NEW t \in Threads, FindHeld(t) PROVE LockTypeOK'
  <2> PICK s \in nodes[ProcOf[t]] :
        call' = [call EXCEPT ![t] = Call("uncell", call[t].index, call[t].mode, s)]
    BY <1>5 DEF FindHeld
  <2> /\ s \in Nat
      /\ call[t].index \in Index
      /\ call[t].mode \in {"read", "write"}
    BY <1>5 DEF FindHeld, LockTypeOK, Calls
  <2> /\ Call("uncell", call[t].index, call[t].mode, s) \in Calls
      /\ Call("uncell", call[t].index, call[t].mode, s).index = call[t].index
      /\ Call("uncell", call[t].index, call[t].mode, s).node = s
    BY CallType
  <2> QED
    BY <1>5 DEF FindHeld, LockTypeOK
<1>6. ASSUME NEW t \in Threads, DropCell(t) PROVE LockTypeOK'
  <2> Idle \in Calls /\ Idle.at = "none"
    BY DEF Idle, Calls
  <2> DEFINE c == call[t]
             p == ProcOf[t]
  <2> /\ c.index \in Index
      /\ c.node \in Index
      /\ p \in Procs
    BY <1>6 DEF DropCell, LockTypeOK
  <2> cell' \in [Procs -> [Index -> [Index -> Int]]]
    <3> cell[p][c.node][c.index] \in Int
      BY CounterIsInt
    <3> Released(cell[p][c.node][c.index], c.mode) \in Int
      BY CounterType
    <3> HIDE DEF c, p
    <3> cell' = [cell EXCEPT ![p][c.node][c.index] =
                   Released(cell[p][c.node][c.index], c.mode)]
      BY <1>6 DEF DropCell, c, p
    <3> QED
      BY DEF LockTypeOK
  <2> QED
    BY <1>6 DEF DropCell, LockTypeOK
<1>7. ASSUME NEW p \in Procs, LockCrash(p) PROVE LockTypeOK'
  <2> Idle \in Calls /\ Idle.at = "none"
    BY DEF Idle, Calls
  <2> QED
    BY <1>7 DEF LockCrash, LockTypeOK
<1>8. CASE UNCHANGED lockVars
  BY <1>8 DEF lockVars, LockTypeOK
<1> QED
  BY <1>1, <1>2, <1>3, <1>4, <1>5, <1>6, <1>7, <1>8 DEF LockStep
-----------------------------------------------------------------------------
(***************************************************************************)
(* Every entry that is locked, or being locked, has a node.                *)
(***************************************************************************)

\* A walk that stops at or before entry i has found its counter, and a walk
\* for an entry that has a counter stops there.
LEMMA WalkCovers ==
  ASSUME NEW S \in SUBSET Index, NEW s \in Index, NEW i \in Index
  PROVE  /\ StopsAt(S, s, i) /\ s <= i => Covers(s, i)
         /\ StopsAt(S, s, i) /\ (\E r \in S : Covers(r, i)) => Covers(s, i)
         /\ Covers(i, i)
  BY LockAssumption DEF LockAssumption, StopsAt, Reaches, Covers

\* What a walk that needs no new node, or inserts one, leaves behind.
LEMMA FindCovers ==
  ASSUME LockTypeOK, NEW t \in Threads, NEW i \in Index,
         NEW m \in {"read", "write"}, Find(t, i, m)
  PROVE  \E s \in Index :
           /\ call' = [call EXCEPT ![t] = Call("cell", i, m, s)]
           /\ s \in nodes'[ProcOf[t]]
           /\ Covers(s, i)
           /\ \A p \in Procs : nodes[p] \subseteq nodes'[p]
  <1> USE LockAssumption DEF LockAssumption, LockTypeOK
  <1>1. CASE \E s \in nodes[ProcOf[t]] :
               /\ StopsAt(nodes[ProcOf[t]], s, i)
               /\ s <= i
               /\ call' = [call EXCEPT ![t] = Call("cell", i, m, s)]
               /\ UNCHANGED <<nodes, cell>>
    BY <1>1, WalkCovers
  <1>2. CASE /\ nodes' = [nodes EXCEPT ![ProcOf[t]] = @ \cup {i}]
             /\ call' = [call EXCEPT ![t] = Call("cell", i, m, i)]
    BY <1>2, WalkCovers
  <1> QED
    BY <1>1, <1>2, Find(t, i, m) DEF Find

\* Lock and unlock find the counter they use inside a node of the list.
LEMMA StepCovers ==
  LockTypeOK /\ CellInBounds /\ HoldsCovered /\ LockStep
    => CellInBounds' /\ HoldsCovered'
<1> SUFFICES ASSUME LockTypeOK, CellInBounds, HoldsCovered, LockStep
             PROVE  CellInBounds' /\ HoldsCovered'
  OBVIOUS
<1> USE LockAssumption DEF LockAssumption
<1> Idle.at = "none"
  BY DEF Idle
<1>0. LockTypeOK'
  BY StepType
<1>1. ASSUME NEW t \in Threads, NEW i \in Index, NEW m \in {"read", "write"},
             Find(t, i, m)
      PROVE  CellInBounds' /\ HoldsCovered'
  <2>1. PICK s \in Index :
           /\ call' = [call EXCEPT ![t] = Call("cell", i, m, s)]
           /\ s \in nodes'[ProcOf[t]]
           /\ Covers(s, i)
           /\ \A p \in Procs : nodes[p] \subseteq nodes'[p]
    BY <1>1, FindCovers
  <2>2. /\ Call("cell", i, m, s).at = "cell"
        /\ Call("cell", i, m, s).index = i
        /\ Call("cell", i, m, s).node = s
    BY DEF Call
  <2>3. CellInBounds'
    BY <1>1, <2>1, <2>2 DEF CellInBounds, LockTypeOK
  <2>4. holds' = holds
    BY <1>1 DEF Find
  <2>5. HoldsCovered'
    BY <2>1, <2>4 DEF HoldsCovered, LockTypeOK
  <2> QED
    BY <2>3, <2>5
<1>2. ASSUME NEW t \in Threads, TakeCell(t) PROVE CellInBounds' /\ HoldsCovered'
  <2>1. nodes' = nodes /\ holds' = holds
    BY <1>2 DEF TakeCell
  <2>2. \/ call' = [call EXCEPT ![t].at = "fcntl"]
        \/ call' = [call EXCEPT ![t] = Idle]
    BY <1>2 DEF TakeCell
  <2>3. /\ [call[t] EXCEPT !.at = "fcntl"].at = "fcntl"
        /\ [call[t] EXCEPT !.at = "fcntl"].index = call[t].index
    BY DEF LockTypeOK, Calls
  <2>4. \E s \in nodes[ProcOf[t]] : Covers(s, call[t].index)
    BY <1>2 DEF TakeCell, CellInBounds
  <2>5. CellInBounds'
    BY <2>1, <2>2, <2>3, <2>4 DEF CellInBounds, LockTypeOK
  <2>6. HoldsCovered'
    BY <2>1 DEF HoldsCovered
  <2> QED
    BY <2>5, <2>6
<1>3. ASSUME NEW t \in Threads, TakeRecord(t) PROVE CellInBounds' /\ HoldsCovered'
  <2> DEFINE c == call[t]
  <2>1. /\ Call("unfind", c.index, c.mode, 0).at = "unfind"
        /\ Call("unfind", c.index, c.mode, 0).index = c.index
    BY DEF Call
  <2>2. nodes' = nodes
    BY <1>3 DEF TakeRecord
  <2>3. CellInBounds'
    BY <1>3, <2>1, <2>2 DEF TakeRecord, CellInBounds, LockTypeOK
  <2>4. \E s \in nodes[ProcOf[t]] : Covers(s, c.index)
    BY <1>3 DEF TakeRecord, CellInBounds
  <2>5. \A u \in Threads : holds'[u] \subseteq
          holds[u] \cup (IF u = t THEN {<<c.index, c.mode>>} ELSE {})
    BY <1>3 DEF TakeRecord, LockTypeOK
  <2>6. HoldsCovered'
    BY <2>2, <2>4, <2>5 DEF HoldsCovered
  <2> QED
    BY <2>3, <2>6
<1>4. ASSUME NEW t \in Threads, NEW i \in Index, NEW m \in {"read", "write"},
             Unlock(t, i, m)
      PROVE  CellInBounds' /\ HoldsCovered'
  <2>1. /\ Call("unfind", i, m, 0).at = "unfind"
        /\ Call("unfind", i, m, 0).index = i
    BY DEF Call
  <2>2. \E s \in nodes[ProcOf[t]] : Covers(s, i)
    BY <1>4 DEF Unlock, HoldsCovered
  <2>3. CellInBounds'
    BY <1>4, <2>1, <2>2 DEF Unlock, CellInBounds, LockTypeOK
  <2>4. nodes' = nodes /\ \A u \in Threads : holds'[u] \subseteq holds[u]
    BY <1>4 DEF Unlock, LockTypeOK
  <2>5. HoldsCovered'
    BY <2>4 DEF HoldsCovered
  <2> QED
    BY <2>3, <2>5
<1>5. ASSUME NEW t \in Threads, FindHeld(t) PROVE CellInBounds' /\ HoldsCovered'
  <2> DEFINE c == call[t]
             N == nodes[ProcOf[t]]
  <2>1. PICK s \in N :
          /\ StopsAt(N, s, c.index)
          /\ call' = [call EXCEPT ![t] = Call("uncell", c.index, c.mode, s)]
    BY <1>5 DEF FindHeld
  <2>2. c.index \in Index /\ s \in Index /\ N \in SUBSET Index
    BY <1>5 DEF FindHeld, LockTypeOK
  <2>3. \E r \in N : Covers(r, c.index)
    BY <1>5 DEF FindHeld, CellInBounds
  <2>4. Covers(s, c.index)
    BY <2>1, <2>2, <2>3, WalkCovers
  <2>5. /\ Call("uncell", c.index, c.mode, s).at = "uncell"
        /\ Call("uncell", c.index, c.mode, s).index = c.index
        /\ Call("uncell", c.index, c.mode, s).node = s
    BY DEF Call
  <2>6. CellInBounds'
    BY <1>5, <2>1, <2>4, <2>5 DEF FindHeld, CellInBounds, LockTypeOK
  <2>7. HoldsCovered'
    BY <1>5 DEF FindHeld, HoldsCovered
  <2> QED
    BY <2>6, <2>7
<1>6. ASSUME NEW t \in Threads, DropCell(t) PROVE CellInBounds' /\ HoldsCovered'
  BY <1>6 DEF DropCell, CellInBounds, HoldsCovered, LockTypeOK
<1>7. ASSUME NEW p \in Procs, LockCrash(p) PROVE CellInBounds' /\ HoldsCovered'
  <2>1. \A u \in Threads :
          IF ProcOf[u] = p
          THEN call'[u] = Idle /\ holds'[u] = {}
          ELSE /\ call'[u] = call[u]
               /\ holds'[u] = holds[u]
               /\ nodes'[ProcOf[u]] = nodes[ProcOf[u]]
    BY <1>7 DEF LockCrash, LockTypeOK
  <2> QED
    BY <2>1 DEF CellInBounds, HoldsCovered
<1>8. CASE UNCHANGED lockVars
  BY <1>8 DEF lockVars, CellInBounds, HoldsCovered
<1> QED
  BY <1>1, <1>2, <1>3, <1>4, <1>5, <1>6, <1>7, <1>8 DEF LockStep
-----------------------------------------------------------------------------
(***************************************************************************)
(* The kernel's locks, and the modes in which a thread holds an entry.     *)
(***************************************************************************)

\* The kernel never has a write lock of one process beside a lock of another.
LEMMA StepRecords == LockTypeOK /\ RecordExclusion /\ LockStep => RecordExclusion'
<1> SUFFICES ASSUME LockTypeOK, RecordExclusion, LockStep PROVE RecordExclusion'
  OBVIOUS
<1> USE LockAssumption DEF LockAssumption
<1>1. ASSUME NEW t \in Threads, TakeRecord(t) PROVE RecordExclusion'
  <2> DEFINE j == call[t].index
             p == ProcOf[t]
  <2> j \in Index /\ p \in Procs
    BY <1>1 DEF TakeRecord, LockTypeOK
  <2>1. CASE /\ Grantable(j, p, call[t].mode)
             /\ record' = [record EXCEPT ![j][p] = call[t].mode]
    BY <2>1 DEF Grantable, RecordExclusion, LockTypeOK
  <2>2. CASE record' = record
    BY <2>2 DEF RecordExclusion
  <2> QED
    BY <1>1, <2>1, <2>2 DEF TakeRecord
<1>2. ASSUME NEW t \in Threads, NEW i \in Index, NEW m \in {"read", "write"},
             Unlock(t, i, m)
      PROVE  RecordExclusion'
  <2> ProcOf[t] \in Procs
    OBVIOUS
  <2> QED
    BY <1>2 DEF Unlock, RecordExclusion, LockTypeOK
<1>3. ASSUME NEW p \in Procs, LockCrash(p) PROVE RecordExclusion'
  <2>1. \A i \in Index : \A q \in Procs :
          record'[i][q] = IF q = p THEN "none" ELSE record[i][q]
    BY <1>3 DEF LockCrash, LockTypeOK
  <2> QED
    BY <2>1 DEF RecordExclusion
<1>4. CASE record' = record
  BY <1>4 DEF RecordExclusion
<1> QED
  BY <1>1, <1>2, <1>3, <1>4
     DEF LockStep, lockVars, Find, TakeCell, FindHeld, DropCell

\* A thread holds an entry in one mode at a time.
LEMMA StepModes == LockTypeOK /\ OneMode /\ LockStep => OneMode'
<1> SUFFICES ASSUME LockTypeOK, OneMode, LockStep PROVE OneMode'
  OBVIOUS
<1> USE LockAssumption DEF LockAssumption
<1> Idle.at = "none"
  BY DEF Idle
<1>1. ASSUME NEW t \in Threads, NEW i \in Index, NEW m \in {"read", "write"},
             Find(t, i, m)
      PROVE  OneMode'
  <2>1. PICK s \in Index :
           /\ call' = [call EXCEPT ![t] = Call("cell", i, m, s)]
           /\ s \in nodes'[ProcOf[t]]
           /\ Covers(s, i)
           /\ \A p \in Procs : nodes[p] \subseteq nodes'[p]
    BY <1>1, FindCovers
  <2>2. /\ Call("cell", i, m, s).index = i
        /\ Call("cell", i, m, s).mode = m
    BY DEF Call
  <2> QED
    BY <1>1, <2>1, <2>2 DEF Find, OneMode, LockTypeOK
<1>2. ASSUME NEW t \in Threads, TakeCell(t) PROVE OneMode'
  <2>1. \/ call' = [call EXCEPT ![t].at = "fcntl"]
        \/ call' = [call EXCEPT ![t] = Idle]
    BY <1>2 DEF TakeCell
  <2>2. /\ [call[t] EXCEPT !.at = "fcntl"].index = call[t].index
        /\ [call[t] EXCEPT !.at = "fcntl"].mode = call[t].mode
    BY DEF LockTypeOK, Calls
  <2>3. holds' = holds /\ call[t].at = "cell"
    BY <1>2 DEF TakeCell
  <2> QED
    BY <2>1, <2>2, <2>3 DEF OneMode, LockTypeOK
<1>3. ASSUME NEW t \in Threads, TakeRecord(t) PROVE OneMode'
  <2> DEFINE c == call[t]
  <2>1. c.index \in Index /\ c.mode \in {"read", "write"} /\ c.at = "fcntl"
    BY <1>3 DEF TakeRecord, LockTypeOK, Calls
  <2>2. CASE /\ holds' = [holds EXCEPT ![t] = @ \cup {<<c.index, c.mode>>}]
             /\ call' = [call EXCEPT ![t] = Idle]
    BY <2>1, <2>2 DEF OneMode, LockTypeOK
  <2>3. CASE /\ holds' = holds
             /\ call' = [call EXCEPT ![t] = Call("unfind", c.index, c.mode, 0)]
    <3>1. Call("unfind", c.index, c.mode, 0).at = "unfind"
      BY DEF Call
    <3> QED
      BY <2>3, <3>1 DEF OneMode, LockTypeOK
  <2> QED
    BY <1>3, <2>2, <2>3 DEF TakeRecord
<1>4. ASSUME NEW t \in Threads, NEW i \in Index, NEW m \in {"read", "write"},
             Unlock(t, i, m)
      PROVE  OneMode'
  <2>1. Call("unfind", i, m, 0).at = "unfind"
    BY DEF Call
  <2>2. \A u \in Threads : holds'[u] \subseteq holds[u]
    BY <1>4 DEF Unlock, LockTypeOK
  <2> QED
    BY <1>4, <2>1, <2>2 DEF Unlock, OneMode, LockTypeOK
<1>5. ASSUME NEW t \in Threads, FindHeld(t) PROVE OneMode'
  <2>1. PICK s : call' = [call EXCEPT
                   ![t] = Call("uncell", call[t].index, call[t].mode, s)]
    BY <1>5 DEF FindHeld
  <2>2. Call("uncell", call[t].index, call[t].mode, s).at = "uncell"
    BY DEF Call
  <2> QED
    BY <1>5, <2>1, <2>2 DEF FindHeld, OneMode, LockTypeOK
<1>6. ASSUME NEW t \in Threads, DropCell(t) PROVE OneMode'
  BY <1>6 DEF DropCell, OneMode, LockTypeOK
<1>7. ASSUME NEW p \in Procs, LockCrash(p) PROVE OneMode'
  BY <1>7 DEF LockCrash, OneMode, LockTypeOK
<1>8. CASE UNCHANGED lockVars
  BY <1>8 DEF lockVars, OneMode
<1> QED
  BY <1>1, <1>2, <1>3, <1>4, <1>5, <1>6, <1>7, <1>8 DEF LockStep
-----------------------------------------------------------------------------
(***************************************************************************)
(* The counters count.                                                     *)
(***************************************************************************)

\* A step does not take an overlap away, unless it takes the list away.
LEMMA OverlapStays ==
  ASSUME LockTypeOK, LockStep, NEW p \in Procs, NoOverlap(p)'
  PROVE  NoOverlap(p) \/ LockCrash(p)
<1> USE LockAssumption DEF LockAssumption
<1>1. CASE nodes[p] \subseteq nodes'[p]
  BY <1>1 DEF NoOverlap
<1>2. ASSUME NEW t \in Threads, NEW i \in Index, NEW m \in {"read", "write"},
             Find(t, i, m)
      PROVE  nodes[p] \subseteq nodes'[p]
  <2>1. PICK s \in Index :
           /\ call' = [call EXCEPT ![t] = Call("cell", i, m, s)]
           /\ s \in nodes'[ProcOf[t]]
           /\ Covers(s, i)
           /\ \A q \in Procs : nodes[q] \subseteq nodes'[q]
    BY <1>2, FindCovers
  <2> QED
    BY <2>1
<1>3. ASSUME NEW q \in Procs, LockCrash(q)
      PROVE  nodes[p] \subseteq nodes'[p] \/ LockCrash(p)
  BY <1>3 DEF LockCrash, LockTypeOK
<1>4. CASE nodes' = nodes
  BY <1>4, <1>1
<1> QED
  BY <1>1, <1>2, <1>3, <1>4
     DEF LockStep, lockVars, TakeCell, TakeRecord, Unlock, FindHeld, DropCell

\* These steps change neither who owns what nor any counter in use.
LEMMA OwnsKept ==
  ASSUME LockTypeOK, NEW t \in Threads,
         \/ \E i \in Index, m \in {"read", "write"} : Find(t, i, m) \/ Unlock(t, i, m)
         \/ TakeCell(t) /\ call' = [call EXCEPT ![t] = Idle]
         \/ TakeRecord(t)
         \/ FindHeld(t),
         NEW u \in Threads, NEW j \in Index, NEW k \in {"read", "write"}
  PROVE  Owns(u, j, k)' <=> Owns(u, j, k)
<1> USE LockAssumption DEF LockAssumption
<1> Idle.at = "none"
  BY DEF Idle
<1>1. ASSUME NEW i \in Index, NEW m \in {"read", "write"}, Find(t, i, m)
      PROVE  Owns(u, j, k)' <=> Owns(u, j, k)
  <2>1. PICK s \in Index :
           /\ call' = [call EXCEPT ![t] = Call("cell", i, m, s)]
           /\ s \in nodes'[ProcOf[t]]
           /\ Covers(s, i)
           /\ \A p \in Procs : nodes[p] \subseteq nodes'[p]
    BY <1>1, FindCovers
  <2>2. Call("cell", i, m, s).at = "cell"
    BY DEF Call
  <2> QED
    BY <1>1, <2>1, <2>2 DEF Find, Owns, LockTypeOK
<1>2. ASSUME NEW i \in Index, NEW m \in {"read", "write"}, Unlock(t, i, m)
      PROVE  Owns(u, j, k)' <=> Owns(u, j, k)
  <2>1. /\ Call("unfind", i, m, 0).at = "unfind"
        /\ Call("unfind", i, m, 0).index = i
        /\ Call("unfind", i, m, 0).mode = m
    BY DEF Call
  <2> QED
    BY <1>2, <2>1 DEF Unlock, Owns, LockTypeOK
<1>3. CASE TakeCell(t) /\ call' = [call EXCEPT ![t] = Idle]
  BY <1>3 DEF TakeCell, Owns, LockTypeOK
<1>4. CASE TakeRecord(t)
  <2> DEFINE c == call[t]
  <2>1. c.index \in Index /\ c.mode \in {"read", "write"} /\ c.at = "fcntl"
    BY <1>4 DEF TakeRecord, LockTypeOK, Calls
  <2>2. CASE /\ holds' = [holds EXCEPT ![t] = @ \cup {<<c.index, c.mode>>}]
             /\ call' = [call EXCEPT ![t] = Idle]
    BY <2>1, <2>2 DEF Owns, LockTypeOK
  <2>3. CASE /\ holds' = holds
             /\ call' = [call EXCEPT ![t] = Call("unfind", c.index, c.mode, 0)]
    <3>1. /\ Call("unfind", c.index, c.mode, 0).at = "unfind"
          /\ Call("unfind", c.index, c.mode, 0).index = c.index
          /\ Call("unfind", c.index, c.mode, 0).mode = c.mode
      BY DEF Call
    <3> QED
      BY <2>1, <2>3, <3>1 DEF Owns, LockTypeOK
  <2> QED
    BY <1>4, <2>2, <2>3 DEF TakeRecord
<1>5. CASE FindHeld(t)
  <2> DEFINE c == call[t]
  <2>1. PICK s : call' = [call EXCEPT ![t] = Call("uncell", c.index, c.mode, s)]
    BY <1>5 DEF FindHeld
  <2>2. /\ Call("uncell", c.index, c.mode, s).at = "uncell"
        /\ Call("uncell", c.index, c.mode, s).index = c.index
        /\ Call("uncell", c.index, c.mode, s).mode = c.mode
    BY DEF Call
  <2> QED
    BY <1>5, <2>1, <2>2 DEF FindHeld, Owns, LockTypeOK
<1> QED
  BY <1>1, <1>2, <1>3, <1>4, <1>5

\* The owners of an entry are finitely many.
LEMMA OwnersFinite ==
  ASSUME NEW p \in Procs, NEW i \in Index, NEW m
  PROVE  /\ IsFiniteSet(Owners(p, i, m))
         /\ Cardinality(Owners(p, i, m)) \in Nat
<1>1. Owners(p, i, m) \in SUBSET Threads
  BY DEF Owners
<1> QED
  BY <1>1, LockAssumption, FS_Subset, FS_CardinalityType DEF LockAssumption

\* A free counter has no owner; one with readers has no writer.
LEMMA FreeCounter ==
  ASSUME LockTypeOK, CellsCountOwners,
         NEW p \in Procs, NEW s \in Index, NEW i \in Index,
         NoOverlap(p), s \in nodes[p], Covers(s, i), cell[p][s][i] >= 0
  PROVE  /\ cell[p][s][i] = Cardinality(Owners(p, i, "read"))
         /\ Owners(p, i, "write") = {}
         /\ cell[p][s][i] = 0 => Owners(p, i, "read") = {}
<1>1. /\ cell[p][s][i] = Cardinality(Owners(p, i, "read"))
      /\ Owners(p, i, "write") = {}
  BY CounterIsInt DEF CellsCountOwners
<1> QED
  BY <1>1, OwnersFinite, FS_EmptySet

\* Owners of the same thread's entry, before and after a step that leaves
\* ownership alone.
LEMMA OwnersKept ==
  ASSUME NEW p \in Procs, NEW i \in Index, NEW m,
         \A u \in Threads : ProcOf[u] = p => (Owns(u, i, m)' <=> Owns(u, i, m))
  PROVE  Owners(p, i, m)' = Owners(p, i, m)
  BY DEF Owners

\* A lock in progress is apart from those the thread holds.
LEMMA StepApart ==
  LockTypeOK /\ CellInBounds /\ OneMode /\ CallApart /\ CellsCountOwners /\ LockStep
    => CallApart'
<1> SUFFICES ASSUME LockTypeOK, CellInBounds, OneMode, CallApart, CellsCountOwners,
                    LockStep,
                    NEW u \in Threads, NEW j \in Index,
                    NoOverlap(ProcOf[u])',
                    call'[u].at \in {"fcntl", "unfind", "uncell"},
                    call'[u].index = j
             PROVE  <<j, "read">> \notin holds'[u] /\ <<j, "write">> \notin holds'[u]
  BY DEF CallApart
<1> USE LockAssumption DEF LockAssumption
<1> Idle.at = "none"
  BY DEF Idle
<1> DEFINE Goal == <<j, "read">> \notin holds'[u] /\ <<j, "write">> \notin holds'[u]
<1>0. NoOverlap(ProcOf[u]) \/ LockCrash(ProcOf[u])
  BY OverlapStays
<1>1. ASSUME call'[u] = call[u], holds'[u] = holds[u], NoOverlap(ProcOf[u])
      PROVE  Goal
  BY <1>1 DEF CallApart
<1>2. ASSUME NEW p \in Procs, LockCrash(p) PROVE Goal
  <2>1. IF ProcOf[u] = p THEN call'[u] = Idle
        ELSE call'[u] = call[u] /\ holds'[u] = holds[u]
             /\ nodes'[ProcOf[u]] = nodes[ProcOf[u]]
    BY <1>2 DEF LockCrash, LockTypeOK
  <2>2. ProcOf[u] # p => NoOverlap(ProcOf[u])
    BY <2>1 DEF NoOverlap
  <2> QED
    BY <1>1, <2>1, <2>2
<1>3. ASSUME NEW t \in Threads, NEW i \in Index, NEW m \in {"read", "write"},
             Find(t, i, m), NoOverlap(ProcOf[u])
      PROVE  Goal
  <2>1. PICK s \in Index :
           /\ call' = [call EXCEPT ![t] = Call("cell", i, m, s)]
           /\ s \in nodes'[ProcOf[t]]
           /\ Covers(s, i)
           /\ \A p \in Procs : nodes[p] \subseteq nodes'[p]
    BY <1>3, FindCovers
  <2>2. Call("cell", i, m, s).at = "cell"
    BY DEF Call
  <2>3. u # t
    BY <2>1, <2>2 DEF LockTypeOK
  <2>4. call'[u] = call[u] /\ holds' = holds
    BY <1>3, <2>1, <2>3 DEF Find, LockTypeOK
  <2> QED
    BY <1>1, <1>3, <2>4
<1>4. ASSUME NEW t \in Threads, TakeCell(t), NoOverlap(ProcOf[u]) PROVE Goal
  <2> DEFINE c == call[t]
             p == ProcOf[t]
             v == cell[p][c.node][c.index]
  <2>1. holds' = holds
    BY <1>4 DEF TakeCell
  <2>2. CASE u # t
    BY <1>1, <1>4, <2>1, <2>2 DEF TakeCell, LockTypeOK
  <2>3. CASE u = t
    <3>1. /\ Available(v, c.mode)
          /\ call' = [call EXCEPT ![t].at = "fcntl"]
      BY <1>4, <2>3 DEF TakeCell, LockTypeOK
    <3>2. /\ c.index = j
          /\ c.at = "cell"
          /\ c.node \in nodes[p]
          /\ Covers(c.node, j)
          /\ c.mode \in {"read", "write"}
          /\ c.node \in Index
          /\ p \in Procs
      BY <1>4, <2>3, <3>1 DEF TakeCell, CellInBounds, LockTypeOK, Calls
    <3>3. /\ <<j, "read">> \notin holds[t]
          /\ c.mode = "read" => <<j, "write">> \notin holds[t]
      BY <3>2 DEF OneMode
    <3>4. c.mode = "write" => <<j, "write">> \notin holds[t]
      <4>1. v \in Int
        BY <3>2, CounterIsInt
      <4>2. c.mode = "write" => Owners(p, j, "write") = {}
        BY <1>4, <2>3, <3>1, <3>2, <4>1, FreeCounter DEF Available
      <4> QED
        BY <4>2 DEF Owners, Owns
    <3> QED
      BY <2>1, <2>3, <3>2, <3>3, <3>4
  <2> QED
    BY <2>2, <2>3
<1>5. ASSUME NEW t \in Threads, TakeRecord(t), NoOverlap(ProcOf[u]) PROVE Goal
  <2> DEFINE c == call[t]
  <2>1. CASE u # t
    BY <1>1, <1>5, <2>1 DEF TakeRecord, LockTypeOK
  <2>2. CASE u = t
    <3>1. Call("unfind", c.index, c.mode, 0).index = c.index
      BY DEF Call
    <3>2. /\ holds' = holds
          /\ call' = [call EXCEPT ![t] = Call("unfind", c.index, c.mode, 0)]
      BY <1>5, <2>2 DEF TakeRecord, LockTypeOK
    <3>3. c.index = j /\ c.at = "fcntl"
      BY <1>5, <2>2, <3>1, <3>2 DEF TakeRecord, LockTypeOK
    <3> QED
      BY <1>5, <2>2, <3>2, <3>3 DEF CallApart
  <2> QED
    BY <2>1, <2>2
<1>6. ASSUME NEW t \in Threads, NEW i \in Index, NEW m \in {"read", "write"},
             Unlock(t, i, m), NoOverlap(ProcOf[u])
      PROVE  Goal
  <2>1. CASE u # t
    BY <1>1, <1>6, <2>1 DEF Unlock, LockTypeOK
  <2>2. CASE u = t
    <3>1. Call("unfind", i, m, 0).index = i
      BY DEF Call
    <3>2. i = j
      BY <1>6, <2>2, <3>1 DEF Unlock, LockTypeOK
    <3>3. /\ <<i, m>> \in holds[t]
          /\ holds'[t] = holds[t] \ {<<i, m>>}
      BY <1>6 DEF Unlock, LockTypeOK
    <3> QED
      BY <2>2, <3>2, <3>3 DEF OneMode
  <2> QED
    BY <2>1, <2>2
<1>7. ASSUME NEW t \in Threads, FindHeld(t), NoOverlap(ProcOf[u]) PROVE Goal
  <2> DEFINE c == call[t]
  <2>1. PICK s : call' = [call EXCEPT ![t] = Call("uncell", c.index, c.mode, s)]
    BY <1>7 DEF FindHeld
  <2>2. Call("uncell", c.index, c.mode, s).index = c.index
    BY DEF Call
  <2>3. holds' = holds /\ c.at = "unfind"
    BY <1>7 DEF FindHeld
  <2>4. call[u].index = j /\ call[u].at \in {"fcntl", "unfind", "uncell"}
    BY <2>1, <2>2, <2>3 DEF LockTypeOK
  <2> QED
    BY <1>7, <2>3, <2>4 DEF CallApart
<1>8. ASSUME NEW t \in Threads, DropCell(t), NoOverlap(ProcOf[u]) PROVE Goal
  <2>1. u # t
    BY <1>8 DEF DropCell, LockTypeOK
  <2> QED
    BY <1>1, <1>8, <2>1 DEF DropCell, LockTypeOK
<1>9. CASE UNCHANGED lockVars /\ NoOverlap(ProcOf[u])
  BY <1>1, <1>9 DEF lockVars
<1> QED
  BY <1>0, <1>2, <1>3, <1>4, <1>5, <1>6, <1>7, <1>8, <1>9 DEF LockStep

\* The counter of entry i in node s of p says who owns the entry.
Counted(p, s, i) ==
    \/ /\ cell[p][s][i] = -1
       /\ Cardinality(Owners(p, i, "write")) = 1
       /\ Owners(p, i, "read") = {}
    \/ /\ cell[p][s][i] = Cardinality(Owners(p, i, "read"))
       /\ Owners(p, i, "write") = {}

\* Every step keeps the counters in accord with the owners.
LEMMA StepCounts ==
  LockInv /\ LockStep => CellsCountOwners'
<1> SUFFICES ASSUME LockInv, LockStep,
                    NEW p \in Procs, NEW s \in Index, NEW i \in Index,
                    NoOverlap(p)', s \in nodes'[p], Covers(s, i)
             PROVE  Counted(p, s, i)'
  BY DEF CellsCountOwners, Counted, Covers
<1> USE LockAssumption DEF LockAssumption
<1>0. /\ LockTypeOK /\ CellInBounds /\ HoldsCovered /\ OneMode /\ CallApart
      /\ CellsCountOwners
  BY DEF LockInv
<1>a. NoOverlap(p) \/ LockCrash(p)
  BY <1>0, OverlapStays
\* Neither the counter nor the owners change.
<1>1. ASSUME s \in nodes[p], NoOverlap(p), cell'[p][s][i] = cell[p][s][i],
             \A u \in Threads, m \in {"read", "write"} :
               ProcOf[u] = p => (Owns(u, i, m)' <=> Owns(u, i, m))
      PROVE  Counted(p, s, i)'
  <2>1. /\ Owners(p, i, "read")' = Owners(p, i, "read")
        /\ Owners(p, i, "write")' = Owners(p, i, "write")
    BY <1>1, OwnersKept
  <2>2. Counted(p, s, i)
    BY <1>0, <1>1 DEF CellsCountOwners, Counted
  <2> QED
    BY <1>1, <2>1, <2>2 DEF Counted
<1>2. ASSUME NEW q \in Procs, LockCrash(q) PROVE Counted(p, s, i)'
  <2>1. q # p
    BY <1>0, <1>2 DEF LockCrash, LockTypeOK
  <2>2. /\ nodes'[p] = nodes[p]
        /\ cell'[p] = cell[p]
        /\ \A u \in Threads :
             ProcOf[u] = p => call'[u] = call[u] /\ holds'[u] = holds[u]
    BY <1>0, <1>2, <2>1 DEF LockCrash, LockTypeOK
  <2>3. NoOverlap(p)
    BY <2>2 DEF NoOverlap
  <2>4. \A u \in Threads, m \in {"read", "write"} :
          ProcOf[u] = p => (Owns(u, i, m)' <=> Owns(u, i, m))
    BY <2>2 DEF Owns
  <2> QED
    BY <1>1, <2>2, <2>3, <2>4
<1>3. ASSUME NEW t \in Threads, NEW j \in Index, NEW k \in {"read", "write"},
             Find(t, j, k), NoOverlap(p)
      PROVE  Counted(p, s, i)'
  <2>1. \A u \in Threads, m \in {"read", "write"} :
          Owns(u, i, m)' <=> Owns(u, i, m)
    BY <1>0, <1>3, OwnsKept
  <2>2. CASE s \in nodes[p] /\ cell'[p][s][i] = cell[p][s][i]
    BY <1>1, <1>3, <2>1, <2>2
  <2>3. CASE ~(s \in nodes[p] /\ cell'[p][s][i] = cell[p][s][i])
    <3>1. /\ NeedsNode(nodes[p], j)
          /\ ProcOf[t] = p
          /\ nodes' = [nodes EXCEPT ![p] = @ \cup {j}]
          /\ cell' = [cell EXCEPT ![p][j] = Zeros]
      BY <1>0, <1>3, <2>3 DEF Find, LockTypeOK
    <3>2. s = j
      BY <1>0, <2>3, <3>1 DEF LockTypeOK
    <3>3. j \notin nodes[p]
      <4>1. Reaches(j, j)
        BY DEF Reaches
      <4> QED
        BY <3>1, <4>1 DEF NeedsNode
    <3>4. cell'[p][s][i] = 0
      BY <1>0, <3>1, <3>2 DEF LockTypeOK, Zeros
    <3>5. \A r \in nodes[p] : ~Covers(r, i)
      BY <1>0, <3>1, <3>2, <3>3 DEF NoOverlap, LockTypeOK
    <3>6. \A m \in {"read", "write"} : Owners(p, i, m) = {}
      BY <1>0, <3>5 DEF Owners, Owns, HoldsCovered, CellInBounds
    <3>7. /\ Owners(p, i, "read")' = Owners(p, i, "read")
          /\ Owners(p, i, "write")' = Owners(p, i, "write")
      BY <2>1, OwnersKept
    <3>8. /\ Owners(p, i, "read")' = {}
          /\ Owners(p, i, "write")' = {}
      BY <3>6, <3>7
    <3> QED
      BY <3>4, <3>8, FS_EmptySet DEF Counted
  <2> QED
    BY <2>2, <2>3
<1>4. ASSUME NEW t \in Threads, TakeCell(t), NoOverlap(p)
      PROVE  Counted(p, s, i)'
  <2> DEFINE c == call[t]
             v == cell[p][s][i]
  <2>0. nodes' = nodes /\ holds' = holds
    BY <1>4 DEF TakeCell
  <2>1. CASE call' = [call EXCEPT ![t] = Idle] /\ cell' = cell
    <3>1. \A u \in Threads, m \in {"read", "write"} :
            Owns(u, i, m)' <=> Owns(u, i, m)
      BY <1>0, <1>4, <2>1, OwnsKept
    <3> QED
      BY <1>1, <1>4, <2>0, <2>1, <3>1
  <2>2. CASE /\ Available(cell[ProcOf[t]][c.node][c.index], c.mode)
             /\ cell' = [cell EXCEPT ![ProcOf[t]][c.node][c.index] =
                           Taken(cell[ProcOf[t]][c.node][c.index], c.mode)]
             /\ call' = [call EXCEPT ![t].at = "fcntl"]
    <3>1. /\ c.index \in Index
          /\ c.at = "cell"
          /\ c.mode \in {"read", "write"}
          /\ c.node \in nodes[ProcOf[t]]
          /\ c.node \in Index
          /\ Covers(c.node, c.index)
      BY <1>0, <1>4 DEF TakeCell, CellInBounds, LockTypeOK, Calls
    <3>2. \A u \in Threads, m \in {"read", "write"} :
            Owns(u, i, m)' <=>
              Owns(u, i, m) \/ (u = t /\ i = c.index /\ m = c.mode)
      <4>1. /\ call'[t].at = "fcntl"
            /\ call'[t].index = c.index
            /\ call'[t].mode = c.mode
            /\ \A u \in Threads : u # t => call'[u] = call[u]
        BY <1>0, <2>2 DEF LockTypeOK, Calls
      <4> QED
        BY <2>0, <3>1, <4>1 DEF Owns
    <3>3. CASE ProcOf[t] # p \/ i # c.index
      <4>1. cell'[p][s][i] = cell[p][s][i]
        BY <1>0, <2>2, <3>1, <3>3 DEF LockTypeOK
      <4>2. \A u \in Threads, m \in {"read", "write"} :
              ProcOf[u] = p => (Owns(u, i, m)' <=> Owns(u, i, m))
        BY <3>2, <3>3
      <4> QED
        BY <1>1, <1>4, <2>0, <4>1, <4>2
    <3>4. CASE ProcOf[t] = p /\ i = c.index
      <4>1. s = c.node
        BY <1>4, <2>0, <3>1, <3>4 DEF NoOverlap
      <4>2. v \in Int /\ Available(v, c.mode) /\ cell'[p][s][i] = Taken(v, c.mode)
        BY <1>0, <2>2, <3>1, <3>4, <4>1, CounterIsInt DEF LockTypeOK
      <4>3. /\ v >= 0
            /\ c.mode = "write" => v = 0
        BY <3>1, <4>2 DEF Available
      <4>4. /\ v = Cardinality(Owners(p, i, "read"))
            /\ Owners(p, i, "write") = {}
            /\ v = 0 => Owners(p, i, "read") = {}
        BY <1>0, <1>4, <2>0, <4>3, FreeCounter
      <4>5. t \notin Owners(p, i, "read")
        BY <1>0, <3>1, <3>4 DEF Owners, Owns, OneMode
      <4>6. CASE c.mode = "read"
        <5>1. /\ Owners(p, i, "read")' = Owners(p, i, "read") \cup {t}
              /\ Owners(p, i, "write")' = Owners(p, i, "write")
          BY <3>2, <3>4, <4>6 DEF Owners
        <5>2. Cardinality(Owners(p, i, "read")')
                = Cardinality(Owners(p, i, "read")) + 1
          BY <4>5, <5>1, OwnersFinite, FS_AddElement
        <5> QED
          BY <4>2, <4>4, <4>6, <5>1, <5>2 DEF Counted, Taken
      <4>7. CASE c.mode = "write"
        <5>1. /\ Owners(p, i, "read")' = {}
              /\ Owners(p, i, "write")' = {t}
          BY <3>2, <3>4, <4>3, <4>4, <4>7 DEF Owners
        <5>2. Cardinality({t}) = 1
          BY FS_Singleton
        <5> QED
          BY <4>2, <4>7, <5>1, <5>2 DEF Counted, Taken
      <4> QED
        BY <3>1, <4>6, <4>7
    <3> QED
      BY <3>3, <3>4
  <2> QED
    BY <1>4, <2>1, <2>2 DEF TakeCell
<1>5. ASSUME NEW t \in Threads, NoOverlap(p),
             \/ TakeRecord(t)
             \/ \E j \in Index, k \in {"read", "write"} : Unlock(t, j, k)
             \/ FindHeld(t)
      PROVE  Counted(p, s, i)'
  <2>1. \A u \in Threads, m \in {"read", "write"} :
          Owns(u, i, m)' <=> Owns(u, i, m)
    BY <1>0, <1>5, OwnsKept
  <2>2. nodes' = nodes /\ cell' = cell
    BY <1>5 DEF TakeRecord, Unlock, FindHeld
  <2> QED
    BY <1>1, <1>5, <2>1, <2>2
<1>6. ASSUME NEW t \in Threads, DropCell(t), NoOverlap(p)
      PROVE  Counted(p, s, i)'
  <2> DEFINE c == call[t]
             v == cell[p][s][i]
  <2>0. nodes' = nodes /\ holds' = holds /\ call' = [call EXCEPT ![t] = Idle]
    BY <1>6 DEF DropCell
  <2>1. /\ c.index \in Index
        /\ c.at = "uncell"
        /\ c.mode \in {"read", "write"}
        /\ c.node \in nodes[ProcOf[t]]
        /\ c.node \in Index
        /\ Covers(c.node, c.index)
    BY <1>0, <1>6 DEF DropCell, CellInBounds, LockTypeOK, Calls
  <2>2. \A u \in Threads, m \in {"read", "write"} :
          ProcOf[u] = p =>
            (Owns(u, i, m)' <=>
              Owns(u, i, m) /\ ~(u = t /\ i = c.index /\ m = c.mode))
    <3>1. \A u \in Threads : call'[u] = IF u = t THEN Idle ELSE call[u]
      BY <1>0, <2>0 DEF LockTypeOK
    <3>2. Idle.at = "none"
      BY DEF Idle
    <3>3. ProcOf[t] = p /\ i = c.index =>
            <<i, "read">> \notin holds[t] /\ <<i, "write">> \notin holds[t]
      BY <1>0, <1>6, <2>1 DEF CallApart
    <3> QED
      BY <2>0, <2>1, <3>1, <3>2, <3>3 DEF Owns
  <2>3. CASE ProcOf[t] # p \/ i # c.index
    <3>1. cell'[p][s][i] = cell[p][s][i]
      BY <1>0, <1>6, <2>1, <2>3 DEF DropCell, LockTypeOK
    <3>2. \A u \in Threads, m \in {"read", "write"} :
            ProcOf[u] = p => (Owns(u, i, m)' <=> Owns(u, i, m))
      BY <2>2, <2>3
    <3> QED
      BY <1>1, <1>6, <2>0, <3>1, <3>2
  <2>4. CASE ProcOf[t] = p /\ i = c.index
    <3>1. s = c.node
      BY <1>6, <2>0, <2>1, <2>4 DEF NoOverlap
    <3>2. v \in Int /\ cell'[p][s][i] = Released(v, c.mode)
      BY <1>0, <1>6, <2>1, <2>4, <3>1, CounterIsInt DEF DropCell, LockTypeOK
    <3>3. Counted(p, s, i)
      BY <1>0, <1>6, <2>0 DEF CellsCountOwners, Counted
    <3>4. t \in Owners(p, i, c.mode)
      BY <2>1, <2>4 DEF Owners, Owns
    <3>5. CASE c.mode = "read"
      <4>1. /\ v = Cardinality(Owners(p, i, "read"))
            /\ Owners(p, i, "write") = {}
        BY <3>3, <3>4, <3>5 DEF Counted
      <4>2. /\ Owners(p, i, "read")' = Owners(p, i, "read") \ {t}
            /\ Owners(p, i, "write")' = {}
        BY <2>2, <2>4, <3>5, <4>1 DEF Owners
      <4>3. Cardinality(Owners(p, i, "read")')
              = Cardinality(Owners(p, i, "read")) - 1
        BY <3>4, <3>5, <4>2, OwnersFinite, FS_RemoveElement
      <4> QED
        BY <3>2, <3>5, <4>1, <4>2, <4>3 DEF Counted, Released
    <3>6. CASE c.mode = "write"
      <4>1. /\ v = -1
            /\ Cardinality(Owners(p, i, "write")) = 1
            /\ Owners(p, i, "read") = {}
        BY <3>3, <3>4, <3>6 DEF Counted
      <4>2. Owners(p, i, "write") = {t}
        BY <3>4, <3>6, <4>1, OwnersFinite, FS_Singleton
      <4>3. /\ Owners(p, i, "read")' = {}
            /\ Owners(p, i, "write")' = {}
        BY <2>2, <2>4, <3>6, <4>1, <4>2 DEF Owners
      <4> QED
        BY <3>2, <3>6, <4>1, <4>3, FS_EmptySet DEF Counted, Released
    <3> QED
      BY <2>1, <3>5, <3>6
  <2> QED
    BY <2>3, <2>4
<1>7. CASE UNCHANGED lockVars /\ NoOverlap(p)
  <2>1. \A u \in Threads, m \in {"read", "write"} : Owns(u, i, m)' <=> Owns(u, i, m)
    BY <1>7 DEF lockVars, Owns
  <2> QED
    BY <1>1, <1>7, <2>1 DEF lockVars
<1> QED
  BY <1>a, <1>2, <1>3, <1>4, <1>5, <1>6, <1>7 DEF LockStep
-----------------------------------------------------------------------------
(***************************************************************************)
(* Write locks exclude each other.                                         *)
(***************************************************************************)

\* In a process without overlap, an entry owned for writing has no other owner.
LEMMA OneWriter ==
  ASSUME LockTypeOK, CellsCountOwners, CellInBounds, HoldsCovered,
         NEW t \in Threads, NEW u \in Threads, NEW i \in Index,
         NEW m \in {"read", "write"},
         ProcOf[t] = ProcOf[u], NoOverlap(ProcOf[t]),
         <<i, "write">> \in holds[t], Owns(u, i, m)
  PROVE  t = u
<1> USE LockAssumption DEF LockAssumption
<1> DEFINE p == ProcOf[t]
<1>1. PICK s \in nodes[p] : Covers(s, i)
  BY DEF HoldsCovered
<1>2. s \in Index /\ p \in Procs
  BY DEF LockTypeOK
<1>3. t \in Owners(p, i, "write") /\ u \in Owners(p, i, m)
  BY DEF Owners, Owns
<1>4. /\ Cardinality(Owners(p, i, "write")) = 1
      /\ Owners(p, i, "read") = {}
  BY <1>1, <1>2, <1>3 DEF CellsCountOwners
<1>5. \E x : Owners(p, i, "write") = {x}
  BY <1>2, <1>4, OwnersFinite, FS_Singleton
<1> QED
  BY <1>3, <1>4, <1>5

\* In a sound process, a write lock that is held keeps its fcntl lock.
LEMMA StepKernel == LockInv /\ LockStep => WriteInKernel'
<1> SUFFICES ASSUME LockInv, LockStep, NEW u \in Threads, NEW j \in Index,
                    Sound(ProcOf[u])', <<j, "write">> \in holds'[u]
             PROVE  record'[j][ProcOf[u]] = "write"
  BY DEF WriteInKernel
<1> USE LockAssumption DEF LockAssumption
<1> DEFINE p == ProcOf[u]
<1>0. /\ LockTypeOK /\ CellInBounds /\ HoldsCovered /\ OneMode /\ CallApart
      /\ CellsCountOwners /\ WriteInKernel
  BY DEF LockInv
<1>1. ASSUME NEW q \in Procs, LockCrash(q) PROVE record'[j][p] = "write"
  <2>1. p # q
    BY <1>0, <1>1 DEF LockCrash, LockTypeOK
  <2>2. /\ nodes'[p] = nodes[p]
        /\ holds'[u] = holds[u]
        /\ record'[j][p] = record[j][p]
    BY <1>0, <1>1, <2>1 DEF LockCrash, LockTypeOK
  <2>3. Sound(p)
    BY <2>2 DEF Sound, NoOverlap, SingleThreaded
  <2> QED
    BY <1>0, <2>2, <2>3 DEF WriteInKernel
<1>2. Sound(p) \/ LockCrash(p)
  BY <1>0, OverlapStays DEF Sound, SingleThreaded
<1>3. ASSUME Sound(p), <<j, "write">> \in holds[u], record'[j][p] = record[j][p]
      PROVE  record'[j][p] = "write"
  BY <1>0, <1>3 DEF WriteInKernel
<1>4. ASSUME NEW t \in Threads, TakeRecord(t), Sound(p)
      PROVE  record'[j][p] = "write"
  <2> DEFINE c == call[t]
  <2>1. c.at = "fcntl" /\ c.index \in Index /\ c.mode \in {"read", "write"}
    BY <1>0, <1>4 DEF TakeRecord, LockTypeOK, Calls
  <2>2. CASE record' = record /\ holds' = holds
    BY <1>3, <1>4, <2>2
  <2>3. CASE /\ record' = [record EXCEPT ![c.index][ProcOf[t]] = c.mode]
             /\ holds' = [holds EXCEPT ![t] = @ \cup {<<c.index, c.mode>>}]
    <3>1. CASE ProcOf[t] # p \/ c.index # j
      <4>1. record'[j][p] = record[j][p] /\ <<j, "write">> \in holds[u]
        BY <1>0, <2>1, <2>3, <3>1 DEF LockTypeOK
      <4> QED
        BY <1>3, <1>4, <4>1
    <3>2. CASE ProcOf[t] = p /\ c.index = j /\ t = u
      <4>1. record'[j][p] = c.mode
        BY <1>0, <2>1, <2>3, <3>2 DEF LockTypeOK
      <4>2. c.mode = "read" => <<j, "write">> \notin holds[t]
        BY <1>0, <2>1, <3>2 DEF OneMode
      <4>3. c.mode = "read" => <<j, "write">> \notin holds'[t]
        BY <1>0, <2>3, <4>2 DEF LockTypeOK
      <4> QED
        BY <2>1, <3>2, <4>1, <4>3
    <3>3. CASE ProcOf[t] = p /\ c.index = j /\ t # u
      <4>1. <<j, "write">> \in holds[u]
        BY <1>0, <2>3, <3>3 DEF LockTypeOK
      <4>2. NoOverlap(p)
        BY <1>4, <3>3 DEF Sound, SingleThreaded
      <4>3. Owns(t, j, c.mode)
        BY <2>1, <3>3 DEF Owns
      <4>4. u = t
        BY <1>0, <2>1, <3>3, <4>1, <4>2, <4>3, OneWriter
      <4> QED
        BY <3>3, <4>4
    <3> QED
      BY <3>1, <3>2, <3>3
  <2> QED
    BY <1>4, <2>2, <2>3 DEF TakeRecord
<1>5. ASSUME NEW t \in Threads, NEW i \in Index, NEW m \in {"read", "write"},
             Unlock(t, i, m), Sound(p)
      PROVE  record'[j][p] = "write"
  <2>1. <<j, "write">> \in holds[u] /\ <<i, m>> \in holds[t]
    BY <1>0, <1>5 DEF Unlock, LockTypeOK
  <2>2. CASE ProcOf[t] # p \/ i # j
    <3>1. record'[j][p] = record[j][p]
      BY <1>0, <1>5, <2>2 DEF Unlock, LockTypeOK
    <3> QED
      BY <1>3, <1>5, <2>1, <3>1
  <2>3. CASE i = j /\ t = u
    <3>1. <<j, "write">> \notin holds'[u]
      BY <1>0, <1>5, <2>1, <2>3 DEF Unlock, OneMode, LockTypeOK
    <3> QED
      BY <3>1
  <2>4. CASE ProcOf[t] = p /\ i = j /\ t # u
    <3>1. NoOverlap(p)
      BY <1>5, <2>4 DEF Sound, SingleThreaded
    <3>2. Owns(t, j, m)
      BY <2>1, <2>4 DEF Owns
    <3>3. u = t
      BY <1>0, <2>1, <2>4, <3>1, <3>2, OneWriter
    <3> QED
      BY <2>4, <3>3
  <2> QED
    BY <2>2, <2>3, <2>4
<1>6. CASE record' = record /\ holds' = holds /\ Sound(p)
  BY <1>3, <1>6
<1> QED
  BY <1>1, <1>2, <1>4, <1>5, <1>6
     DEF LockStep, lockVars, Find, TakeCell, FindHeld, DropCell

\* The invariant holds at the start.
LEMMA InitInv == LockInit => LockInv
<1> SUFFICES ASSUME LockInit PROVE LockInv
  OBVIOUS
<1>1. LockTypeOK
  BY InitType
<1>2. \A t \in Threads : call[t].at = "none" /\ holds[t] = {}
  BY DEF LockInit, Idle
<1>3. \A p \in Procs : nodes[p] = {}
  BY DEF LockInit
<1>4. \A i \in Index : \A p \in Procs : record[i][p] = "none"
  BY DEF LockInit
<1> QED
  BY <1>1, <1>2, <1>3, <1>4
     DEF LockInv, CellInBounds, HoldsCovered, RecordExclusion, OneMode, CallApart,
         CellsCountOwners, WriteInKernel

\* Every step on the locks keeps the invariant.
LEMMA StepInv == LockInv /\ LockStep => LockInv'
  BY StepType, StepCovers, StepRecords, StepModes, StepApart, StepCounts, StepKernel
     DEF LockInv

\* The invariant implies that write locks exclude each other.
LEMMA InvExcludes == LockInv => WriterExclusion
<1> SUFFICES ASSUME LockInv, NEW t \in Threads, NEW u \in Threads,
                    NEW i \in Index, t # u, Sound(ProcOf[t]), Sound(ProcOf[u]),
                    <<i, "write">> \in holds[t], <<i, "write">> \in holds[u]
             PROVE  FALSE
  BY DEF WriterExclusion
<1> USE LockAssumption DEF LockAssumption
<1>1. CASE ProcOf[t] = ProcOf[u]
  <2>1. NoOverlap(ProcOf[t])
    BY <1>1 DEF Sound, SingleThreaded
  <2>2. Owns(u, i, "write")
    BY DEF Owns
  <2> QED
    BY <1>1, <2>1, <2>2, OneWriter DEF LockInv
<1>2. CASE ProcOf[t] # ProcOf[u]
  BY <1>2 DEF LockInv, WriteInKernel, RecordExclusion
<1> QED
  BY <1>1, <1>2

\* A step of LockNext is a step on the locks.
LEMMA NextIsStep == [LockNext]_lockVars => LockStep
  BY LockAssumption DEF LockAssumption, LockNext, LockStep

\* The invariant holds throughout.
LEMMA LockInvHolds == LockSpec => []LockInv
<1>1. LockInv /\ [LockNext]_lockVars => LockInv'
  BY StepInv, NextIsStep
<1> QED
  BY <1>1, InitInv, PTL DEF LockSpec

\* Type correctness of the lock table.
THEOREM LockTypesCorrect == LockSpec => []LockTypeOK
  BY LockInvHolds, PTL DEF LockInv

\* Lock and unlock use only counters inside the arrays of nodes that are in the
\* list, whatever other threads insert meanwhile.
THEOREM CountersInBounds == LockSpec => []CellInBounds
  BY LockInvHolds, PTL DEF LockInv

\* While no entry of a process has two counters, each counter is -1 for one
\* writer or the number of readers.
THEOREM CountersCount == LockSpec => []CellsCountOwners
  BY LockInvHolds, PTL DEF LockInv

\* Two threads never hold a write lock on one entry, unless one of them is in
\* a multithreaded process in which an entry has two counters.
THEOREM WritersExclude == LockSpec => []WriterExclusion
  BY LockInvHolds, InvExcludes, PTL

\* A write lock keeps its fcntl lock until it is given back, in a process that
\* has one thread or in which no entry has two counters.
THEOREM WritersKeepRecord == LockSpec => []WriteInKernel
  BY LockInvHolds, PTL DEF LockInv
=============================================================================
