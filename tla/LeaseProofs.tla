---------------------------- MODULE LeaseProofs ----------------------------
(***************************************************************************)
(* Proofs about Lease, for any number of processes, threads, sections and  *)
(* transactions, with crashes and failing writes.  The locks are covered   *)
(* by LockTableProofs; what is left is the arithmetic of the walk and the  *)
(* use of an offset that may be stale.                                     *)
(***************************************************************************)
EXTENDS Lease, LockTableProofs

\* The file pointer of a process is inside the log.
PointerInLog == \A p \in Procs : pos[p] <= count

\* The places where index names the entry of a lease, granted or attempted.
AtEntry == {"locking", "recheck", "write", "release", "unlocking"}

\* What is skipped is in the log, or is the entry -1 of a log without any.
SkipInLog(t) == visited[t] <= count \/ visited[t] = 1

\* The walk stays inside the log, or starts at -1 and is far from it.
WalkOf(t) ==
    /\ pc[t] \in {"seek", "lock", "locking", "recheck"} => SkipInLog(t)
    /\ pc[t] = "scan" => index[t] + visited[t] <= count \/ index[t] + visited[t] = Far
    /\ pc[t] = "lock" => index[t] < count \/ index[t] = Far
    /\ pc[t] \in AtEntry => index[t] < count

WalkInLog == \A t \in Threads : WalkOf(t)

\* From the walk to the last write, what is asked for fits the section.
RoomAhead ==
    \A t \in Threads :
        /\ pc[t] \in {"lock", "locking", "recheck"} => offset[t] + size[t] <= Section
        /\ pc[t] = "write" => offset[t] + left[t] <= Section

\* A thread inside a call has its transaction still to account for.
Pending == \A t \in Threads : pc[t] # "idle" => todo[t] > 0

\* An offset taken from a length, however long ago, has only written units
\* below it.
FilledBelow ==
    \A t \in Threads :
        pc[t] \in {"lock", "locking", "recheck", "write"} /\ index[t] # Far =>
            \A o \in Units : o < offset[t] => data[index[t]][o] # Nothing

LeaseInv ==
    /\ LockInv
    /\ LeaseTypeOK
    /\ PointerInLog
    /\ WalkInLog
    /\ RoomAhead
    /\ Pending
    /\ FilledBelow
    /\ NoHoles
-----------------------------------------------------------------------------
\* The length stored in an entry is a number of units below the section size,
\* and not more than the offset it is made from.
LEMMA EntryLenType ==
  ASSUME NEW o \in 0..Section, NEW n
  PROVE  EntryLen(o, n) \in Units /\ EntryLen(o, n) <= o
  BY LeaseAssumption DEF LeaseAssumption, EntryLen, Units

\* The index before the first is -1, and other subtractions do not wrap.
LEMMA Wrap ==
  ASSUME NEW n \in 0..MaxCount, NEW v \in 0..MaxWalk, v <= n \/ v = 1
  PROVE  (n - v) % IndexRange = IF v <= n THEN n - v ELSE Far
<1> USE LeaseAssumption DEF LeaseAssumption
<1>1. CASE v <= n
  <2>1. n - v \in 0..(IndexRange - 1) /\ IndexRange > 0
    BY <1>1
  <2> QED
    BY <1>1, <2>1
<1>2. CASE v = 1 /\ n = 0
  <2>1. IndexRange \in Nat /\ IndexRange > 1
    OBVIOUS
  <2>2. (0 - 1) % IndexRange = IndexRange - 1
    BY <2>1
  <2> QED
    BY <1>2, <2>2 DEF Far
<1> QED
  BY <1>1, <1>2

\* The process gets the lock of entry -1, or has it.
FarKept(t) ==
    /\ pc[t] = "lock"
    /\ far' = {ProcOf[t]}
    /\ Goto(t, "seek")
    /\ UNCHANGED <<lockVars, fileVars, frameVars, ghostVars, todo, crashes>>

\* A process dies, whether it was killed or by itself.
Died(p) ==
    /\ Die(p)
    /\ crashes' \in {crashes, crashes + 1}
    /\ crashes' = crashes \/ crashes < MaxCrashes

\* The steps of a thread that survives them.
Moves(t) ==
    \/ \E n \in Sizes : Acquire(t, n)
    \/ Seek(t) \/ Scan(t) \/ Append(t) \/ AppendShort(t) \/ Tell(t)
    \/ Lock(t) \/ FarKept(t) \/ LockCell(t) \/ LockRecord(t) \/ Recheck(t)
    \/ Write(t) \/ Update(t) \/ Fail(t)
    \/ Release(t) \/ UnlockFind(t) \/ UnlockCell(t)

\* What can happen in a step.
LEMMA NextCases ==
  ASSUME [Next]_vars
  PROVE  \/ \E t \in Threads : Moves(t)
         \/ \E p \in Procs : Died(p)
         \/ UNCHANGED vars
<1>1. ASSUME NEW t \in Threads, LockFar(t)
      PROVE  FarKept(t) \/ Died(ProcOf[t])
  BY <1>1 DEF LockFar, FarKept, Died
<1>2. ASSUME NEW t \in Threads PROVE ProcOf[t] \in Procs
  BY LockAssumption DEF LockAssumption
<1>3. ASSUME NEW p \in Procs, Crash(p) PROVE Died(p)
  BY <1>3 DEF Crash, Died
<1> QED
  BY <1>1, <1>2, <1>3 DEF Next, Step, Moves

\* A step of a lease is a step on the locks.
LEMMA LeaseLockStep == LeaseInv /\ [Next]_vars => LockStep
<1> SUFFICES ASSUME LeaseInv, [Next]_vars PROVE LockStep
  OBVIOUS
<1> USE LockAssumption, LeaseAssumption DEF LockAssumption, LeaseAssumption, Far
<1>1. \A t \in Threads : pc[t] \in AtEntry => index[t] \in Index
  BY DEF LeaseInv, LeaseTypeOK, WalkInLog, WalkOf
<1>2. CASE UNCHANGED lockVars
  BY <1>2 DEF LockStep
<1>3. ASSUME NEW t \in Threads, Lock(t) \/ Release(t) PROVE LockStep
  <2>1. index[t] \in Index
    <3>1. index[t] \in 0..Far /\ count \in 0..MaxCount
      BY DEF LeaseInv, LeaseTypeOK
    <3>2. index[t] < count
      BY <1>3 DEF Lock, Release, AtEntry, LeaseInv, WalkInLog, WalkOf
    <3> QED
      BY <3>1, <3>2 DEF Far
  <2>2. Find(t, index[t], "write") \/ Unlock(t, index[t], "write")
    BY <1>3 DEF Lock, Release
  <2> QED
    BY <2>1, <2>2 DEF LockStep
<1>4. ASSUME NEW t \in Threads,
             LockCell(t) \/ LockRecord(t) \/ UnlockFind(t) \/ UnlockCell(t)
      PROVE  LockStep
  BY <1>4 DEF LockCell, LockRecord, UnlockFind, UnlockCell, LockStep
<1>5. ASSUME NEW p \in Procs, Died(p) PROVE LockStep
  BY <1>5 DEF Died, Die, LockStep
<1>6. ASSUME NEW t \in Threads,
             \/ Seek(t) \/ Scan(t) \/ Append(t) \/ AppendShort(t) \/ Tell(t)
             \/ Recheck(t) \/ Write(t) \/ Update(t) \/ Fail(t) \/ FarKept(t)
             \/ \E n \in Sizes : Acquire(t, n)
      PROVE  UNCHANGED lockVars
  BY <1>6 DEF Seek, Scan, Append, AppendShort, Grow, Tell, Recheck, Write, Update,
     Fail, FarKept, Acquire
<1>7. CASE UNCHANGED vars
  BY <1>7, <1>2 DEF vars
<1> QED
  BY <1>2, <1>3, <1>4, <1>5, <1>6, <1>7, NextCases DEF Moves

\* The invariant holds at the start.
LEMMA LeaseInitInv == Init => LeaseInv
<1> SUFFICES ASSUME Init PROVE LeaseInv
  OBVIOUS
<1> USE LockAssumption, LeaseAssumption DEF LockAssumption, LeaseAssumption, Far
<1>1. LockInv
  BY InitInv DEF Init
<1>2. LeaseTypeOK
  <2>1. LockTypeOK
    BY <1>1 DEF LockInv
  <2>2. /\ count \in 0..MaxCount
        /\ pos \in [Procs -> 0..MaxCount]
        /\ pc \in [Threads -> Places]
        /\ size \in [Threads -> 0..Section]
        /\ index \in [Threads -> 0..Far]
        /\ offset \in [Threads -> 0..Section]
        /\ visited \in [Threads -> 0..MaxWalk]
        /\ left \in [Threads -> 0..Section]
        /\ todo \in [Threads -> 0..MaxCommits]
        /\ far \in SUBSET Procs
        /\ crashes \in 0..MaxCrashes
    BY DEF Init, Places, Far
  <2>5. tainted \in BOOLEAN
    BY DEF Init
  <2>3. len \in [Index -> Units]
    BY DEF Init, Units
  <2>4. data \in [Index -> [Units -> (Threads \X Nat) \cup {Old, Nothing}]]
    BY DEF Init
  <2> QED
    BY <2>1, <2>2, <2>3, <2>4, <2>5 DEF LeaseTypeOK
<1>3. PointerInLog
  BY DEF Init, PointerInLog
<1>4. WalkInLog /\ RoomAhead /\ Pending /\ FilledBelow
  BY DEF Init, WalkInLog, WalkOf, SkipInLog, RoomAhead, Pending, FilledBelow, AtEntry
<1>5. NoHoles
  <2>1. Old # Nothing
    BY DEF Old, Nothing
  <2> QED
    BY <2>1 DEF Init, NoHoles, Units
<1> QED
  BY <1>1, <1>2, <1>3, <1>4, <1>5 DEF LeaseInv
-----------------------------------------------------------------------------
(***************************************************************************)
(* Types.                                                                  *)
(***************************************************************************)

\* The types of the log and the threads.
FrameType ==
    /\ count \in 0..MaxCount
    /\ len \in [Index -> Units]
    /\ pos \in [Procs -> 0..MaxCount]
    /\ data \in [Index -> [Units -> (Threads \X Nat) \cup {Old, Nothing}]]
    /\ pc \in [Threads -> Places]
    /\ size \in [Threads -> 0..Section]
    /\ index \in [Threads -> 0..Far]
    /\ offset \in [Threads -> 0..Section]
    /\ visited \in [Threads -> 0..MaxWalk]
    /\ left \in [Threads -> 0..Section]
    /\ todo \in [Threads -> 0..MaxCommits]

\* Going to a place keeps the type of pc.
LEMMA GotoType ==
  ASSUME NEW t \in Threads, NEW l \in Places, pc \in [Threads -> Places], Goto(t, l)
  PROVE  pc' \in [Threads -> Places]
  BY DEF Goto

\* Every step keeps these types.
LEMMA StepFrameType == LeaseInv /\ [Next]_vars => FrameType'
<1> SUFFICES ASSUME LeaseInv, [Next]_vars PROVE FrameType'
  OBVIOUS
<1> USE LockAssumption, LeaseAssumption DEF LockAssumption, LeaseAssumption, Far
<1>0. /\ FrameType /\ PointerInLog /\ WalkInLog /\ RoomAhead /\ Pending
  BY DEF LeaseInv, LeaseTypeOK, FrameType
<1>a. \A t \in Threads : ProcOf[t] \in Procs
  OBVIOUS
<1>b. /\ "seek" \in Places /\ "scan" \in Places /\ "append" \in Places
      /\ "tell" \in Places /\ "lock" \in Places /\ "locking" \in Places
      /\ "recheck" \in Places /\ "write" \in Places /\ "release" \in Places
      /\ "unlocking" \in Places /\ "idle" \in Places
  BY DEF Places
<1>c. pc \in [Threads -> Places]
  BY <1>0 DEF FrameType
<1>1. ASSUME NEW t \in Threads, NEW n \in Sizes, Acquire(t, n) PROVE FrameType'
  <2>1. pc' \in [Threads -> Places]
    BY <1>1, <1>b, <1>c, GotoType DEF Acquire
  <2>2. size' \in [Threads -> 0..Section]
    <3>1. n \in 0..Section
      OBVIOUS
    <3> QED
      BY <1>0, <1>1, <3>1 DEF Acquire, FrameType
  <2>3. visited' \in [Threads -> 0..MaxWalk]
    BY <1>0, <1>1 DEF Acquire, FrameType
  <2> QED
    BY <1>0, <1>1, <2>1, <2>2, <2>3 DEF Acquire, FrameType, fileVars, ghostVars
<1>2. ASSUME NEW t \in Threads, Seek(t) PROVE FrameType'
  <2>1. (count - visited[t]) % IndexRange \in 0..Far
    <3>1. count \in 0..MaxCount /\ visited[t] \in 0..MaxWalk /\ SkipInLog(t)
      BY <1>0, <1>2 DEF Seek, FrameType, WalkInLog, WalkOf
    <3> QED
      BY <3>1, Wrap DEF SkipInLog, Far
  <2>2. pc' \in [Threads -> Places]
    BY <1>2, <1>b, <1>c, GotoType DEF Seek
  <2>3. /\ pos' \in [Procs -> 0..MaxCount]
        /\ index' \in [Threads -> 0..Far]
        /\ visited' \in [Threads -> 0..MaxWalk]
    BY <1>0, <1>2, <2>1 DEF Seek, FrameType
  <2> QED
    BY <1>0, <1>2, <2>2, <2>3 DEF Seek, FrameType, ghostVars
<1>3. ASSUME NEW t \in Threads, Scan(t) PROVE FrameType'
  <2>0. pc' \in [Threads -> Places]
    BY <1>3, <1>b, <1>c, GotoType DEF Scan
  <2>1. CASE UNCHANGED <<index, offset, visited>>
    BY <1>0, <1>3, <2>0, <2>1 DEF Scan, FrameType, fileVars, ghostVars
  <2>2. CASE /\ index[t] > 0
             /\ visited[t] < MaxWalk
             /\ index' = [index EXCEPT ![t] = index[t] - 1]
             /\ visited' = [visited EXCEPT ![t] = @ + 1]
    <3>0. /\ index[t] \in 0..Far /\ count \in 0..MaxCount
          /\ visited[t] \in 0..MaxWalk
          /\ \A i \in Index : len[i] \in Units
      BY <1>0 DEF FrameType
    <3>2. offset' \in [Threads -> 0..Section]
      <4>1. CASE offset' = offset
        BY <1>0, <4>1 DEF FrameType
      <4>2. CASE /\ HasSpace(index[t] - 1, size[t])
                 /\ offset' = [offset EXCEPT ![t] = len[index[t] - 1]]
        <5>1. index[t] - 1 \in Index
          BY <2>2, <3>0, <4>2 DEF HasSpace, Far
        <5>2. len[index[t] - 1] \in Units
          BY <3>0, <5>1
        <5>3. len[index[t] - 1] \in 0..Section
          BY <5>2, LeaseAssumption DEF Units
        <5> QED
          BY <1>0, <4>2, <5>3 DEF FrameType
      <4> QED
        BY <1>3, <2>2, <4>1, <4>2 DEF Scan
    <3>3. /\ index' \in [Threads -> 0..Far]
          /\ visited' \in [Threads -> 0..MaxWalk]
      <4>1. visited[t] + 1 \in 0..MaxWalk /\ index[t] - 1 \in 0..Far
        BY <2>2, <3>0 DEF Far
      <4> QED
        BY <1>0, <2>2, <4>1 DEF FrameType
    <3> QED
      BY <1>0, <1>3, <2>0, <3>2, <3>3 DEF Scan, FrameType, fileVars, ghostVars
  <2> QED
    BY <1>3, <2>1, <2>2 DEF Scan
<1>4. ASSUME NEW t \in Threads, Append(t) PROVE FrameType'
  <2>1. 0 \in Units
    BY DEF Units
  <2>2. pc' \in [Threads -> Places]
    BY <1>4, <1>b, <1>c, GotoType DEF Append
  <2>3. CASE UNCHANGED <<count, len, pos>>
    BY <1>0, <1>4, <2>2, <2>3 DEF Append, AppendShort, Grow, FrameType, frameVars,
       ghostVars
  <2>4. CASE /\ count < MaxCount
             /\ count' = count + 1
             /\ len' = [len EXCEPT ![count] = 0]
             /\ pos' = [pos EXCEPT ![ProcOf[t]] = count + 1]
    <3>1. count + 1 \in 0..MaxCount
      BY <1>0, <2>4 DEF FrameType
    <3>2. /\ len' \in [Index -> Units]
          /\ pos' \in [Procs -> 0..MaxCount]
      BY <1>0, <2>1, <2>4, <3>1 DEF FrameType
    <3> QED
      BY <1>0, <1>4, <2>2, <2>4, <3>1, <3>2 DEF Append, AppendShort, Grow,
         FrameType, frameVars, ghostVars
  <2> QED
    BY <1>4, <2>3, <2>4 DEF Append, Grow
<1>d. ASSUME NEW t \in Threads, AppendShort(t) PROVE FrameType'
  <2>1. pc' \in [Threads -> Places]
    BY <1>d, <1>b, <1>c, GotoType DEF AppendShort
  <2>2. count' \in 0..MaxCount /\ len' \in [Index -> Units]
    <3>1. 0 \in Units
      BY DEF Units
    <3>2. CASE UNCHANGED <<count, len>>
      BY <1>0, <3>2 DEF FrameType
    <3>3. CASE Grow
      <4>1. count + 1 \in 0..MaxCount /\ count' = count + 1
        BY <1>0, <3>3 DEF FrameType, Grow
      <4> QED
        BY <1>0, <3>1, <3>3, <4>1 DEF FrameType, Grow
    <3> QED
      BY <1>d, <3>2, <3>3 DEF AppendShort
  <2>3. todo' \in [Threads -> 0..MaxCommits]
    <3>1. pc[t] = "append" /\ todo' = [todo EXCEPT ![t] = @ - 1]
      BY <1>d DEF AppendShort
    <3>2. todo[t] > 0 /\ todo[t] \in 0..MaxCommits
      BY <1>0, <3>1 DEF Pending, FrameType
    <3>3. todo[t] - 1 \in 0..MaxCommits
      BY <3>2
    <3> QED
      BY <1>0, <3>1, <3>3 DEF FrameType
  <2>4. pos' \in [Procs -> 0..MaxCount]
    BY <1>0, <1>d, <2>2 DEF AppendShort, FrameType
  <2> QED
    BY <1>0, <1>d, <2>1, <2>2, <2>3, <2>4
       DEF AppendShort, FrameType, frameVars, ghostVars
<1>5. ASSUME NEW t \in Threads, Tell(t) PROVE FrameType'
  <2>1. (pos[ProcOf[t]] - 1) % IndexRange \in 0..Far
    <3>1. pos[ProcOf[t]] \in 0..MaxCount /\ 1 \in 0..MaxWalk
      BY <1>0, <1>a DEF FrameType
    <3> QED
      BY <3>1, Wrap DEF Far
  <2>2. pc' \in [Threads -> Places]
    BY <1>5, <1>b, <1>c, GotoType DEF Tell
  <2>3. /\ index' \in [Threads -> 0..Far]
        /\ offset' \in [Threads -> 0..Section]
        /\ visited' \in [Threads -> 0..MaxWalk]
    BY <1>0, <1>5, <2>1 DEF Tell, FrameType
  <2> QED
    BY <1>0, <1>5, <2>2, <2>3 DEF Tell, FrameType, fileVars, ghostVars
<1>6. ASSUME NEW t \in Threads,
             \/ Lock(t) \/ FarKept(t) \/ LockCell(t) \/ LockRecord(t)
             \/ Fail(t) \/ Release(t)
      PROVE  FrameType'
  BY <1>0, <1>6, <1>a DEF Lock, LockCell, LockRecord, Fail, FarKept, Release,
     FrameType, Goto,
       Places, fileVars, frameVars, ghostVars
<1>7. ASSUME NEW t \in Threads, Recheck(t) PROVE FrameType'
  BY <1>0, <1>7 DEF Recheck, FrameType, Goto, Places, fileVars
<1>8. ASSUME NEW t \in Threads, Write(t) PROVE FrameType'
  <2>1. /\ offset[t] \in Units /\ offset[t] + 1 \in 0..Section
        /\ left[t] - 1 \in 0..Section
        /\ index[t] \in Index
    <3>1. /\ offset[t] \in 0..Section /\ left[t] \in 0..Section /\ left[t] > 0
          /\ index[t] \in 0..Far /\ count \in 0..MaxCount
      BY <1>0, <1>8 DEF Write, FrameType
    <3>2. offset[t] + left[t] <= Section /\ index[t] < count
      BY <1>0, <1>8 DEF Write, RoomAhead, WalkInLog, WalkOf, AtEntry
    <3>3. index[t] \in Index
      BY <3>1, <3>2
    <3>4. offset[t] < Section
      BY <3>1, <3>2
    <3>5. left[t] - 1 \in 0..Section
      BY <3>1
    <3> QED
      BY <3>1, <3>3, <3>4, <3>5 DEF Units
  <2>2. Txn(t) \in Threads \X Nat
    BY <1>0 DEF Txn, FrameType
  <2>3. data' \in [Index -> [Units -> (Threads \X Nat) \cup {Old, Nothing}]]
    <3>1. data' = [data EXCEPT ![index[t]][offset[t]] = Txn(t)]
      BY <1>8 DEF Write
    <3> QED
      BY <1>0, <2>1, <2>2, <3>1 DEF FrameType
  <2>4. /\ offset' \in [Threads -> 0..Section]
        /\ left' \in [Threads -> 0..Section]
    BY <1>0, <1>8, <2>1 DEF Write, FrameType
  <2> QED
    BY <1>0, <1>8, <2>3, <2>4 DEF Write, FrameType, ghostVars
<1>9. ASSUME NEW t \in Threads, Update(t) PROVE FrameType'
  <2>1. EntryLen(offset[t], size[t]) \in Units
    BY <1>0, EntryLenType DEF FrameType
  <2>2. pc' \in [Threads -> Places]
    BY <1>9, <1>b, <1>c, GotoType DEF Update
  <2> QED
    BY <1>0, <1>9, <2>1, <2>2 DEF Update, FrameType, frameVars
<1>10. ASSUME NEW t \in Threads, UnlockFind(t) PROVE FrameType'
  BY <1>0, <1>10 DEF UnlockFind, FrameType, leaseVars, fileVars, frameVars
<1>11. ASSUME NEW t \in Threads, UnlockCell(t) PROVE FrameType'
  <2>1. pc' \in [Threads -> Places]
    BY <1>11, <1>b, <1>c, GotoType DEF UnlockCell
  <2>2. CASE todo' = todo
    BY <1>0, <1>11, <2>1, <2>2 DEF UnlockCell, FrameType, fileVars, frameVars,
       ghostVars
  <2>3. CASE pc[t] = "unlocking" /\ todo' = [todo EXCEPT ![t] = @ - 1]
    <3>1. todo[t] \in 0..MaxCommits /\ todo[t] > 0
      BY <1>0, <2>3 DEF FrameType, Pending
    <3>2. todo[t] - 1 \in 0..MaxCommits
      BY <3>1
    <3>3. todo' \in [Threads -> 0..MaxCommits]
      BY <1>0, <2>3, <3>2 DEF FrameType
    <3> QED
      BY <1>0, <1>11, <2>1, <3>3 DEF UnlockCell, FrameType, fileVars, frameVars,
         ghostVars
  <2> QED
    BY <1>11, <2>2, <2>3 DEF UnlockCell
<1>12. ASSUME NEW p \in Procs, Died(p) PROVE FrameType'
  <2>1. \A t \in Threads : pc[t] # "idle" => todo[t] - 1 \in 0..MaxCommits
    BY <1>0 DEF FrameType, Pending
  <2>2. "idle" \in Places
    BY DEF Places
  <2>3. /\ todo' \in [Threads -> 0..MaxCommits]
        /\ pc' \in [Threads -> Places]
        /\ pos' \in [Procs -> 0..MaxCount]
    BY <1>0, <1>12, <2>1, <2>2 DEF Died, Die, FrameType
  <2> QED
    BY <1>0, <1>12, <2>3 DEF Died, Die, FrameType, frameVars
<1>13. CASE UNCHANGED vars
  BY <1>0, <1>13 DEF vars, leaseVars, FrameType, fileVars, frameVars
<1> QED
  BY <1>1, <1>2, <1>3, <1>4, <1>5, <1>6, <1>7, <1>8, <1>9, <1>10, <1>11, <1>12,
     <1>13, <1>d, NextCases DEF Moves

\* Every step keeps the types.
LEMMA LeaseStepType == LeaseInv /\ [Next]_vars => LeaseTypeOK'
<1> SUFFICES ASSUME LeaseInv, [Next]_vars PROVE LeaseTypeOK'
  OBVIOUS
<1>1. FrameType'
  BY StepFrameType
<1>2. LockTypeOK'
  BY LeaseLockStep, StepType DEF LeaseInv, LockInv
<1>3. tainted' \in BOOLEAN
  <2>1. tainted \in BOOLEAN
    BY DEF LeaseInv, LeaseTypeOK
  <2>2. tainted' = tainted \/ \E t \in Threads : Lock(t) \/ Recheck(t) \/ Update(t)
    BY NextCases DEF Moves, Acquire, Seek, Scan, Append, AppendShort, Tell, FarKept,
       LockCell, LockRecord, Write, Fail, Release, UnlockFind, UnlockCell, Died, Die,
       vars, leaseVars, ghostVars
  <2> QED
    BY <2>1, <2>2 DEF Lock, Recheck, Update
<1>4. far' \in SUBSET Procs /\ crashes' \in 0..MaxCrashes
  <2>1. far \in SUBSET Procs /\ crashes \in 0..MaxCrashes
    BY DEF LeaseInv, LeaseTypeOK
  <2>2. ASSUME NEW t \in Threads, Moves(t)
        PROVE  far' \in {far, {ProcOf[t]}} /\ crashes' = crashes
    BY <2>2 DEF Moves, Acquire, Seek, Scan, Append, AppendShort, Tell, Lock, FarKept,
       LockCell, LockRecord, Recheck, Write, Update, Fail, Release, UnlockFind,
       UnlockCell, leaseVars, procVars
  <2>3. ASSUME NEW p \in Procs, Died(p)
        PROVE  far' = far \ {p} /\ crashes' \in 0..MaxCrashes
    BY <2>1, <2>3, LeaseAssumption DEF Died, Die, LeaseAssumption
  <2>4. \A t \in Threads : ProcOf[t] \in Procs
    BY LockAssumption DEF LockAssumption
  <2> QED
    BY <2>1, <2>2, <2>3, <2>4, NextCases DEF vars, leaseVars, procVars
<1> QED
  BY <1>1, <1>2, <1>3, <1>4 DEF FrameType, LeaseTypeOK
-----------------------------------------------------------------------------
(***************************************************************************)
(* The walk.                                                               *)
(***************************************************************************)

\* Every step keeps the file pointers inside the log.
LEMMA StepPointer == LeaseInv /\ [Next]_vars => PointerInLog'
<1> SUFFICES ASSUME LeaseInv, [Next]_vars PROVE PointerInLog'
  OBVIOUS
<1> USE LockAssumption, LeaseAssumption DEF LockAssumption, LeaseAssumption, Far
<1>0. FrameType /\ PointerInLog
  BY DEF LeaseInv, LeaseTypeOK, FrameType
<1>1. ASSUME NEW t \in Threads, Seek(t) \/ Append(t) \/ AppendShort(t)
      PROVE  PointerInLog'
  <2>0. count \in Nat /\ \A p \in Procs : pos[p] \in Nat
    BY <1>0 DEF FrameType
  <2>1. count' = count \/ count' = count + 1
    BY <1>1 DEF Seek, Append, AppendShort, Grow
  <2>2. ASSUME NEW p \in Procs PROVE pos'[p] = pos[p] \/ pos'[p] = count'
    <3>1. \/ pos' = pos
          \/ pos' = [pos EXCEPT ![ProcOf[t]] = count']
      BY <1>1 DEF Seek, Append, AppendShort, Grow
    <3> QED
      BY <1>0, <3>1 DEF FrameType
  <2> QED
    BY <1>0, <2>0, <2>1, <2>2 DEF PointerInLog
<1>2. ASSUME NEW p \in Procs, Died(p) PROVE PointerInLog'
  BY <1>0, <1>2 DEF Died, Die, FrameType, PointerInLog
<1>3. ASSUME NEW t \in Threads,
             \/ Scan(t) \/ Tell(t) \/ Lock(t) \/ FarKept(t) \/ LockCell(t)
             \/ LockRecord(t) \/ Recheck(t) \/ Write(t) \/ Update(t) \/ Fail(t)
             \/ Release(t) \/ UnlockFind(t) \/ UnlockCell(t)
             \/ \E n \in Sizes : Acquire(t, n)
      PROVE  UNCHANGED <<count, pos>>
  BY <1>3 DEF Scan, Tell, Lock, FarKept, LockCell, LockRecord, Recheck, Write, Update,
       Fail, Release, UnlockFind, UnlockCell, Acquire, fileVars, leaseVars
<1>4. CASE UNCHANGED <<count, pos>>
  BY <1>0, <1>4 DEF PointerInLog
<1>5. CASE UNCHANGED vars
  BY <1>4, <1>5 DEF vars, leaseVars, fileVars
<1> QED
  BY <1>1, <1>2, <1>3, <1>4, <1>5, NextCases DEF Moves

\* Every step keeps the walk inside the log.
LEMMA StepWalk == LeaseInv /\ [Next]_vars => WalkInLog'
<1> SUFFICES ASSUME LeaseInv, [Next]_vars PROVE WalkInLog'
  OBVIOUS
<1> USE LockAssumption, LeaseAssumption DEF LockAssumption, LeaseAssumption, Far
<1>0. FrameType /\ PointerInLog /\ WalkInLog
  BY DEF LeaseInv, LeaseTypeOK, FrameType
<1>1. ASSUME NEW u \in Threads, count' \in Nat, count <= count',
             pc'[u] = pc[u], index'[u] = index[u], visited'[u] = visited[u]
      PROVE  WalkOf(u)'
  <2>1. WalkOf(u) /\ count \in Nat /\ index[u] \in Nat /\ visited[u] \in Nat
    BY <1>0 DEF FrameType, WalkInLog, Far
  <2> QED
    BY <1>1, <2>1 DEF WalkOf, SkipInLog, Far
<1>2. ASSUME NEW t \in Threads, Moves(t)
      PROVE  /\ count \in Nat /\ count' \in Nat /\ count <= count'
             /\ \A u \in Threads \ {t} :
                    pc'[u] = pc[u] /\ index'[u] = index[u] /\ visited'[u] = visited[u]
  <2>1. count \in Nat /\ count' \in Nat /\ count <= count'
    <3>1. count' = count \/ count' = count + 1
      BY <1>2 DEF Moves, Acquire, Seek, Scan, Append, AppendShort, Grow, Tell, Lock,
         FarKept, LockCell, LockRecord, Recheck, Write, Update, Fail, Release,
         UnlockFind, UnlockCell, leaseVars, fileVars
    <3>2. count \in Nat
      BY <1>0 DEF FrameType
    <3> QED
      BY <3>1, <3>2
  <2> QED
    BY <1>0, <1>2, <2>1 DEF Moves, Goto, Acquire, Seek, Scan, Append, AppendShort,
       Tell,
       Lock, FarKept, LockCell, LockRecord, Recheck, Write, Update, Fail, Release,
       UnlockFind, UnlockCell, leaseVars, frameVars, FrameType
<1>3. ASSUME NEW t \in Threads,
             Append(t) \/ AppendShort(t) \/ \E n \in Sizes : Acquire(t, n)
      PROVE  WalkOf(t)'
  <2>1. \/ pc'[t] \in {"tell", "idle"}
        \/ pc'[t] = "seek" /\ visited'[t] = 0
    BY <1>0, <1>3 DEF Append, AppendShort, Acquire, Goto, FrameType
  <2>2. 0 <= count'
    BY <1>2, <1>3 DEF Moves
  <2> QED
    BY <2>1, <2>2 DEF WalkOf, SkipInLog, AtEntry
<1>4. ASSUME NEW t \in Threads, Seek(t) PROVE WalkOf(t)'
  <2>1. /\ pc'[t] = "scan" /\ visited'[t] = 0 /\ count' = count
        /\ index'[t] = (count - visited[t]) % IndexRange
    BY <1>0, <1>4 DEF Seek, Goto, FrameType
  <2>2. count \in 0..MaxCount /\ visited[t] \in 0..MaxWalk /\ SkipInLog(t)
    BY <1>0, <1>4 DEF Seek, FrameType, WalkInLog, WalkOf
  <2>3. index'[t] = IF visited[t] <= count THEN count - visited[t] ELSE Far
    BY <2>1, <2>2, Wrap DEF SkipInLog
  <2>4. index'[t] + 0 <= count \/ index'[t] + 0 = Far
    BY <2>2, <2>3 DEF Far
  <2> QED
    BY <2>1, <2>4 DEF WalkOf, AtEntry, Far
<1>5. ASSUME NEW t \in Threads, Scan(t) PROVE WalkOf(t)'
  <2>1. /\ count' = count /\ pc[t] = "scan"
        /\ index[t] \in 0..Far /\ visited[t] \in 0..MaxWalk /\ count \in 0..MaxCount
        /\ index[t] + visited[t] <= count \/ index[t] + visited[t] = Far
    BY <1>0, <1>5 DEF Scan, fileVars, FrameType, WalkInLog, WalkOf
  <2>2. CASE pc'[t] = "append"
    BY <2>2 DEF WalkOf, AtEntry
  <2>3. CASE /\ index[t] > 0 /\ visited[t] < MaxWalk
             /\ index'[t] = index[t] - 1 /\ visited'[t] = visited[t] + 1
    <3>1. \/ index'[t] + visited'[t] <= count
          \/ index'[t] + visited'[t] = Far
      <4>1. index[t] \in Int /\ visited[t] \in Int
        BY <2>1
      <4>2. (index[t] - 1) + (visited[t] + 1) = index[t] + visited[t]
        BY <4>1
      <4> QED
        BY <2>1, <2>3, <4>2
    <3>2. CASE pc'[t] = "scan"
      BY <2>1, <3>1, <3>2 DEF WalkOf, AtEntry, Far
    <3>3. CASE pc'[t] = "lock" /\ HasSpace(index[t] - 1, size[t])
      <4>1. index'[t] < count
        BY <2>3, <3>3 DEF HasSpace
      <4>2. visited'[t] <= count
        BY <2>1, <2>3, <3>1, <4>1 DEF Far
      <4> QED
        BY <2>1, <3>3, <4>1, <4>2 DEF WalkOf, SkipInLog, AtEntry
    <3> QED
      BY <1>0, <1>5, <2>1, <2>3, <3>2, <3>3 DEF Scan, Goto, FrameType
  <2> QED
    BY <1>0, <1>5, <2>2, <2>3 DEF Scan, Goto, FrameType
<1>6. ASSUME NEW t \in Threads, Tell(t) PROVE WalkOf(t)'
  <2>1. /\ pc'[t] = "lock" /\ visited'[t] = 1 /\ count' = count
        /\ index'[t] = (pos[ProcOf[t]] - 1) % IndexRange
    BY <1>0, <1>6 DEF Tell, Goto, FrameType, fileVars
  <2>2. /\ pos[ProcOf[t]] \in 0..MaxCount /\ pos[ProcOf[t]] <= count
        /\ count \in 0..MaxCount
    BY <1>0 DEF FrameType, PointerInLog
  <2>3. index'[t] = IF 1 <= pos[ProcOf[t]] THEN pos[ProcOf[t]] - 1 ELSE Far
    <3>1. 1 \in 0..MaxWalk
      OBVIOUS
    <3> QED
      BY <2>1, <2>2, <3>1, Wrap
  <2>4. index'[t] < count \/ index'[t] = Far
    BY <2>2, <2>3
  <2> QED
    BY <2>1, <2>4 DEF WalkOf, SkipInLog, AtEntry, Far
<1>7. ASSUME NEW t \in Threads,
             \/ Lock(t) \/ FarKept(t) \/ LockCell(t) \/ LockRecord(t) \/ Recheck(t)
             \/ Write(t) \/ Update(t) \/ Fail(t) \/ Release(t)
             \/ UnlockFind(t) \/ UnlockCell(t)
      PROVE  WalkOf(t)'
  <2>1. count' = count /\ index' = index /\ visited' = visited
    BY <1>7 DEF Lock, FarKept, LockCell, LockRecord, Recheck, Write, Update, Fail,
         Release, UnlockFind, UnlockCell, fileVars, frameVars, leaseVars
  <2>2. /\ pc'[t] \in {"seek", "lock", "locking", "recheck"} =>
                pc[t] \in {"lock", "locking", "recheck"}
        /\ pc'[t] # "scan" /\ pc'[t] # "lock"
        /\ pc'[t] \in AtEntry => pc[t] \in AtEntry \/ (pc[t] = "lock" /\ index[t] # Far)
    BY <1>0, <1>7 DEF FrameType, Goto, Lock, FarKept, LockCell, LockRecord, Recheck,
         AtEntry, Write, Update, Fail, Release, UnlockFind, UnlockCell, leaseVars
  <2>3. WalkOf(t)
    BY <1>0 DEF WalkInLog
  <2> QED
    BY <2>1, <2>2, <2>3 DEF WalkOf, SkipInLog, Far
<1>8. ASSUME NEW t \in Threads, Moves(t) PROVE WalkInLog'
  <2>1. WalkOf(t)'
    BY <1>3, <1>4, <1>5, <1>6, <1>7, <1>8 DEF Moves
  <2>2. ASSUME NEW u \in Threads \ {t} PROVE WalkOf(u)'
    BY <1>1, <1>2, <1>8
  <2> QED
    BY <2>1, <2>2 DEF WalkInLog
<1>9. ASSUME NEW p \in Procs, Died(p), NEW u \in Threads PROVE WalkOf(u)'
  <2>1. count' = count /\ index' = index /\ visited' = visited
    BY <1>9 DEF Died, Die, frameVars
  <2>2. pc'[u] = pc[u] \/ pc'[u] = "idle"
    BY <1>9 DEF Died, Die
  <2>3. CASE pc'[u] = "idle"
    BY <2>3 DEF WalkOf, AtEntry
  <2> QED
    BY <1>0, <1>1, <2>1, <2>2, <2>3 DEF FrameType
<1>10. ASSUME UNCHANGED vars, NEW u \in Threads PROVE WalkOf(u)'
  BY <1>0, <1>1, <1>10 DEF vars, leaseVars, fileVars, frameVars, FrameType
<1> QED
  BY <1>8, <1>9, <1>10, NextCases DEF WalkInLog

\* Every step keeps the room that is asked for.
LEMMA StepRoom == LeaseInv /\ [Next]_vars => RoomAhead'
<1> SUFFICES ASSUME LeaseInv, [Next]_vars PROVE RoomAhead'
  OBVIOUS
<1> USE LockAssumption, LeaseAssumption DEF LockAssumption, LeaseAssumption, Far
<1>0. FrameType /\ WalkInLog /\ RoomAhead
  BY DEF LeaseInv, LeaseTypeOK, FrameType
<1>1. ASSUME NEW t \in Threads, Scan(t) PROVE RoomAhead'
  <2>1. CASE /\ UNCHANGED offset
             /\ pc' = pc \/ pc' = [pc EXCEPT ![t] = "append"]
    <3>1. \A u \in Threads :
            pc'[u] \in {"lock", "locking", "recheck", "write"} => pc'[u] = pc[u]
      BY <1>0, <1>1, <2>1 DEF Scan, Goto, FrameType
    <3> QED
      BY <1>0, <1>1, <2>1, <3>1 DEF Scan, RoomAhead
  <2>2. CASE /\ HasSpace(index[t] - 1, size[t])
             /\ offset' = [offset EXCEPT ![t] = len[index[t] - 1]]
             /\ pc' = [pc EXCEPT ![t] = "lock"]
             /\ index[t] > 0
    <3>1. index[t] - 1 \in Index
      <4>1. index[t] \in 0..Far /\ count \in 0..MaxCount /\ index[t] - 1 < count
        BY <1>0, <2>2 DEF FrameType, HasSpace
      <4> QED
        BY <2>2, <4>1
    <3>2. len[index[t] - 1] \in Nat /\ size[t] \in Nat
      BY <1>0, <3>1 DEF FrameType, Units
    <3>3. len[index[t] - 1] + size[t] <= Section
      BY <2>2, <3>2 DEF HasSpace
    <3>4. \A u \in Threads \ {t} : offset'[u] = offset[u] /\ pc'[u] = pc[u]
      BY <1>0, <2>2 DEF FrameType
    <3>5. offset'[t] = len[index[t] - 1] /\ pc'[t] = "lock"
      BY <1>0, <2>2 DEF FrameType
    <3>6. size' = size /\ left' = left
      BY <1>1 DEF Scan
    <3> QED
      BY <1>0, <3>3, <3>4, <3>5, <3>6 DEF RoomAhead
  <2> QED
    BY <1>1, <2>1, <2>2 DEF Scan, Goto
<1>2. ASSUME NEW t \in Threads, Tell(t) PROVE RoomAhead'
  BY <1>0, <1>2 DEF Tell, Goto, FrameType, RoomAhead
<1>3. ASSUME NEW t \in Threads, Recheck(t) PROVE RoomAhead'
  BY <1>0, <1>3 DEF Recheck, Goto, FrameType, RoomAhead
<1>4. ASSUME NEW t \in Threads, Write(t) PROVE RoomAhead'
  <2>1. /\ pc' = pc /\ size' = size
        /\ offset' = [offset EXCEPT ![t] = @ + 1]
        /\ left' = [left EXCEPT ![t] = @ - 1]
    BY <1>4 DEF Write
  <2>2. \A u \in Threads \ {t} : offset'[u] = offset[u] /\ left'[u] = left[u]
    BY <1>0, <2>1 DEF FrameType
  <2>3. /\ offset'[t] = offset[t] + 1 /\ left'[t] = left[t] - 1
        /\ offset[t] \in Nat /\ left[t] \in Nat
    BY <1>0, <2>1 DEF FrameType
  <2>4. pc[t] = "write" /\ offset[t] + left[t] <= Section
    BY <1>0, <1>4 DEF Write, RoomAhead
  <2>5. offset'[t] + left'[t] <= Section
    BY <2>3, <2>4
  <2> QED
    BY <1>0, <2>1, <2>2, <2>4, <2>5 DEF RoomAhead
<1>5. ASSUME NEW t \in Threads,
             \/ Lock(t) \/ LockCell(t) \/ LockRecord(t)
             \/ Append(t) \/ AppendShort(t) \/ Update(t) \/ Fail(t) \/ FarKept(t) \/ Release(t)
             \/ UnlockFind(t) \/ UnlockCell(t)
      PROVE  RoomAhead'
  <2>1. offset' = offset /\ size' = size /\ left' = left
    BY <1>5 DEF Lock, LockCell, LockRecord, Append, AppendShort, Grow, Update,
       Fail, FarKept,
         Release, UnlockFind, UnlockCell, frameVars, leaseVars
  <2>2. \A u \in Threads :
          /\ pc'[u] \in {"lock", "locking", "recheck"} =>
                pc[u] \in {"lock", "locking", "recheck"}
          /\ pc'[u] = "write" => pc[u] = "write"
    BY <1>0, <1>5 DEF FrameType, Goto, Lock, LockCell, LockRecord, Append,
       AppendShort, Grow,
         Update, Fail, FarKept, Release, UnlockFind, UnlockCell, leaseVars
  <2> QED
    BY <1>0, <2>1, <2>2 DEF RoomAhead
<1>6. ASSUME NEW t \in Threads, Seek(t) \/ \E n \in Sizes : Acquire(t, n)
      PROVE  RoomAhead'
  <2>1. offset' = offset /\ left' = left
    BY <1>6 DEF Seek, Acquire
  <2>2. \A u \in Threads :
          pc'[u] \in {"lock", "locking", "recheck", "write"} =>
            pc'[u] = pc[u] /\ size'[u] = size[u]
    BY <1>0, <1>6 DEF FrameType, Goto, Seek, Acquire
  <2> QED
    BY <1>0, <2>1, <2>2 DEF RoomAhead
<1>7. ASSUME NEW p \in Procs, Died(p) PROVE RoomAhead'
  BY <1>0, <1>7 DEF Died, Die, RoomAhead, frameVars
<1>8. CASE UNCHANGED vars
  BY <1>0, <1>8 DEF RoomAhead, vars, leaseVars, frameVars
<1> QED
  BY <1>1, <1>2, <1>3, <1>4, <1>5, <1>6, <1>7, <1>8, NextCases DEF Moves

\* Every step leaves a thread inside a call with a transaction to account for.
LEMMA StepPending == LeaseInv /\ [Next]_vars => Pending'
<1> SUFFICES ASSUME LeaseInv, [Next]_vars PROVE Pending'
  OBVIOUS
<1>0. FrameType /\ Pending
  BY DEF LeaseInv, LeaseTypeOK, FrameType
<1>1. ASSUME NEW t \in Threads, NEW n \in Sizes, Acquire(t, n) PROVE Pending'
  BY <1>0, <1>1 DEF Acquire, Goto, FrameType, Pending
<1>2. ASSUME NEW t \in Threads, UnlockCell(t) \/ AppendShort(t) PROVE Pending'
  BY <1>0, <1>2 DEF UnlockCell, AppendShort, Goto, FrameType, Pending
<1>3. ASSUME NEW t \in Threads,
             \/ Seek(t) \/ Scan(t) \/ Append(t) \/ Tell(t) \/ Lock(t) \/ LockCell(t)
             \/ LockRecord(t) \/ Recheck(t) \/ Write(t) \/ Update(t) \/ Fail(t) \/ FarKept(t)
             \/ Release(t) \/ UnlockFind(t)
      PROVE  Pending'
  <2>1. todo' = todo
    BY <1>3 DEF Seek, Scan, Append, AppendShort, Grow, Tell, Lock, LockCell,
       LockRecord, Recheck,
         Write, Update, Fail, FarKept, Release, UnlockFind, leaseVars
  <2>2. pc[t] # "idle" /\ \A u \in Threads \ {t} : pc'[u] = pc[u]
    BY <1>0, <1>3 DEF Seek, Scan, Append, AppendShort, Grow, Tell, Lock, LockCell,
       LockRecord, Recheck,
         Write, Update, Fail, FarKept, Release, UnlockFind, leaseVars, FrameType, Goto
  <2> QED
    BY <1>0, <2>1, <2>2 DEF Pending
<1>4. ASSUME NEW p \in Procs, Died(p) PROVE Pending'
  BY <1>0, <1>4 DEF Died, Die, FrameType, Pending
<1>5. CASE UNCHANGED vars
  BY <1>0, <1>5 DEF Pending, vars, leaseVars
<1> QED
  BY <1>1, <1>2, <1>3, <1>4, <1>5, NextCases DEF Moves
-----------------------------------------------------------------------------
(***************************************************************************)
(* The data.                                                               *)
(***************************************************************************)

\* A transaction in progress is not the mark of a unit never written.
LEMMA TxnIsSomething ==
  ASSUME LeaseInv, NEW t \in Threads, pc[t] # "idle"
  PROVE  Txn(t) # Nothing
<1>1. todo[t] > 0
  BY DEF LeaseInv, Pending
<1> QED
  BY <1>1 DEF Txn, Nothing

\* No step makes a written unit an unwritten one.
LEMMA StepData ==
  ASSUME LeaseInv, [Next]_vars, NEW i \in Index, NEW o \in Units,
         data[i][o] # Nothing
  PROVE  data'[i][o] # Nothing
<1>1. FrameType
  BY DEF LeaseInv, LeaseTypeOK, FrameType
<1>2. ASSUME NEW t \in Threads, Write(t) PROVE data'[i][o] # Nothing
  <2>1. data' = [data EXCEPT ![index[t]][offset[t]] = Txn(t)]
    BY <1>2 DEF Write
  <2>2. Txn(t) # Nothing
    BY <1>2, TxnIsSomething DEF Write
  <2>3. data'[i][o] = data[i][o] \/ data'[i][o] = Txn(t)
    BY <1>1, <2>1 DEF FrameType
  <2> QED
    BY <2>2, <2>3
<1>3. data' = data \/ \E t \in Threads : Write(t)
  BY NextCases DEF Moves, Acquire, Seek, Scan, Append, AppendShort, Grow, Tell,
     Lock, LockCell, LockRecord,
       Recheck, Update, Fail, FarKept, Release, UnlockFind, UnlockCell, Died, Die,
          vars,
       leaseVars, fileVars
<1> QED
  BY <1>2, <1>3

\* Every step keeps the units below an offset written.
LEMMA StepFilled == LeaseInv /\ [Next]_vars => FilledBelow'
<1> SUFFICES ASSUME LeaseInv, [Next]_vars, NEW u \in Threads, NEW o \in Units,
                    pc'[u] \in {"lock", "locking", "recheck", "write"},
                       index'[u] # Far,
                    o < offset'[u]
             PROVE  data'[index'[u]][o] # Nothing
  BY DEF FilledBelow, Units
<1> USE LockAssumption, LeaseAssumption DEF LockAssumption, LeaseAssumption, Far
<1>0. FrameType /\ WalkInLog /\ RoomAhead /\ FilledBelow /\ NoHoles
  BY DEF LeaseInv, LeaseTypeOK, FrameType
<1>1. CASE /\ pc[u] \in {"lock", "locking", "recheck", "write"}
           /\ index'[u] = index[u]
           /\ offset'[u] = offset[u]
  <2>1. index[u] \in Index
    <3>1. index[u] \in 0..Far /\ count \in 0..MaxCount /\ index[u] < count
      BY <1>0, <1>1 DEF FrameType, WalkInLog, WalkOf, AtEntry
    <3> QED
      BY <3>1
  <2>2. data[index[u]][o] # Nothing
    BY <1>0, <1>1 DEF FilledBelow
  <2> QED
    BY <1>1, <2>1, <2>2, StepData
<1>2. ASSUME NEW t \in Threads, Scan(t), t = u PROVE data'[index'[u]][o] # Nothing
  <2>1. /\ index[u] > 0 /\ index[u] - 1 < count
        /\ index' = [index EXCEPT ![u] = index[u] - 1]
        /\ offset' = [offset EXCEPT ![u] = len[index[u] - 1]]
    <3>1. pc \in [Threads -> Places]
      BY <1>0 DEF FrameType
    <3> QED
      BY <1>2, <3>1 DEF Scan, Goto, HasSpace
  <2>2. index'[u] = index[u] - 1 /\ offset'[u] = len[index[u] - 1]
    BY <1>0, <2>1 DEF FrameType
  <2>3. index[u] - 1 \in Index
    <3>1. index[u] \in 0..Far /\ count \in 0..MaxCount
      BY <1>0 DEF FrameType
    <3> QED
      BY <2>1, <3>1
  <2>4. data[index[u] - 1][o] # Nothing
    BY <1>0, <2>2, <2>3 DEF NoHoles
  <2> QED
    BY <2>2, <2>3, <2>4, StepData
<1>3. ASSUME NEW t \in Threads, Tell(t), t = u PROVE data'[index'[u]][o] # Nothing
  <2>1. offset'[u] = 0
    BY <1>0, <1>3 DEF Tell, FrameType
  <2> QED
    BY <2>1 DEF Units
<1>4. ASSUME NEW t \in Threads, Write(t), t = u PROVE data'[index'[u]][o] # Nothing
  <2>1. /\ index' = index /\ pc[u] = "write"
        /\ offset' = [offset EXCEPT ![u] = @ + 1]
        /\ data' = [data EXCEPT ![index[u]][offset[u]] = Txn(u)]
    BY <1>4 DEF Write
  <2>2. offset'[u] = offset[u] + 1 /\ offset[u] \in Nat
    BY <1>0, <2>1 DEF FrameType
  <2>3. index[u] \in Index /\ index[u] # Far
    <3>1. index[u] \in 0..Far /\ count \in 0..MaxCount /\ index[u] < count
      BY <1>0, <2>1 DEF FrameType, WalkInLog, WalkOf, AtEntry
    <3> QED
      BY <3>1
  <2>4. CASE o < offset[u]
    <3>1. data[index[u]][o] # Nothing
      BY <1>0, <2>1, <2>4 DEF FilledBelow
    <3> QED
      BY <2>1, <2>3, <3>1, StepData
  <2>5. CASE o = offset[u]
    <3>1. data'[index[u]][o] = Txn(u)
      BY <1>0, <2>1, <2>3, <2>5 DEF FrameType
    <3>2. Txn(u) # Nothing
      BY <2>1, TxnIsSomething
    <3> QED
      BY <2>1, <3>1, <3>2
  <2> QED
    BY <2>2, <2>4, <2>5 DEF Units
<1>5. ASSUME NEW t \in Threads, NEW n \in Sizes, Acquire(t, n)
      PROVE  data'[index'[u]][o] # Nothing
  <2>1. pc'[u] = pc[u] /\ index'[u] = index[u] /\ offset'[u] = offset[u]
    BY <1>0, <1>5 DEF Acquire, Goto, FrameType
  <2> QED
    BY <1>1, <2>1
<1>6. ASSUME NEW t \in Threads, Moves(t), t # u
      PROVE  data'[index'[u]][o] # Nothing
  <2>1. pc'[u] = pc[u] /\ index'[u] = index[u] /\ offset'[u] = offset[u]
    BY <1>0, <1>6 DEF Moves, Goto, Acquire, Seek, Scan, Append, AppendShort, Grow,
       Tell, Lock, LockCell, LockRecord,
         Recheck, Write, Update, Fail, FarKept, Release, UnlockFind, UnlockCell,
            leaseVars,
         frameVars, FrameType
  <2> QED
    BY <1>1, <2>1
<1>7. ASSUME \/ Seek(u) \/ Append(u) \/ AppendShort(u) \/ Lock(u) \/ LockCell(u) \/ LockRecord(u)
             \/ Recheck(u) \/ Update(u) \/ Fail(u) \/ FarKept(u) \/ Release(u)
             \/ UnlockFind(u) \/ UnlockCell(u)
      PROVE  data'[index'[u]][o] # Nothing
  <2>1. /\ pc[u] \in {"lock", "locking", "recheck", "write"}
        /\ index'[u] = index[u] /\ offset'[u] = offset[u]
    BY <1>0, <1>7 DEF Goto, Seek, Append, AppendShort, Grow, Lock, LockCell,
       LockRecord, Recheck, Update,
         Fail, FarKept, Release, UnlockFind, UnlockCell, leaseVars, frameVars,
            FrameType
  <2> QED
    BY <1>1, <2>1
<1>8. ASSUME NEW p \in Procs, Died(p) PROVE data'[index'[u]][o] # Nothing
  BY <1>0, <1>1, <1>8 DEF Died, Die, frameVars, FrameType
<1>9. CASE UNCHANGED vars
  BY <1>1, <1>9 DEF vars, leaseVars, frameVars
<1> QED
  BY <1>2, <1>3, <1>4, <1>5, <1>6, <1>7, <1>8, <1>9, NextCases DEF Moves

\* Every step leaves the units below the length of an entry written.
LEMMA StepHoles == LeaseInv /\ [Next]_vars => NoHoles'
<1> SUFFICES ASSUME LeaseInv, [Next]_vars, NEW i \in Index, NEW o \in Units,
                    o < len'[i]
             PROVE  data'[i][o] # Nothing
  BY DEF NoHoles, Units
<1> USE LockAssumption, LeaseAssumption DEF LockAssumption, LeaseAssumption, Far
<1>0. FrameType /\ WalkInLog /\ FilledBelow /\ NoHoles
  BY DEF LeaseInv, LeaseTypeOK, FrameType
<1>1. CASE len'[i] = len[i]
  BY <1>0, <1>1, StepData DEF NoHoles
<1>2. ASSUME NEW t \in Threads,
   Append(t) \/ AppendShort(t) PROVE data'[i][o] # Nothing
  <2>1. len' = len \/ len' = [len EXCEPT ![count] = 0]
    BY <1>2 DEF Append, AppendShort, Grow
  <2>2. len'[i] = len[i] \/ len'[i] = 0
    BY <1>0, <2>1 DEF FrameType
  <2> QED
    BY <1>1, <2>2 DEF Units
<1>3. ASSUME NEW t \in Threads, Update(t) PROVE data'[i][o] # Nothing
  <2>1. /\ len' = [len EXCEPT ![index[t]] = EntryLen(offset[t], size[t])]
        /\ pc[t] = "write"
        /\ data' = data
    BY <1>3 DEF Update
  <2>2. CASE i = index[t]
    <3>1. len'[i] = EntryLen(offset[t], size[t])
      BY <1>0, <2>1, <2>2 DEF FrameType
    <3>2. offset[t] \in 0..Section
      BY <1>0 DEF FrameType
    <3>3. EntryLen(offset[t], size[t]) \in Units /\ EntryLen(offset[t],
       size[t]) <= offset[t]
      BY <3>2, EntryLenType
    <3>4. o < offset[t]
      BY <3>1, <3>2, <3>3 DEF Units
    <3> QED
      <4>1. /\ index[t] \in 0..Far /\ count \in 0..MaxCount
            /\ index[t] < count
        BY <1>0, <2>1 DEF FrameType, WalkInLog, WalkOf, AtEntry
      <4>2. index[t] # Far
        BY <4>1
      <4> QED
        BY <1>0, <2>1, <2>2, <3>4, <4>2 DEF FilledBelow
  <2>3. CASE i # index[t]
    BY <1>0, <1>1, <2>1, <2>3 DEF FrameType
  <2> QED
    BY <2>2, <2>3
<1>4. len' = len \/ \E t \in Threads : Append(t) \/ AppendShort(t) \/ Update(t)
  BY NextCases DEF Moves, Acquire, Seek, Scan, Tell, Lock, LockCell, LockRecord,
       Recheck, Write, Fail, FarKept, Release, UnlockFind, UnlockCell, Died, Die,
          vars,
       leaseVars, fileVars
<1> QED
  BY <1>1, <1>2, <1>3, <1>4
-----------------------------------------------------------------------------
(***************************************************************************)
(* The invariant and what follows from it.                                 *)
(***************************************************************************)

\* LeaseInv is inductive, whatever the processes do and whenever they crash.
LEMMA LeaseStepInv == LeaseInv /\ [Next]_vars => LeaseInv'
<1> SUFFICES ASSUME LeaseInv, [Next]_vars PROVE LeaseInv'
  OBVIOUS
<1>1. LockInv'
  BY LeaseLockStep, StepInv DEF LeaseInv
<1> QED
  BY <1>1, LeaseStepType, StepPointer, StepWalk, StepRoom, StepPending, StepFilled,
     StepHoles DEF LeaseInv

\* It therefore always holds.
LEMMA LeaseAlways == Spec => []LeaseInv
  BY LeaseInitInv, LeaseStepInv, PTL DEF Spec

\* Offsets, lengths and the part of the walk that is skipped stay in their
\* ranges in logdb_lease_acquire_write and logdb_txn_commit, from an empty log
\* on, with crashes and with writes that fail or are short.  An index is a
\* logdb_size_t and may wrap; that it then is no entry's is LeasesInBounds.
THEOREM LeaseTypesCorrect == Spec => []LeaseTypeOK
<1>1. LeaseInv => LeaseTypeOK
  BY DEF LeaseInv
<1> QED
  BY <1>1, LeaseAlways, PTL

\* A lease stays inside its section, and its section inside the log, although
\* its offset may be stale and an index computed from a log without entries
\* wraps to the largest logdb_size_t: no thread leases, writes or releases an
\* entry that is not there.
THEOREM LeasesInBounds == Spec => []LeaseInBounds
<1>1. LeaseInv => LeaseInBounds
  BY DEF LeaseInv, LeaseInBounds, RoomAhead, WalkInLog, WalkOf, AtEntry
<1> QED
  BY <1>1, LeaseAlways, PTL

\* The length of an entry never covers a unit that was not written.
THEOREM LengthsHonest == Spec => []NoHoles
<1>1. LeaseInv => NoHoles
  BY DEF LeaseInv
<1> QED
  BY <1>1, LeaseAlways, PTL

\* The locks exclude writers as they are used on the write path, where a
\* failed recheck leaves a lock behind that is never given back.
THEOREM WritersExcludeInLease == Spec => []WriterExclusion
<1>1. LeaseInv => WriterExclusion
  BY InvExcludes DEF LeaseInv
<1> QED
  BY <1>1, LeaseAlways, PTL
=============================================================================
