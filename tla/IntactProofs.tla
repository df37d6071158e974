---------------------------- MODULE IntactProofs ----------------------------
(***************************************************************************)
(* Proof that commits leave each other intact, for any number of           *)
(* processes, threads, sections and transactions, with crashes and failing *)
(* writes: as long as no lease starts away from the length of its entry,   *)
(* no section is filled to its last unit and the counters are unique.      *)
(***************************************************************************)
EXTENDS LeaseProofs

\* The flag goes up with the first entry that has two counters.
SoundUntilTainted == ~tainted => \A p \in Procs : Sound(p)

\* The lock that is asked for is that of the entry of the lease, and it is held
\* from the recheck to the release.
LockedAs(t) ==
    /\ pc[t] = "locking" => call[t].index = index[t] /\ call[t].mode = "write"
    /\ pc[t] \in {"recheck", "write", "release"} => <<index[t], "write">> \in holds[t]

LeaseLocked == \A t \in Threads : LockedAs(t)

\* What has been published lies in the log.
DoneInLog ==
    \A c \in done :
        /\ c.index \in Index /\ c.index < count
        /\ c.offset \in Nat /\ c.size \in Nat

\* A transaction is written from the length of its entry on, without gaps.
WritesOn(t) ==
    /\ left[t] <= size[t]
    /\ offset[t] + left[t] = len[index[t]] + size[t]
    /\ \A o \in Units :
        len[index[t]] <= o /\ o < offset[t] => data[index[t]][o] = Txn(t)

WritesFromLength ==
    ~tainted => \A t \in Threads : pc[t] = "write" => WritesOn(t)

IntactInv ==
    /\ SoundUntilTainted
    /\ LeaseLocked
    /\ ~tainted => DoneInLog
    /\ WritesFromLength
    /\ IntactUnlessTainted
-----------------------------------------------------------------------------
\* The flag is never lowered.
LEMMA TaintStays == ASSUME [Next]_vars, tainted PROVE tainted'
<1>1. ASSUME NEW t \in Threads, Lock(t) \/ Recheck(t) \/ Update(t) PROVE tainted'
  BY <1>1 DEF Lock, Recheck, Update
<1>2. tainted' = tainted \/ \E t \in Threads : Lock(t) \/ Recheck(t) \/ Update(t)
  BY NextCases DEF Moves, Acquire, Seek, Scan, Append, AppendShort, Tell, LockCell, LockRecord,
       Write, Fail, FarKept, Release, UnlockFind, UnlockCell, Died, Die, vars,
       leaseVars, ghostVars
<1> QED
  BY <1>1, <1>2

\* While the flag is down, the counters of every process are unique or it has
\* one thread.
LEMMA StepSound == LeaseInv /\ SoundUntilTainted /\ [Next]_vars => SoundUntilTainted'
<1> SUFFICES ASSUME LeaseInv, SoundUntilTainted, [Next]_vars, ~tainted',
                    NEW p \in Procs
             PROVE  Sound(p)'
  BY DEF SoundUntilTainted
<1>1. \A q \in Procs : Sound(q)
  BY TaintStays DEF SoundUntilTainted
<1>2. CASE nodes' = nodes
  BY <1>1, <1>2 DEF Sound, NoOverlap, SingleThreaded
<1>3. ASSUME NEW t \in Threads, Lock(t) PROVE Sound(p)'
  BY <1>3 DEF Lock
<1>4. ASSUME NEW q \in Procs, Died(q) PROVE Sound(p)'
  <2>1. nodes' = [nodes EXCEPT ![q] = {}]
    BY <1>4 DEF Died, Die, LockCrash
  <2>2. nodes'[p] = {} \/ nodes'[p] = nodes[p]
    BY <2>1 DEF LeaseInv, LockInv, LockTypeOK
  <2> QED
    BY <1>1, <2>2 DEF Sound, NoOverlap, SingleThreaded
<1>5. \/ nodes' = nodes
      \/ \E t \in Threads : Lock(t)
      \/ \E q \in Procs : Died(q)
  BY NextCases DEF Moves, Acquire, Seek, Scan, Append, AppendShort, Tell, LockCell, LockRecord, Recheck,
       Write, Update, Fail, FarKept, Release, UnlockFind, UnlockCell, vars, lockVars,
       TakeCell, TakeRecord, FindHeld, DropCell, Unlock
<1> QED
  BY <1>2, <1>3, <1>4, <1>5

\* A step of another thread leaves a thread where it is, with what it has.
LEMMA OthersStay ==
  ASSUME LeaseInv, NEW t \in Threads, NEW u \in Threads, t # u,
         Moves(t)
  PROVE  /\ pc'[u] = pc[u] /\ index'[u] = index[u] /\ offset'[u] = offset[u]
         /\ left'[u] = left[u] /\ size'[u] = size[u] /\ todo'[u] = todo[u]
         /\ call'[u] = call[u] /\ holds'[u] = holds[u]
<1>1. FrameType /\ LockTypeOK
  BY DEF LeaseInv, LeaseTypeOK, FrameType, LockInv
<1>2. /\ pc'[u] = pc[u] /\ index'[u] = index[u] /\ offset'[u] = offset[u]
      /\ left'[u] = left[u] /\ size'[u] = size[u] /\ todo'[u] = todo[u]
  BY <1>1 DEF Moves, Goto, Acquire, Seek, Scan, Append, AppendShort, Tell, Lock, LockCell, LockRecord,
         Recheck, Write, Update, Fail, FarKept, Release, UnlockFind, UnlockCell, leaseVars,
         frameVars, FrameType
<1>3. call'[u] = call[u]
  BY <1>1 DEF Moves, Acquire, Seek, Scan, Append, AppendShort, Tell, Lock, LockCell, LockRecord,
         Recheck, Write, Update, Fail, FarKept, Release, UnlockFind, UnlockCell, lockVars,
         LockTypeOK, Find, TakeCell, TakeRecord, Unlock, FindHeld, DropCell
<1>4. holds'[u] = holds[u]
  BY <1>1 DEF Moves, Acquire, Seek, Scan, Append, AppendShort, Tell, Lock, LockCell, LockRecord,
         Recheck, Write, Update, Fail, FarKept, Release, UnlockFind, UnlockCell, lockVars,
         LockTypeOK, Find, TakeCell, TakeRecord, Unlock, FindHeld, DropCell
<1> QED
  BY <1>2, <1>3, <1>4

\* Every step leaves a lease with the lock of its entry.
LEMMA StepLocked == LeaseInv /\ LeaseLocked /\ [Next]_vars => LeaseLocked'
<1> SUFFICES ASSUME LeaseInv, LeaseLocked, [Next]_vars, NEW u \in Threads
             PROVE  LockedAs(u)'
  BY DEF LeaseLocked
<1> USE LockAssumption, LeaseAssumption DEF LockAssumption, LeaseAssumption, Far
<1>1. FrameType /\ LockTypeOK /\ WalkInLog
  BY DEF LeaseInv, LeaseTypeOK, FrameType, LockInv
<1>2. LockedAs(u)
  BY DEF LeaseLocked
<1>3. CASE /\ pc'[u] = pc[u] /\ index'[u] = index[u]
           /\ call'[u] = call[u] /\ holds'[u] = holds[u]
  BY <1>2, <1>3 DEF LockedAs
<1>4. CASE pc'[u] \notin {"locking", "recheck", "write", "release"}
  BY <1>4 DEF LockedAs
<1>5. ASSUME NEW t \in Threads, t # u, Moves(t)
      PROVE  LockedAs(u)'
  BY <1>3, <1>5, OthersStay
<1>6. ASSUME NEW p \in Procs, Died(p) PROVE LockedAs(u)'
  <2>1. CASE ProcOf[u] = p
    <3>1. pc'[u] = "idle"
      BY <1>6, <2>1 DEF Died, Die
    <3> QED
      BY <1>4, <3>1
  <2>2. CASE ProcOf[u] # p
    BY <1>3, <1>6, <2>2 DEF Died, Die, LockCrash, frameVars
  <2> QED
    BY <2>1, <2>2
<1>7. ASSUME Lock(u) PROVE LockedAs(u)'
  <2>1. index[u] \in Index
    BY <1>1, <1>7 DEF Lock, WalkInLog, WalkOf, AtEntry, FrameType
  <2>2. Find(u, index[u], "write") /\ pc'[u] = "locking" /\ index' = index
    BY <1>1, <1>7 DEF Lock, Goto, frameVars, FrameType
  <2>3. PICK s \in Index : call' = [call EXCEPT ![u] = Call("cell", index[u], "write", s)]
    BY <1>1, <2>1, <2>2, FindCovers
  <2>4. call'[u] = Call("cell", index[u], "write", s)
    BY <1>1, <2>3 DEF LockTypeOK
  <2>5. call'[u].index = index[u] /\ call'[u].mode = "write"
    BY <2>4 DEF Call
  <2> QED
    BY <2>2, <2>5 DEF LockedAs
<1>8. ASSUME LockCell(u) PROVE LockedAs(u)'
  <2>1. pc[u] = "locking" /\ index' = index /\ TakeCell(u)
    BY <1>8 DEF LockCell, frameVars
  <2>2. CASE call' = [call EXCEPT ![u] = Idle]
    <3>1. call'[u].at = "none"
      BY <1>1, <2>2 DEF LockTypeOK, Idle
    <3>2. pc'[u] = "seek"
      BY <1>1, <1>8, <3>1 DEF LockCell, Goto, FrameType
    <3> QED
      BY <1>4, <3>2
  <2>3. CASE call' = [call EXCEPT ![u].at = "fcntl"]
    <3>1. call[u] \in Calls
      BY <1>1 DEF LockTypeOK
    <3>2. call'[u] = [call[u] EXCEPT !.at = "fcntl"]
      BY <1>1, <2>3 DEF LockTypeOK
    <3>3. call'[u].index = call[u].index /\ call'[u].mode = call[u].mode
          /\ call'[u].at = "fcntl"
      BY <3>1, <3>2 DEF Calls
    <3>4. pc'[u] = "locking"
      BY <1>1, <1>8, <3>3 DEF LockCell, Goto, FrameType
    <3> QED
      BY <1>2, <2>1, <3>3, <3>4 DEF LockedAs
  <2> QED
    BY <2>1, <2>2, <2>3 DEF TakeCell
<1>9. ASSUME LockRecord(u) PROVE LockedAs(u)'
  <2>1. /\ pc[u] = "locking" /\ index' = index /\ TakeRecord(u)
        /\ call[u].index = index[u] /\ call[u].mode = "write"
    BY <1>2, <1>9 DEF LockRecord, frameVars, LockedAs
  <2>2. CASE call' = [call EXCEPT ![u] = Idle] /\
             holds' = [holds EXCEPT ![u] = @ \cup {<<call[u].index, call[u].mode>>}]
    <3>1. call'[u].at = "none"
      BY <1>1, <2>2 DEF LockTypeOK, Idle
    <3>2. pc'[u] = "recheck"
      BY <1>1, <1>9, <3>1 DEF LockRecord, Goto, FrameType
    <3>3. <<index[u], "write">> \in holds'[u]
      BY <1>1, <2>1, <2>2 DEF LockTypeOK
    <3> QED
      BY <2>1, <3>2, <3>3 DEF LockedAs
  <2>3. CASE call' = [call EXCEPT ![u] = Call("unfind", call[u].index, call[u].mode, 0)]
    <3>1. call'[u] = Call("unfind", call[u].index, call[u].mode, 0)
      BY <1>1, <2>3 DEF LockTypeOK
    <3>2. call'[u].at = "unfind" /\ call'[u].index = call[u].index
          /\ call'[u].mode = call[u].mode
      BY <3>1 DEF Call
    <3>3. pc'[u] = "locking"
      BY <1>1, <1>9, <3>2 DEF LockRecord, Goto, FrameType
    <3> QED
      BY <2>1, <3>2, <3>3 DEF LockedAs
  <2> QED
    BY <2>1, <2>2, <2>3 DEF TakeRecord
<1>10. ASSUME UnlockFind(u) PROVE LockedAs(u)'
  <2>1. /\ pc' = pc /\ index' = index /\ holds' = holds
        /\ pc[u] \in {"locking", "unlocking"} /\ FindHeld(u)
    BY <1>10 DEF UnlockFind, leaseVars, frameVars, FindHeld
  <2>2. PICK s : call' = [call EXCEPT ![u] = Call("uncell", call[u].index, call[u].mode, s)]
    BY <2>1 DEF FindHeld
  <2>3. call'[u] = Call("uncell", call[u].index, call[u].mode, s)
    BY <1>1, <2>2 DEF LockTypeOK
  <2>4. call'[u].index = call[u].index /\ call'[u].mode = call[u].mode
    BY <2>3 DEF Call
  <2> QED
    BY <1>2, <2>1, <2>4 DEF LockedAs
<1>11. ASSUME \/ Seek(u) \/ Scan(u) \/ Append(u) \/ AppendShort(u) \/ Tell(u)
              \/ FarKept(u) \/ Release(u) \/ UnlockCell(u)
              \/ \E n \in Sizes : Acquire(u, n)
       PROVE  LockedAs(u)'
  <2>1. pc'[u] \notin {"locking", "recheck", "write", "release"}
    BY <1>1, <1>11 DEF Seek, Scan, Append, AppendShort, Tell, FarKept, Release, UnlockCell,
       Acquire, Goto, FrameType
  <2> QED
    BY <1>4, <2>1
<1>12. ASSUME Recheck(u) \/ Write(u) \/ Update(u) \/ Fail(u) PROVE LockedAs(u)'
  <2>1. /\ pc[u] \in {"recheck", "write"} /\ index' = index /\ holds' = holds
        /\ pc'[u] # "locking"
    BY <1>1, <1>12 DEF Recheck, Write, Update, Fail, FarKept, lockVars, frameVars, Goto, FrameType
  <2> QED
    BY <1>2, <2>1 DEF LockedAs
<1>13. CASE UNCHANGED vars
  BY <1>3, <1>13 DEF vars, lockVars, leaseVars, frameVars
<1> QED
  BY <1>5, <1>6, <1>7, <1>8, <1>9, <1>10, <1>11, <1>12, <1>13, NextCases DEF Moves

\* While the flag is down, no two threads write on one entry.
LEMMA WritersApart ==
  ASSUME LeaseInv, SoundUntilTainted, LeaseLocked, ~tainted,
         NEW t \in Threads, NEW u \in Threads, t # u,
         pc[t] = "write", pc[u] = "write"
  PROVE  index[t] # index[u]
<1>1. WriterExclusion
  BY InvExcludes DEF LeaseInv
<1>2. <<index[t], "write">> \in holds[t] /\ <<index[u], "write">> \in holds[u]
  BY DEF LeaseLocked, LockedAs
<1>3. Sound(ProcOf[t]) /\ Sound(ProcOf[u])
  BY LockAssumption DEF SoundUntilTainted, LockAssumption
<1>4. index[t] \in Index
  BY LeaseAssumption DEF LeaseAssumption, LeaseInv, LeaseTypeOK, WalkInLog, WalkOf, AtEntry
<1> QED
  BY <1>1, <1>2, <1>3, <1>4 DEF WriterExclusion

\* A published transaction is whole, and covered by the length of its entry.
IntactAt(c) ==
    /\ c.offset + c.size <= len[c.index]
    /\ \A o \in c.offset..(c.offset + c.size - 1) : data[c.index][o] = c.txn

\* The part of the invariant about the data, once the flag is down.
Whole ==
    /\ DoneInLog
    /\ \A t \in Threads : pc[t] = "write" => WritesOn(t)
    /\ \A c \in done : IntactAt(c)

\* A step that leaves the lengths and the data of everything in use alone, and
\* lets no thread start to write, leaves it whole.
LEMMA WholeKept ==
  ASSUME LeaseInv, Whole, done' = done, data' = data, count' \in Nat, count <= count',
         \A i \in Index : i < count => len'[i] = len[i],
         \A t \in Threads : pc'[t] = "write" =>
            /\ pc[t] = "write" /\ index'[t] = index[t] /\ offset'[t] = offset[t]
            /\ left'[t] = left[t] /\ size'[t] = size[t] /\ todo'[t] = todo[t]
  PROVE  Whole'
<1> USE LeaseAssumption DEF LeaseAssumption, Far
<1>1. DoneInLog'
  BY DEF Whole, DoneInLog, LeaseInv, LeaseTypeOK
<1>2. ASSUME NEW c \in done PROVE IntactAt(c)'
  <2>1. len'[c.index] = len[c.index]
    BY DEF Whole, DoneInLog
  <2> QED
    BY <2>1 DEF Whole, IntactAt
<1>3. ASSUME NEW t \in Threads, pc'[t] = "write" PROVE WritesOn(t)'
  <2>1. WritesOn(t) /\ index[t] \in Index /\ index[t] < count
    BY <1>3 DEF Whole, LeaseInv, LeaseTypeOK, WalkInLog, WalkOf, AtEntry
  <2>2. len'[index'[t]] = len[index[t]]
    BY <1>3, <2>1
  <2> QED
    BY <1>3, <2>1, <2>2 DEF WritesOn, Txn
<1> QED
  BY <1>1, <1>2, <1>3 DEF Whole

\* Writing on a lease touches neither what has been published nor what another
\* thread writes.
LEMMA WriteWhole ==
  ASSUME LeaseInv, SoundUntilTainted, LeaseLocked, ~tainted, Whole,
         NEW t \in Threads, Write(t)
  PROVE  Whole'
<1> USE LeaseAssumption DEF LeaseAssumption, Far
<1>1. FrameType /\ LeaseTypeOK
  BY DEF LeaseInv, LeaseTypeOK, FrameType
<1>2. /\ pc[t] = "write" /\ left[t] > 0 /\ WritesOn(t)
      /\ data' = [data EXCEPT ![index[t]][offset[t]] = Txn(t)]
      /\ UNCHANGED <<count, len, pc, size, index, todo, done>>
    BY DEF Write, Whole, ghostVars
<1>3. /\ offset'[t] = offset[t] + 1 /\ left'[t] = left[t] - 1
      /\ \A u \in Threads \ {t} : offset'[u] = offset[u] /\ left'[u] = left[u]
  BY <1>1 DEF Write, FrameType
<1>4. /\ index[t] \in Index /\ index[t] < count /\ offset[t] \in Units
      /\ len[index[t]] \in Nat /\ left[t] \in Nat /\ size[t] \in Nat
  BY <1>1, <1>2 DEF FrameType, LeaseInv, WalkInLog, WalkOf, AtEntry, RoomAhead, Units
<1>5. len[index[t]] <= offset[t] /\ offset[t] \in Nat
  <2>1. left[t] <= size[t] /\ offset[t] + left[t] = len[index[t]] + size[t]
    BY <1>2 DEF WritesOn
  <2>2. offset[t] \in Nat
    BY <1>4 DEF Units
  <2> QED
    BY <1>4, <2>1, <2>2
<1>6. ASSUME NEW i \in Index, NEW o \in Units
      PROVE  data'[i][o] = IF i = index[t] /\ o = offset[t] THEN Txn(t) ELSE data[i][o]
  BY <1>1, <1>2, <1>4 DEF FrameType
<1>7. DoneInLog'
  BY <1>2 DEF Whole, DoneInLog
<1>8. ASSUME NEW c \in done PROVE IntactAt(c)'
  <2>1. /\ c.index \in Index /\ c.offset \in Nat /\ c.size \in Nat
        /\ c.offset + c.size <= len[c.index] /\ len[c.index] \in Units
    BY <1>1 DEF Whole, DoneInLog, IntactAt, FrameType
  <2>2. ASSUME NEW o \in c.offset..(c.offset + c.size - 1)
        PROVE  data'[c.index][o] = c.txn
    <3>1. o \in Units /\ o < len[c.index]
      BY <2>1 DEF Units
    <3>2. ~(c.index = index[t] /\ o = offset[t])
      BY <1>4, <1>5, <3>1 DEF Units
    <3> QED
      BY <1>6, <2>1, <3>1, <3>2 DEF Whole, IntactAt
  <2> QED
    BY <1>2, <2>1, <2>2 DEF IntactAt
<1>9. ASSUME NEW u \in Threads, pc'[u] = "write" PROVE WritesOn(u)'
  <2>1. pc[u] = "write" /\ WritesOn(u) /\ index[u] \in Index /\ Txn(u)' = Txn(u)
    BY <1>1, <1>2, <1>9 DEF Whole, Txn, FrameType, LeaseInv, WalkInLog, WalkOf, AtEntry
  <2>2. CASE u = t
    <3>1. /\ left'[t] <= size'[t]
          /\ offset'[t] + left'[t] = len'[index'[t]] + size'[t]
      <4>1. left[t] <= size[t] /\ offset[t] + left[t] = len[index[t]] + size[t]
        BY <1>2 DEF WritesOn
      <4>2. left[t] - 1 <= size[t] /\ offset[t] + 1 + (left[t] - 1) = len[index[t]] + size[t]
        BY <1>4, <1>5, <4>1
      <4> QED
        BY <1>2, <1>3, <4>2
    <3>2. ASSUME NEW o \in Units, len[index[t]] <= o, o < offset[t] + 1
          PROVE  data'[index[t]][o] = Txn(t)
      <4>1. CASE o = offset[t]
        BY <1>4, <1>6, <4>1
      <4>2. CASE o < offset[t]
        BY <1>2, <1>4, <1>6, <3>2, <4>2 DEF WritesOn
      <4> QED
        BY <1>4, <3>2, <4>1, <4>2 DEF Units
    <3> QED
      BY <1>2, <1>3, <2>1, <2>2, <3>1, <3>2 DEF WritesOn
  <2>3. CASE u # t
    <3>1. index[u] # index[t]
      BY <1>2, <2>1, <2>3, WritersApart
    <3>2. ASSUME NEW o \in Units PROVE data'[index[u]][o] = data[index[u]][o]
      BY <1>6, <2>1, <3>1
    <3> QED
      BY <1>2, <1>3, <2>1, <2>3, <3>2 DEF WritesOn
  <2> QED
    BY <2>2, <2>3
<1> QED
  BY <1>2, <1>7, <1>8, <1>9 DEF Whole

\* Below the last unit of the section the length is the offset itself.
LEMMA EntryLenSame ==
  ASSUME NEW o \in Units, NEW n
  PROVE  EntryLen(o, n) = o
<1>1. Section \in Nat \ {0}
  BY LeaseAssumption DEF LeaseAssumption
<1> QED
  BY <1>1 DEF EntryLen, Units

\* The update of the entry publishes what was written, and covers it.
LEMMA UpdateWhole ==
  ASSUME LeaseInv, SoundUntilTainted, LeaseLocked, ~tainted, Whole,
         NEW t \in Threads, Update(t), offset[t] # Section
  PROVE  Whole'
<1> USE LeaseAssumption DEF LeaseAssumption, Far
<1> DEFINE i == index[t]
           n == size[t]
           new == Commit(Txn(t), i, offset[t] - n, n)
<1>1. FrameType
  BY DEF LeaseInv, LeaseTypeOK, FrameType
<1>2. /\ pc[t] = "write" /\ left[t] = 0 /\ WritesOn(t)
      /\ len' = [len EXCEPT ![i] = EntryLen(offset[t], n)]
      /\ done' = done \cup {new}
      /\ UNCHANGED <<count, data, size, index, offset, left, todo>>
    BY DEF Update, Whole, frameVars
<1>3. /\ i \in Index /\ i < count /\ offset[t] \in Units
      /\ len[i] \in Nat /\ n \in Nat
  BY <1>1, <1>2 DEF FrameType, LeaseInv, WalkInLog, WalkOf, AtEntry, Units
<1>4. offset[t] = len[i] + n
  <2>1. offset[t] + left[t] = len[i] + n
    BY <1>2 DEF WritesOn
  <2>2. offset[t] \in Nat
    BY <1>3 DEF Units
  <2> QED
    BY <1>2, <1>3, <2>1, <2>2
<1>5. EntryLen(offset[t], n) = offset[t]
  BY <1>3, EntryLenSame
<1>6. len'[i] = len[i] + n /\ \A j \in Index \ {i} : len'[j] = len[j]
  <2>1. len' = [len EXCEPT ![i] = offset[t]] /\ len \in [Index -> Units]
    BY <1>1, <1>2, <1>5 DEF FrameType
  <2> QED
    BY <1>3, <1>4, <2>1
<1>7. /\ new.txn = Txn(t) /\ new.index = i /\ new.offset = len[i] /\ new.size = n
  <2>1. offset[t] - n = len[i]
    BY <1>3, <1>4
  <2> QED
    BY <2>1 DEF Commit
<1>8. ASSUME NEW c, c = new PROVE IntactAt(c)'
  <2>0. c.txn = Txn(t) /\ c.index = i /\ c.offset = len[i] /\ c.size = n
    BY <1>7, <1>8
  <2>1. c.offset + c.size <= len'[c.index]
    BY <1>3, <1>6, <2>0
  <2>2. ASSUME NEW o \in c.offset..(c.offset + c.size - 1)
        PROVE  data'[c.index][o] = c.txn
    <3>1. o \in len[i]..(len[i] + n - 1) /\ offset[t] \in 0..(Section - 1)
      BY <1>3, <2>0 DEF Units
    <3>2. o \in Units /\ len[i] <= o /\ o < offset[t]
      BY <1>3, <1>4, <3>1 DEF Units
    <3> QED
      BY <1>2, <2>0, <3>2 DEF WritesOn
  <2> QED
    BY <2>1, <2>2 DEF IntactAt
<1>9. ASSUME NEW c \in done PROVE IntactAt(c)'
  <2>1. /\ c.index \in Index /\ c.offset \in Nat /\ c.size \in Nat
        /\ c.offset + c.size <= len[c.index] /\ len[c.index] \in Nat
    BY <1>1 DEF Whole, DoneInLog, IntactAt, FrameType, Units
  <2>2. len[c.index] <= len'[c.index] /\ len'[c.index] \in Nat
    <3>1. len'[c.index] = len[c.index] \/ (c.index = i /\ len'[c.index] = len[i] + n)
      BY <1>6, <2>1
    <3> QED
      BY <1>3, <2>1, <3>1
  <2>3. c.offset + c.size <= len'[c.index]
    BY <2>1, <2>2
  <2> QED
    BY <1>2, <2>3 DEF Whole, IntactAt
<1>10. DoneInLog'
  <2>1. \A c \in done : /\ c.index \in Index /\ c.index < count
                        /\ c.offset \in Nat /\ c.size \in Nat
    BY DEF Whole, DoneInLog
  <2> HIDE DEF new
  <2> QED
    BY <1>2, <1>3, <1>7, <2>1 DEF DoneInLog
<1>11. ASSUME NEW u \in Threads, pc'[u] = "write" PROVE WritesOn(u)'
  <2>1. u # t /\ pc[u] = "write"
    BY <1>1, <1>11 DEF Update, Goto, FrameType
  <2>2. WritesOn(u) /\ index[u] # i /\ index[u] \in Index
    BY <1>1, <1>2, <2>1, WritersApart DEF Whole, FrameType, LeaseInv, WalkInLog, WalkOf, AtEntry
  <2>3. len'[index[u]] = len[index[u]]
    BY <1>6, <2>2
  <2> QED
    BY <1>2, <2>2, <2>3 DEF WritesOn, Txn
<1>12. \A c \in done' : IntactAt(c)'
  BY <1>2, <1>8, <1>9
<1> QED
  BY <1>10, <1>11, <1>12 DEF Whole

\* A lease that starts at the length of its entry has written nothing yet.
LEMMA RecheckWhole ==
  ASSUME LeaseInv, Whole, NEW t \in Threads, Recheck(t),
         pc'[t] = "write" => offset[t] = len[index[t]]
  PROVE  Whole'
<1> USE LeaseAssumption DEF LeaseAssumption, Far
<1>1. FrameType
  BY DEF LeaseInv, LeaseTypeOK, FrameType
<1>2. UNCHANGED <<count, len, data, size, index, offset, todo, done>>
  BY DEF Recheck, fileVars
<1>3. \A u \in Threads \ {t} : pc'[u] = pc[u] /\ left'[u] = left[u]
  BY <1>1 DEF Recheck, Goto, FrameType
<1>4. ASSUME pc'[t] = "write" PROVE WritesOn(t)'
  <2>1. left'[t] = size[t]
    BY <1>1, <1>4 DEF Recheck, Goto, FrameType
  <2>2. offset[t] \in Nat /\ size[t] \in Nat
    BY <1>1 DEF FrameType
  <2>3. offset[t] = len[index[t]]
    BY <1>4
  <2>4. \A o \in Units : ~(len[index[t]] <= o /\ o < offset[t])
    BY <2>2, <2>3 DEF Units
  <2> QED
    BY <1>2, <2>1, <2>2, <2>3, <2>4 DEF WritesOn
<1>5. ASSUME NEW u \in Threads \ {t}, pc'[u] = "write" PROVE WritesOn(u)'
  BY <1>2, <1>3, <1>5 DEF Whole, WritesOn, Txn
<1>6. DoneInLog' /\ \A c \in done : IntactAt(c)'
  BY <1>2 DEF Whole, DoneInLog, IntactAt
<1> QED
  BY <1>2, <1>4, <1>5, <1>6 DEF Whole

\* A new entry is none that is in use.
LEMMA AppendWhole ==
  ASSUME LeaseInv, Whole, NEW t \in Threads, Append(t) \/ AppendShort(t)
  PROVE  Whole'
<1>1. FrameType
  BY DEF LeaseInv, LeaseTypeOK, FrameType
<1>2. done' = done /\ data' = data
  BY DEF Append, AppendShort, Grow, ghostVars
<1>3. \A u \in Threads : pc'[u] = "write" =>
            /\ pc[u] = "write" /\ index'[u] = index[u] /\ offset'[u] = offset[u]
            /\ left'[u] = left[u] /\ size'[u] = size[u] /\ todo'[u] = todo[u]
  BY <1>1 DEF Append, AppendShort, Grow, frameVars, Goto, FrameType
<1>4. count \in Nat /\ (count' = count \/ count' = count + 1)
  BY <1>1, LeaseAssumption DEF Append, AppendShort, Grow, FrameType, LeaseAssumption
<1>5. \A i \in Index : i < count => len'[i] = len[i]
  <2>1. len' = len \/ len' = [len EXCEPT ![count] = 0]
    BY DEF Append, AppendShort, Grow
  <2> QED
    BY <1>1, <1>4, <2>1 DEF FrameType
<1> QED
  BY <1>2, <1>3, <1>4, <1>5, WholeKept

\* Every step leaves everything whole as long as the flag stays down.
LEMMA StepWhole ==
  ASSUME LeaseInv, SoundUntilTainted, LeaseLocked, Whole, [Next]_vars, ~tainted'
  PROVE  Whole'
<1>1. ~tainted
  BY TaintStays
<1>2. FrameType /\ count \in Nat
  BY LeaseAssumption DEF LeaseInv, LeaseTypeOK, FrameType, LeaseAssumption
<1>3. ASSUME UNCHANGED <<count, len, data, done>>,
             \A u \in Threads : pc'[u] = "write" =>
               /\ pc[u] = "write" /\ index'[u] = index[u] /\ offset'[u] = offset[u]
               /\ left'[u] = left[u] /\ size'[u] = size[u] /\ todo'[u] = todo[u]
      PROVE  Whole'
  BY <1>2, <1>3, WholeKept
<1>4. ASSUME NEW t \in Threads, Append(t) \/ AppendShort(t) PROVE Whole'
  BY <1>4, AppendWhole
<1>5. ASSUME NEW t \in Threads, Write(t) PROVE Whole'
  BY <1>1, <1>5, WriteWhole
<1>6. ASSUME NEW t \in Threads, Update(t) PROVE Whole'
  <2>1. offset[t] # Section
    BY <1>6 DEF Update
  <2> QED
    BY <1>1, <1>6, <2>1, UpdateWhole
<1>7. ASSUME NEW t \in Threads, Recheck(t) PROVE Whole'
  <2>1. pc'[t] = "write" => offset[t] = len[index[t]]
    <3>1. CASE tainted' = (tainted \/ offset[t] # len[index[t]])
      BY <3>1
    <3>2. CASE Goto(t, "seek")
      BY <1>2, <3>2 DEF Goto, FrameType
    <3> QED
      BY <1>7, <3>1, <3>2 DEF Recheck
  <2> QED
    BY <1>7, <2>1, RecheckWhole
<1>8. ASSUME NEW t \in Threads,
             \/ Seek(t) \/ Scan(t) \/ Tell(t) \/ Lock(t) \/ LockCell(t) \/ LockRecord(t)
             \/ Fail(t) \/ FarKept(t) \/ Release(t) \/ UnlockFind(t) \/ UnlockCell(t)
             \/ \E n \in Sizes : Acquire(t, n)
      PROVE  Whole'
  <2>1. UNCHANGED <<count, len, data, done>>
    BY <1>8 DEF Seek, Scan, Tell, Lock, LockCell, LockRecord, Fail, FarKept, Release, UnlockFind,
       UnlockCell, Acquire, fileVars, ghostVars, leaseVars
  <2>2. ASSUME NEW u \in Threads, pc'[u] = "write"
        PROVE  /\ pc[u] = "write" /\ index'[u] = index[u] /\ offset'[u] = offset[u]
               /\ left'[u] = left[u] /\ size'[u] = size[u] /\ todo'[u] = todo[u]
    <3>1. CASE u # t
      BY <1>8, <2>2, <3>1, OthersStay DEF Moves
    <3>2. CASE u = t
      BY <1>2, <1>8, <2>2, <3>2 DEF Seek, Scan, Tell, Lock, LockCell, LockRecord, Fail, FarKept,
         Release, UnlockFind, UnlockCell, Acquire, Goto, FrameType, leaseVars
    <3> QED
      BY <3>1, <3>2
  <2> QED
    BY <1>3, <2>1, <2>2
<1>9. ASSUME NEW p \in Procs, Died(p) PROVE Whole'
  <2>1. UNCHANGED <<count, len, data, done>>
    BY <1>9 DEF Died, Die, ghostVars
  <2>2. ASSUME NEW u \in Threads, pc'[u] = "write"
        PROVE  /\ pc[u] = "write" /\ index'[u] = index[u] /\ offset'[u] = offset[u]
               /\ left'[u] = left[u] /\ size'[u] = size[u] /\ todo'[u] = todo[u]
    BY <1>9, <2>2 DEF Died, Die, frameVars
  <2> QED
    BY <1>3, <2>1, <2>2
<1>10. CASE UNCHANGED vars
  BY <1>3, <1>10 DEF vars, leaseVars, fileVars, frameVars, ghostVars
<1> QED
  BY <1>4, <1>5, <1>6, <1>7, <1>8, <1>9, <1>10, NextCases DEF Moves

\* The units that were there when the log was opened are intact.
LEMMA InitWhole == Init => IntactInv /\ Whole
<1> SUFFICES ASSUME Init PROVE IntactInv /\ Whole
  OBVIOUS
<1> USE LeaseAssumption DEF LeaseAssumption, Far
<1>1. SoundUntilTainted
  BY DEF Init, LockInit, SoundUntilTainted, Sound, NoOverlap
<1>2. LeaseLocked /\ \A t \in Threads : pc[t] = "idle"
  BY DEF Init, LeaseLocked, LockedAs
<1>3. ASSUME NEW c \in done
      PROVE  /\ c.index \in Index /\ c.index < count /\ c.offset \in Nat /\ c.size \in Nat
             /\ IntactAt(c)
  <2>1. PICK i \in 0..(InitCount - 1) : c = Commit(Old, i, 0, InitLen[i])
    BY DEF Init
  <2>2. c.txn = Old /\ c.index = i /\ c.offset = 0 /\ c.size = InitLen[i]
    BY <2>1 DEF Commit
  <2>3. i \in Index /\ i < InitCount /\ InitLen[i] \in 0..(Section - 1)
    OBVIOUS
  <2>4. len[i] = InitLen[i] /\ count = InitCount
    BY <2>3 DEF Init
  <2>5. ASSUME NEW o \in 0..(InitLen[i] - 1) PROVE data[i][o] = Old
    <3>1. o \in Units /\ o < InitLen[i]
      BY <2>3 DEF Units
    <3> QED
      BY <2>3, <3>1 DEF Init
  <2>6. 0 + InitLen[i] = InitLen[i] /\ InitLen[i] <= InitLen[i]
    BY <2>3
  <2> QED
    BY <2>2, <2>3, <2>4, <2>5, <2>6 DEF IntactAt
<1>4. Whole
  BY <1>2, <1>3 DEF Whole, DoneInLog
<1> QED
  BY <1>1, <1>2, <1>4
     DEF IntactInv, Whole, WritesFromLength, IntactUnlessTainted, Intact, LengthCovers,
         IntactAt

\* IntactInv is inductive, next to LeaseInv.
LEMMA IntactStepInv == LeaseInv /\ IntactInv /\ [Next]_vars => IntactInv'
<1> SUFFICES ASSUME LeaseInv, IntactInv, [Next]_vars PROVE IntactInv'
  OBVIOUS
<1>1. SoundUntilTainted' /\ LeaseLocked'
  BY StepSound, StepLocked DEF IntactInv
<1>2. ASSUME ~tainted' PROVE Whole'
  <2>1. Whole
    BY <1>2, TaintStays
       DEF IntactInv, Whole, WritesFromLength, IntactUnlessTainted, Intact, LengthCovers,
           IntactAt
  <2> QED
    BY <1>2, <2>1, StepWhole DEF IntactInv
<1> QED
  BY <1>1, <1>2
     DEF IntactInv, Whole, WritesFromLength, IntactUnlessTainted, Intact, LengthCovers,
         IntactAt

\* Concurrent commits of any number of threads and processes, with crashes and
\* failed writes, leave every published transaction whole and covered by the
\* length of its entry, as long as every lease of logdb_lease_acquire_write
\* starts at the length of its entry, no section is filled to its last byte
\* and no multithreaded process has two counters for one entry.
THEOREM CommitsStayIntact == Spec => []IntactUnlessTainted
<1>1. Init => LeaseInv /\ IntactInv
  BY LeaseInitInv, InitWhole
<1>2. LeaseInv /\ IntactInv /\ [Next]_vars => (LeaseInv /\ IntactInv)'
  BY LeaseStepInv, IntactStepInv
<1>3. IntactInv => IntactUnlessTainted
  BY DEF IntactInv
<1> QED
  BY <1>1, <1>2, <1>3, PTL DEF Spec
=============================================================================
