-------------------------- MODULE DurabilityProofs --------------------------
(***************************************************************************)
(* Proofs about Durability, for any set of transactions and any number of  *)
(* log files, crashes and power failures, with failing writes and with     *)
(* whatever the system chooses to write back.                              *)
(***************************************************************************)
EXTENDS Durability, TLAPS

\* Log files that were not made yet have no name and no header, neither in the
\* cache nor on the disk.
UnmadeBlank ==
    /\ cache.name <= made
    /\ disk.name <= made
    /\ \A f \in LogFiles : f > made => ~cache.logs[f].valid /\ ~disk.logs[f].valid

\* Commits are under way only while the database is open, their data is in the
\* cache, and the ones that skip the fsync are remembered.
CommitsInOpen ==
    \A k \in Txns : at[k] \in InCommit =>
        /\ pc = "open"
        /\ k \in cache.data
        /\ nosync => k \in lax

\* Bytes that are no log name nothing.
GarbageBlank ==
    /\ ~cache.tail.valid => cache.tail.txns = {}
    /\ ~disk.tail.valid => disk.tail.txns = {}

\* What was read for the opening of the database has what the log at its end
\* has, what was read for closing it still is what the log has, and what the
\* merge appended is what it read.
FoundCurrent ==
    /\ pc \in {"fill", "head"} => cache.tail.txns \subseteq found
    /\ pc \in {"truncate", "append", "unlink"} => found = cache.logs[cache.name].txns
    /\ pc = "unlink" => cache.tail.txns = found

\* Everything that any log names, in the cache, on the disk or in the memory of
\* a process, has its data on the disk, unless it was committed with NOSYNC or
\* a log made of garbage named it.
OnDisk(T) == T \ (lax \cup junk) \subseteq disk.data

NamedOnDisk ==
    /\ OnDisk(cache.tail.txns)
    /\ OnDisk(disk.tail.txns)
    /\ OnDisk(found)
    /\ \A f \in LogFiles : OnDisk(cache.logs[f].txns) /\ OnDisk(disk.logs[f].txns)
    /\ \A k \in Txns : at[k] \in {"synced", "published"} => OnDisk({k})

\* As long as the log file was not unlinked since its last fsync, cache and disk
\* have the same one at the log's path, and it is valid in both.
KeptInBoth ==
    kept # {} =>
        /\ LogOpens(cache)
        /\ LogOpens(disk)
        /\ cache.name = disk.name
        /\ kept \subseteq cache.logs[cache.name].txns
        /\ kept \subseteq disk.logs[disk.name].txns
        /\ kept \subseteq disk.data

DurabilityInv ==
    /\ DurabilityTypeOK
    /\ UnmadeBlank
    /\ GarbageBlank
    /\ CommitsInOpen
    /\ FoundCurrent
    /\ NamedOnDisk
    /\ KeptInBoth
-----------------------------------------------------------------------------
(***************************************************************************)
(* The copies of the files.                                                *)
(***************************************************************************)

Logs == [valid : BOOLEAN, txns : SUBSET Txns]

\* The parts of a copy have their types.
LEMMA CopyParts ==
  ASSUME NEW m \in Copies
  PROVE  /\ m.data \in SUBSET Txns
         /\ m.tail \in Logs
         /\ m.name \in LogFiles \cup {NoLog}
         /\ m.logs \in [LogFiles -> Logs]
         /\ m = [data |-> m.data, tail |-> m.tail, name |-> m.name, logs |-> m.logs]
  BY DEF Copies, Logs

\* A copy with other parts of the same types is a copy.
LEMMA CopyType ==
  ASSUME NEW d \in SUBSET Txns, NEW t \in Logs, NEW n \in LogFiles \cup {NoLog},
         NEW l \in [LogFiles -> Logs]
  PROVE  [data |-> d, tail |-> t, name |-> n, logs |-> l] \in Copies
  BY DEF Copies, Logs

\* A log with transactions has the type of a log.
LEMMA LogType ==
  ASSUME NEW v \in BOOLEAN, NEW T \in SUBSET Txns
  PROVE  /\ Log(v, T) \in Logs
         /\ Log(v, T).valid = v
         /\ Log(v, T).txns = T
         /\ Garbage \in Logs
         /\ Garbage.txns = {} /\ ~Garbage.valid
         /\ NoTail \in Logs /\ NoTail.txns = {} /\ NoTail.valid
  BY DEF Log, Logs, Garbage, NoTail

\* The invariant holds at the start.
LEMMA DurabilityInitInv == Init => DurabilityInv
<1> SUFFICES ASSUME Init PROVE DurabilityInv
  OBVIOUS
<1> USE DurabilityAssumption DEF DurabilityAssumption, Init
<1>1. Empty \in Copies
  BY CopyType, LogType DEF Empty, NoLog
<1>2. /\ Empty.name = NoLog /\ Empty.data = {} /\ Empty.tail.txns = {} /\ Empty.tail.valid
      /\ \A f \in LogFiles : Empty.logs[f].txns = {} /\ ~Empty.logs[f].valid
  BY LogType DEF Empty
<1>3. DurabilityTypeOK
  <2>1. nosync \in BOOLEAN
    BY DEF Init
  <2> QED
    BY <1>1, <1>2, <2>1 DEF DurabilityTypeOK, Places, Stages
<1>4. UnmadeBlank /\ GarbageBlank /\ CommitsInOpen /\ FoundCurrent /\ KeptInBoth
  BY <1>2 DEF UnmadeBlank, GarbageBlank, CommitsInOpen, FoundCurrent, KeptInBoth, NoLog, InCommit
<1>5. NamedOnDisk
  BY <1>2 DEF NamedOnDisk, OnDisk
<1> QED
  BY <1>3, <1>4, <1>5 DEF DurabilityInv
-----------------------------------------------------------------------------
(***************************************************************************)
(* Types.                                                                  *)
(***************************************************************************)

\* The cache after every step is a copy of the files.
LEMMA StepCache == DurabilityInv /\ [Next]_vars => cache' \in Copies
<1> SUFFICES ASSUME DurabilityInv, [Next]_vars PROVE cache' \in Copies
  OBVIOUS
<1> USE DurabilityAssumption DEF DurabilityAssumption
<1>0. /\ cache \in Copies /\ disk \in Copies /\ made \in 0..MaxLogs
      /\ found \subseteq Txns
  BY DEF DurabilityInv, DurabilityTypeOK
<1>1. CASE cache' = cache
  BY <1>0, <1>1
<1>2. CASE Discard \/ CreateFails \/ MergeUnlink
  <2>1. cache' = cache \/ cache' = [cache EXCEPT !.name = NoLog]
    BY <1>2 DEF Discard, CreateFails, MergeUnlink
  <2> QED
    BY <1>0, <2>1 DEF Copies
<1>3. CASE Create
  <2>1. made + 1 \in LogFiles /\ cache' = [cache EXCEPT !.name = made + 1]
    BY <1>0, <1>3 DEF Create, LogFiles
  <2> QED
    BY <1>0, <2>1 DEF Copies
<1>4. CASE Fill \/ Head
  <2>1. PICK l \in Logs : cache' = [cache EXCEPT !.logs[cache.name] = l]
    BY <1>0, <1>4, LogType DEF Fill, Head, Filled
  <2> QED
    BY <1>0, <2>1 DEF Copies, Logs
<1>5. ASSUME NEW k \in Txns, WriteData(k) PROVE cache' \in Copies
  <2>1. PICK t \in Logs : cache' = [cache EXCEPT !.data = @ \cup {k}, !.tail = t]
    BY <1>0, <1>5, LogType, CopyParts DEF WriteData
  <2> QED
    BY <1>0, <2>1 DEF Copies, Logs
<1>6. ASSUME NEW k \in Txns, Publish(k) PROVE cache' \in Copies
  BY <1>0, <1>6 DEF Publish, Copies
<1>7. CASE MergeTruncate \/ MergeAppend
  <2>1. PICK t \in Logs : cache' = [cache EXCEPT !.tail = t]
    BY <1>0, <1>7, LogType DEF MergeTruncate, MergeAppend
  <2> QED
    BY <1>0, <2>1 DEF Copies, Logs
<1>8. CASE PowerFailure
  BY <1>0, <1>8 DEF PowerFailure
<1> QED
  BY <1>1, <1>2, <1>3, <1>4, <1>5, <1>6, <1>7, <1>8 DEF Next, vars, Recover, SyncData,
     SyncLog, CommitFails, MergeRead, MergeFails, AfterFault, Writeback, Crash

\* So is the disk.
LEMMA StepDisk == DurabilityInv /\ [Next]_vars => disk' \in Copies
<1> SUFFICES ASSUME DurabilityInv, [Next]_vars PROVE disk' \in Copies
  OBVIOUS
<1>0. cache \in Copies /\ disk \in Copies
  BY DEF DurabilityInv, DurabilityTypeOK
<1>1. CASE disk' = disk
  BY <1>0, <1>1
<1>2. CASE disk' = DbSynced
  BY <1>0, <1>2 DEF DbSynced, Copies
<1>3. CASE disk' = LogSynced
  BY <1>0, <1>3 DEF LogSynced, Copies
<1>4. CASE Writeback
  <2>1. ASSUME NEW k \in cache.data, disk' = [disk EXCEPT !.data = @ \cup {k}]
        PROVE  disk' \in Copies
    BY <1>0, <2>1 DEF Copies
  <2>2. ASSUME NEW t \in {cache.tail, Garbage}, disk' = [disk EXCEPT !.tail = t]
        PROVE  disk' \in Copies
    <3>1. t \in Logs
      BY <1>0, LogType, CopyParts
    <3> QED
      BY <1>0, <2>2, <3>1 DEF Copies, Logs
  <2>3. CASE disk' = [disk EXCEPT !.name = cache.name]
    BY <1>0, <2>3 DEF Copies
  <2>4. ASSUME NEW f \in {cache.name, disk.name} \ {NoLog},
               \/ disk' = [disk EXCEPT !.logs[f].valid = cache.logs[f].valid]
               \/ \E k \in cache.logs[f].txns :
                    disk' = [disk EXCEPT !.logs[f].txns = @ \cup {k}]
        PROVE  disk' \in Copies
    <3>1. f \in LogFiles
      BY <1>0 DEF Copies
    <3>2. CASE disk' = [disk EXCEPT !.logs[f].valid = cache.logs[f].valid]
      BY <1>0, <3>1, <3>2 DEF Copies
    <3>3. ASSUME NEW k \in cache.logs[f].txns,
                 disk' = [disk EXCEPT !.logs[f].txns = @ \cup {k}]
          PROVE  disk' \in Copies
      BY <1>0, <3>1, <3>3 DEF Copies
    <3> QED
      BY <2>4, <3>2, <3>3
  <2> QED
    BY <1>4, <2>1, <2>2, <2>3, <2>4 DEF Writeback
<1> QED
  BY <1>1, <1>2, <1>3, <1>4 DEF Next, vars, Recover, Discard, Create, Fill, Head,
     CreateFails, WriteData, SyncData, Publish, SyncLog, CommitFails, MergeRead,
     MergeTruncate, MergeAppend, MergeFails, MergeUnlink, Crash, PowerFailure
\* Every step keeps the types of the other variables.
LEMMA StepScalars ==
  DurabilityInv /\ [Next]_vars =>
    /\ made' \in 0..MaxLogs
    /\ pc' \in Places
    /\ found' \subseteq Txns
    /\ at' \in [Txns -> Stages]
    /\ nosync' \in BOOLEAN
    /\ lax' \subseteq Txns
    /\ junk' \subseteq Txns
    /\ kept' \subseteq Txns
    /\ crashes' \in 0..MaxCrashes
<1> SUFFICES ASSUME DurabilityInv, [Next]_vars
             PROVE  /\ made' \in 0..MaxLogs
                    /\ pc' \in Places
                    /\ found' \subseteq Txns
                    /\ at' \in [Txns -> Stages]
                    /\ nosync' \in BOOLEAN
                    /\ lax' \subseteq Txns
                    /\ junk' \subseteq Txns
                    /\ kept' \subseteq Txns
                    /\ crashes' \in 0..MaxCrashes
  OBVIOUS
<1> USE DurabilityAssumption DEF DurabilityAssumption
<1>0. DurabilityTypeOK
  BY DEF DurabilityInv
<1>a. /\ cache.tail.txns \subseteq Txns
      /\ cache.name # NoLog => cache.logs[cache.name].txns \subseteq Txns
      /\ disk.data \subseteq Txns
  BY <1>0 DEF DurabilityTypeOK, Copies
<1>b. pc \in {"open"} => cache.name # NoLog
  BY <1>0 DEF DurabilityTypeOK, LogOpens
<1>c. \A k \in Txns : at[k] \in InCommit => pc = "open"
  BY DEF DurabilityInv, CommitsInOpen
<1>1. made' \in 0..MaxLogs
  <2>1. made' = made \/ (made < MaxLogs /\ made' = made + 1)
    BY DEF Next, vars, Recover, Discard, Create,
       Fill, Head,
       CreateFails, WriteData, SyncData, Publish, SyncLog, CommitFails, MergeRead,
       MergeTruncate, MergeAppend, MergeFails, MergeUnlink, Writeback, Crash, PowerFailure
  <2> QED
    BY <1>0, <2>1 DEF DurabilityTypeOK
<1>2. pc' \in Places
  BY <1>0 DEF DurabilityTypeOK, Places, Next, vars, Recover, Discard, Create, Fill, Head,
     CreateFails, WriteData, SyncData, Publish, SyncLog, CommitFails, MergeRead,
     MergeTruncate, MergeAppend, MergeFails, MergeUnlink, Writeback, Crash, PowerFailure,
     Stopped, Closed
<1>3. found' \subseteq Txns
  <2>1. found' = found \/ found' = {} \/ Create \/ MergeRead
    BY DEF Next, vars, Recover, Discard, Fill, Head, Stopped, Closed,
       CreateFails, WriteData, SyncData, Publish, SyncLog, CommitFails,
       MergeTruncate, MergeAppend, MergeFails, MergeUnlink, Writeback, Crash, PowerFailure
  <2>2. Create => found' \subseteq Txns
    BY <1>a DEF Create, Entries
  <2>3. MergeRead => found' \subseteq Txns
    BY <1>a, <1>b DEF MergeRead
  <2> QED
    BY <1>0, <2>1, <2>2, <2>3 DEF DurabilityTypeOK
<1>4. at' \in [Txns -> Stages]
  <2>1. at \in [Txns -> Stages]
    BY <1>0 DEF DurabilityTypeOK
  <2>2. CASE Stopped
    BY <2>1, <2>2 DEF Stopped, Closed, Stages
  <2>3. \/ at' = at \/ Stopped
        \/ \E k \in Txns, l \in Stages : Goto(k, l)
    BY DEF Next, vars, Recover, Discard, Create, Fill, Head, Stages, InCommit,
       CreateFails, WriteData, SyncData, Publish, SyncLog, CommitFails, MergeRead,
       MergeTruncate, MergeAppend, MergeFails, MergeUnlink, Writeback, Crash, PowerFailure
  <2> QED
    BY <2>1, <2>2, <2>3 DEF Goto
<1>5. nosync' \in BOOLEAN
  <2>1. nosync \in BOOLEAN
    BY <1>0 DEF DurabilityTypeOK
  <2>2. nosync' = nosync \/ nosync' = FALSE \/ nosync' \in NoSyncs
    BY DEF Next, vars, Recover, Discard, Create, Fill, Head, Stopped, Closed,
       CreateFails, WriteData, SyncData, Publish, SyncLog, CommitFails, MergeRead,
       MergeTruncate, MergeAppend, MergeFails, MergeUnlink, Writeback, Crash, PowerFailure
  <2> QED
    BY <2>1, <2>2
<1>6. lax' \subseteq Txns
  <2>1. lax' = lax \/ \E k \in Txns : lax' = lax \cup {k}
    BY DEF Next, vars, Recover, Discard, Create, Fill, Head,
       CreateFails, WriteData, SyncData, Publish, SyncLog, CommitFails, MergeRead,
       MergeTruncate, MergeAppend, MergeFails, MergeUnlink, Writeback, Crash, PowerFailure
  <2> QED
    BY <1>0, <2>1 DEF DurabilityTypeOK
<1>7. kept' \subseteq Txns
  BY <1>0, <1>a DEF DurabilityTypeOK, Next, vars, Recover, Discard, Create, Fill, Head,
     CreateFails, WriteData, SyncData, Publish, SyncLog, CommitFails, MergeRead,
     MergeTruncate, MergeAppend, MergeFails, MergeUnlink, Writeback, Crash, PowerFailure
<1>8. crashes' \in 0..MaxCrashes
  <2>1. crashes' = crashes \/ (crashes < MaxCrashes /\ crashes' = crashes + 1)
    BY DEF Next, vars, Recover, Discard, Create,
       Fill, Head,
       CreateFails, WriteData, SyncData, Publish, SyncLog, CommitFails, MergeRead,
       MergeTruncate, MergeAppend, MergeFails, MergeUnlink, Writeback, Crash, PowerFailure, Stopped
  <2> QED
    BY <1>0, <2>1 DEF DurabilityTypeOK
<1>9. junk' \subseteq Txns
  <2>1. junk' = junk \/ (Create /\ junk' = junk \cup found')
    BY DEF Next, vars, Recover, Discard, Create, Fill, Head,
       CreateFails, WriteData, SyncData, Publish, SyncLog, CommitFails, MergeRead,
       MergeTruncate, MergeAppend, MergeFails, MergeUnlink, Writeback, Crash, PowerFailure
  <2> QED
    BY <1>0, <1>3, <2>1 DEF DurabilityTypeOK
<1> QED
  BY <1>1, <1>2, <1>3, <1>4, <1>5, <1>6, <1>7, <1>8, <1>9
-----------------------------------------------------------------------------
(***************************************************************************)
(* What is in the files.                                                   *)
(***************************************************************************)

\* What a step does to the parts of the cache.
Publishes(k) ==
    /\ cache'.name = cache.name /\ cache'.data = cache.data /\ cache'.tail = cache.tail
    /\ \A f \in LogFiles :
        /\ cache'.logs[f].valid = cache.logs[f].valid
        /\ cache'.logs[f].txns = IF f = cache.name THEN cache.logs[f].txns \cup {k}
                                ELSE cache.logs[f].txns

Renames(n) ==
    /\ cache'.name = n /\ cache'.data = cache.data /\ cache'.tail = cache.tail
    /\ cache'.logs = cache.logs

Fills(v) ==
    /\ cache'.name = cache.name /\ cache'.data = cache.data /\ cache'.tail = cache.tail
    /\ \A f \in LogFiles :
        /\ cache'.logs[f].valid = IF f = cache.name THEN v ELSE cache.logs[f].valid
        /\ cache'.logs[f].txns = IF f = cache.name THEN found ELSE cache.logs[f].txns

Appends(t) ==
    /\ cache'.name = cache.name /\ cache'.logs = cache.logs
    /\ cache.data \subseteq cache'.data
    /\ cache'.tail = t

LEMMA CacheEffects ==
  ASSUME DurabilityInv, [Next]_vars
  PROVE  \/ UNCHANGED cache
         \/ PowerFailure
         \/ (Discard \/ CreateFails \/ MergeUnlink) /\ Renames(NoLog)
         \/ Create /\ Renames(made + 1)
         \/ Fill /\ Fills(FALSE)
         \/ Head /\ Fills(TRUE)
         \/ \E k \in Txns : WriteData(k) /\ (Appends(cache.tail) \/ Appends(Garbage))
         \/ \E k \in Txns : Publish(k) /\ Publishes(k)
         \/ MergeTruncate /\ Appends(Garbage)
         \/ MergeAppend /\ Appends(Log(TRUE, found))
<1>0. cache \in Copies
  BY DEF DurabilityInv, DurabilityTypeOK
<1>1. CASE Discard \/ CreateFails \/ MergeUnlink
  BY <1>0, <1>1 DEF Discard, CreateFails, MergeUnlink, Copies, Renames
<1>2. CASE Create
  BY <1>0, <1>2 DEF Create, Copies, Renames
<1>3. CASE Fill
  BY <1>0, <1>3 DEF Fill, Filled, Copies, Log, Fills
<1>4. CASE Head
  BY <1>0, <1>4 DEF Head, Copies, Log, Fills
<1>5. ASSUME NEW k \in Txns, WriteData(k)
      PROVE  Appends(cache.tail) \/ Appends(Garbage)
  BY <1>0, <1>5 DEF WriteData, Copies, Appends
<1>6. ASSUME NEW k \in Txns, Publish(k) PROVE Publishes(k)
  BY <1>0, <1>6 DEF Publish, Copies, Publishes
<1>7. CASE MergeTruncate
  BY <1>0, <1>7 DEF MergeTruncate, Copies, Appends
<1>8. CASE MergeAppend
  BY <1>0, <1>8 DEF MergeAppend, Copies, Appends
<1>9. \/ UNCHANGED cache \/ PowerFailure
      \/ Discard \/ CreateFails \/ MergeUnlink \/ Create \/ Fill \/ Head
      \/ MergeTruncate \/ MergeAppend
      \/ \E k \in Txns : WriteData(k) \/ Publish(k)
  BY DEF Next, vars, Recover, SyncData, SyncLog, CommitFails, MergeRead, MergeFails,
     AfterFault, Writeback, Crash
<1> QED
  BY <1>1, <1>2, <1>3, <1>4, <1>5, <1>6, <1>7, <1>8, <1>9

\* What a step does to the parts of the disk: whatever is there afterwards was
\* there before, or in the cache, or is no log.
Flushes ==
    /\ disk.data \subseteq disk'.data
    /\ disk'.data \subseteq disk.data \cup cache.data
    /\ disk'.tail \in {disk.tail, cache.tail, Garbage}
    /\ disk'.name \in {disk.name, cache.name}
    /\ \A f \in LogFiles :
        /\ disk'.logs[f].valid \in {disk.logs[f].valid, cache.logs[f].valid}
        /\ disk'.logs[f].txns \subseteq disk.logs[f].txns \cup cache.logs[f].txns

LEMMA DiskEffects ==
  ASSUME DurabilityInv, [Next]_vars
  PROVE  \/ UNCHANGED disk
         \/ \E k \in Txns : SyncData(k) /\ disk'.data = cache.data /\ Flushes
                            /\ disk'.name = disk.name /\ disk'.logs = disk.logs
         \/ \E k \in Txns :
              /\ SyncLog(k) /\ ~nosync /\ Flushes
              /\ disk'.name = cache.name /\ disk'.data = disk.data
              /\ disk'.logs[cache.name] = cache.logs[cache.name]
              /\ kept' = cache.logs[cache.name].txns \cap disk.data
         \/ /\ Writeback /\ Flushes
            /\ \A f \in LogFiles : disk.logs[f].txns \subseteq disk'.logs[f].txns
<1>0. cache \in Copies /\ disk \in Copies /\ disk.data \subseteq cache.data
  BY DEF DurabilityInv, DurabilityTypeOK
<1>1. ASSUME NEW k \in Txns, SyncData(k), disk' = DbSynced
      PROVE  /\ disk'.data = cache.data /\ Flushes
             /\ disk'.name = disk.name /\ disk'.logs = disk.logs
  <2>1. /\ disk'.data = cache.data /\ disk'.tail = cache.tail
        /\ disk'.name = disk.name /\ disk'.logs = disk.logs
    BY <1>0, <1>1 DEF DbSynced, Copies
  <2> QED
    BY <1>0, <2>1 DEF Flushes
<1>2. ASSUME NEW k \in Txns, SyncLog(k), ~nosync, disk' = LogSynced
      PROVE  /\ Flushes
             /\ disk'.name = cache.name /\ disk'.data = disk.data
             /\ disk'.logs[cache.name] = cache.logs[cache.name]
  <2>1. cache.name \in LogFiles
    <3>1. pc = "open"
      BY <1>2 DEF DurabilityInv, CommitsInOpen, SyncLog, InCommit
    <3> QED
      BY <1>0, <3>1 DEF DurabilityInv, DurabilityTypeOK, LogOpens, Copies
  <2>2. /\ disk'.name = cache.name /\ disk'.data = disk.data /\ disk'.tail = disk.tail
        /\ disk'.logs = [disk.logs EXCEPT ![cache.name] = cache.logs[cache.name]]
    BY <1>0, <1>2 DEF LogSynced, Copies
  <2>3. \A f \in LogFiles :
          disk'.logs[f] = IF f = cache.name THEN cache.logs[f] ELSE disk.logs[f]
    BY <1>0, <2>2 DEF Copies
  <2> QED
    BY <2>1, <2>2, <2>3 DEF Flushes
<1>3. ASSUME Writeback
      PROVE  /\ Flushes
             /\ \A f \in LogFiles : disk.logs[f].txns \subseteq disk'.logs[f].txns
  <2>1. ASSUME NEW k \in cache.data, disk' = [disk EXCEPT !.data = @ \cup {k}]
        PROVE  /\ disk'.data = disk.data \cup {k} /\ disk'.tail = disk.tail
               /\ disk'.name = disk.name /\ disk'.logs = disk.logs
    BY <1>0, <2>1 DEF Copies
  <2>2. ASSUME NEW t \in {cache.tail, Garbage}, disk' = [disk EXCEPT !.tail = t]
        PROVE  /\ disk'.data = disk.data /\ disk'.tail = t
               /\ disk'.name = disk.name /\ disk'.logs = disk.logs
    BY <1>0, <2>2 DEF Copies
  <2>3. ASSUME disk' = [disk EXCEPT !.name = cache.name]
        PROVE  /\ disk'.data = disk.data /\ disk'.tail = disk.tail
               /\ disk'.name = cache.name /\ disk'.logs = disk.logs
    BY <1>0, <2>3 DEF Copies
  <2>4. ASSUME NEW g \in {cache.name, disk.name} \ {NoLog},
               disk' = [disk EXCEPT !.logs[g].valid = cache.logs[g].valid]
        PROVE  /\ disk'.data = disk.data /\ disk'.tail = disk.tail
               /\ disk'.name = disk.name
               /\ \A f \in LogFiles :
                    /\ disk'.logs[f].valid \in {disk.logs[f].valid, cache.logs[f].valid}
                    /\ disk'.logs[f].txns = disk.logs[f].txns
    BY <1>0, <2>4 DEF Copies
  <2>5. ASSUME NEW g \in {cache.name, disk.name} \ {NoLog},
               NEW k \in cache.logs[g].txns,
               disk' = [disk EXCEPT !.logs[g].txns = @ \cup {k}]
        PROVE  /\ disk'.data = disk.data /\ disk'.tail = disk.tail
               /\ disk'.name = disk.name
               /\ \A f \in LogFiles :
                    /\ disk'.logs[f].valid = disk.logs[f].valid
                    /\ \/ disk'.logs[f].txns = disk.logs[f].txns
                       \/ f = g /\ disk'.logs[f].txns = disk.logs[f].txns \cup {k}
    BY <1>0, <2>5 DEF Copies
  <2>6. CASE \E k \in cache.data : disk' = [disk EXCEPT !.data = @ \cup {k}]
    BY <2>1, <2>6 DEF Flushes
  <2>7. CASE \E t \in {cache.tail, Garbage} : disk' = [disk EXCEPT !.tail = t]
    BY <2>2, <2>7 DEF Flushes
  <2>8. CASE disk' = [disk EXCEPT !.name = cache.name]
    BY <2>3, <2>8 DEF Flushes
  <2>9. CASE \E g \in {cache.name, disk.name} \ {NoLog} :
               disk' = [disk EXCEPT !.logs[g].valid = cache.logs[g].valid]
    BY <2>4, <2>9 DEF Flushes
  <2>10. CASE \E g \in {cache.name, disk.name} \ {NoLog} : \E k \in cache.logs[g].txns :
               disk' = [disk EXCEPT !.logs[g].txns = @ \cup {k}]
    <3>1. PICK g \in {cache.name, disk.name} \ {NoLog} : \E k \in cache.logs[g].txns :
               disk' = [disk EXCEPT !.logs[g].txns = @ \cup {k}]
      BY <2>10
    <3> QED
      BY <2>5, <3>1 DEF Flushes
  <2> QED
    BY <1>3, <2>6, <2>7, <2>8, <2>9, <2>10 DEF Writeback
<1>4. \/ UNCHANGED disk \/ Writeback
      \/ \E k \in Txns : SyncData(k) /\ disk' = DbSynced
      \/ \E k \in Txns : /\ SyncLog(k) /\ ~nosync /\ disk' = LogSynced
                         /\ kept' = cache.logs[cache.name].txns \cap disk.data
  BY DEF Next, vars, Recover, Discard, Create, Fill, Head,
     CreateFails, WriteData, SyncData, Publish, SyncLog, CommitFails, MergeRead,
     MergeTruncate, MergeAppend, MergeFails, MergeUnlink, Crash, PowerFailure
<1> QED
  BY <1>1, <1>2, <1>3, <1>4
-----------------------------------------------------------------------------
(***************************************************************************)
(* The parts of the invariant.                                             *)
(***************************************************************************)

\* Every step leaves the log files that are not made blank.
LEMMA StepUnmade == DurabilityInv /\ [Next]_vars => UnmadeBlank'
<1> SUFFICES ASSUME DurabilityInv, [Next]_vars PROVE UnmadeBlank'
  OBVIOUS
<1> USE DurabilityAssumption DEF DurabilityAssumption
<1>0. /\ made \in 0..MaxLogs
      /\ cache.name \in LogFiles \cup {NoLog} /\ disk.name \in LogFiles \cup {NoLog}
  BY DEF DurabilityInv, DurabilityTypeOK, Copies
<1>1. /\ cache.name <= made /\ disk.name <= made
      /\ \A f \in LogFiles : f > made => ~cache.logs[f].valid /\ ~disk.logs[f].valid
  BY DEF DurabilityInv, UnmadeBlank
<1>2. made' = made \/ (Create /\ made' = made + 1)
  BY DEF Next, vars, Recover, Discard, Create, Fill, Head, CreateFails, WriteData,
     SyncData, Publish, SyncLog, CommitFails, MergeRead, MergeTruncate, MergeAppend,
     MergeFails, MergeUnlink, Writeback, Crash, PowerFailure
<1>3. Create => made' = made + 1
  BY DEF Create
<1>4. /\ made \in Nat /\ made' \in Nat /\ made <= made' /\ NoLog <= made'
      /\ \A n \in LogFiles \cup {NoLog} : n <= made => n <= made'
      /\ \A f \in LogFiles : f > made' => f > made /\ f # made
      /\ made + 1 <= made' \/ ~Create
      /\ \A f \in LogFiles : f > made' => ~cache.logs[f].valid /\ ~disk.logs[f].valid
  BY <1>0, <1>1, <1>2, <1>3 DEF LogFiles, NoLog
<1>5. \A f \in LogFiles : f > made' => f # cache.name
  BY <1>0, <1>1, <1>4 DEF LogFiles, NoLog
<1>6. /\ cache'.name <= made'
      /\ \A f \in LogFiles : f > made' => ~cache'.logs[f].valid
  <2>1. CASE UNCHANGED cache
    BY <1>0, <1>1, <1>4, <2>1
  <2>2. CASE PowerFailure
    BY <1>0, <1>1, <1>4, <2>2 DEF PowerFailure
  <2>3. CASE Renames(NoLog)
    BY <1>4, <2>3 DEF Renames
  <2>4. CASE Create /\ Renames(made + 1)
    BY <1>4, <2>4 DEF Renames
  <2>5. CASE Fills(FALSE) \/ Fills(TRUE)
    BY <1>0, <1>1, <1>4, <1>5, <2>5 DEF Fills
  <2>6. CASE \E t : Appends(t)
    BY <1>0, <1>1, <1>4, <2>6 DEF Appends
  <2>7. CASE \E k \in Txns : Publishes(k)
    BY <1>0, <1>1, <1>4, <2>7 DEF Publishes
  <2> QED
    BY <2>1, <2>2, <2>3, <2>4, <2>5, <2>6, <2>7, CacheEffects
<1>7. /\ disk'.name <= made'
      /\ \A f \in LogFiles : f > made' => ~disk'.logs[f].valid
  <2>1. CASE UNCHANGED disk
    BY <1>0, <1>1, <1>4, <2>1
  <2>2. CASE Flushes
    BY <1>0, <1>1, <1>4, <2>2 DEF Flushes
  <2> QED
    BY <2>1, <2>2, DiskEffects
<1> QED
  BY <1>6, <1>7 DEF UnmadeBlank

\* Every step leaves commits to an open database.
LEMMA StepCommits == DurabilityInv /\ [Next]_vars => CommitsInOpen'
<1> SUFFICES ASSUME DurabilityInv, [Next]_vars PROVE CommitsInOpen'
  OBVIOUS
<1>0. at \in [Txns -> Stages] /\ CommitsInOpen /\ cache \in Copies
  BY DEF DurabilityInv, DurabilityTypeOK
<1>1. CASE Stopped
  BY <1>0, <1>1 DEF Stopped, Closed, CommitsInOpen, InCommit
<1>2. CASE Recover \/ Discard \/ Create \/ Fill \/ Head \/ CreateFails
           \/ MergeTruncate \/ MergeAppend \/ MergeFails \/ MergeUnlink
  <2>1. pc # "open" /\ at' = at
    BY <1>2 DEF Recover, Discard, Create, Fill, Head, CreateFails, MergeTruncate,
       MergeAppend, MergeFails, MergeUnlink
  <2> QED
    BY <1>0, <2>1 DEF CommitsInOpen
<1>3. CASE MergeRead
  BY <1>0, <1>3 DEF MergeRead, CommitsInOpen
<1>4. CASE UNCHANGED vars \/ Writeback
  <2>1. UNCHANGED <<at, pc, nosync, lax>>
    BY <1>4 DEF vars, Writeback
  <2>2. cache' = cache
    BY <1>4 DEF vars, Writeback
  <2> QED
    BY <1>0, <2>1, <2>2 DEF CommitsInOpen
<1>5. ASSUME NEW k \in Txns, WriteData(k) PROVE CommitsInOpen'
  <2>1. /\ pc' = pc /\ pc = "open" /\ nosync' = nosync
        /\ lax \subseteq lax' /\ (nosync => k \in lax')
    BY <1>5 DEF WriteData
  <2>2. cache'.data = cache.data \cup {k}
    BY <1>0, <1>5 DEF WriteData, Copies
  <2>3. \A j \in Txns \ {k} : at'[j] = at[j]
    BY <1>0, <1>5 DEF WriteData, Goto
  <2> QED
    BY <1>0, <2>1, <2>2, <2>3 DEF CommitsInOpen
<1>6. ASSUME NEW k \in Txns,
             SyncData(k) \/ Publish(k) \/ SyncLog(k) \/ CommitFails(k)
      PROVE  CommitsInOpen'
  <2>1. UNCHANGED <<pc, nosync, lax>> /\ at[k] \in InCommit
    BY <1>6 DEF SyncData, Publish, SyncLog, CommitFails, InCommit
  <2>2. \A j \in Txns \ {k} : at'[j] = at[j]
    BY <1>0, <1>6 DEF SyncData, Publish, SyncLog, CommitFails, Goto
  <2>3. cache.data \subseteq cache'.data
    BY <1>0, <1>6 DEF SyncData, Publish, SyncLog, CommitFails, Copies
  <2> QED
    BY <1>0, <2>1, <2>2, <2>3 DEF CommitsInOpen
<1> QED
  BY <1>1, <1>2, <1>3, <1>4, <1>5, <1>6 DEF Next, Crash, PowerFailure

\* Every step keeps the log that was read current.
LEMMA StepFound == DurabilityInv /\ [Next]_vars => FoundCurrent'
<1> SUFFICES ASSUME DurabilityInv, [Next]_vars PROVE FoundCurrent'
  OBVIOUS
<1>0. /\ FoundCurrent /\ cache \in Copies /\ found \subseteq Txns /\ pc \in Places
      /\ pc \in {"truncate", "append", "unlink"} => cache.name \in LogFiles
      /\ pc \in {"fill", "head"} => cache.name \in LogFiles
  BY DEF DurabilityInv, DurabilityTypeOK, LogOpens, Copies
<1>1. CASE pc' \in {"closed", "open"}
  BY <1>1 DEF FoundCurrent
<1>2. CASE UNCHANGED <<cache, pc, found>>
  BY <1>0, <1>2 DEF FoundCurrent
<1>3. CASE Create
  <2>1. cache.tail.txns \subseteq found'
    BY <1>3 DEF Create, Entries, DurabilityInv, GarbageBlank
  <2>2. cache'.tail = cache.tail /\ pc' = "fill"
    BY <1>0, <1>3 DEF Create, Copies
  <2> QED
    BY <2>1, <2>2 DEF FoundCurrent
<1>4. CASE Fill
  BY <1>0, <1>4 DEF Fill, Filled, Log, Copies, FoundCurrent
<1>5. CASE MergeRead
  BY <1>0, <1>5 DEF MergeRead, FoundCurrent
<1>6. CASE MergeTruncate \/ MergeAppend
  BY <1>0, <1>6 DEF MergeTruncate, MergeAppend, Log, Copies, FoundCurrent
<1>7. CASE Recover \/ Discard \/ Head \/ CreateFails \/ MergeFails \/ MergeUnlink
           \/ Crash \/ PowerFailure
  <2>1. pc' \in {"closed", "open"}
    BY <1>7 DEF Recover, Discard, Head, CreateFails, MergeFails, MergeUnlink, Crash,
       PowerFailure, Stopped, Closed
  <2> QED
    BY <1>1, <2>1
<1>8. CASE UNCHANGED vars \/ Writeback
  BY <1>2, <1>8 DEF vars, Writeback
<1>9. ASSUME NEW k \in Txns,
             WriteData(k) \/ SyncData(k) \/ Publish(k) \/ SyncLog(k) \/ CommitFails(k)
      PROVE  FoundCurrent'
  <2>1. pc' = "open"
    BY <1>9 DEF WriteData, SyncData, Publish, SyncLog, CommitFails, DurabilityInv,
       CommitsInOpen, InCommit
  <2> QED
    BY <1>1, <2>1
<1> QED
  BY <1>3, <1>4, <1>5, <1>6, <1>7, <1>8, <1>9 DEF Next

\* Every step leaves garbage blank.
LEMMA StepGarbage == DurabilityInv /\ [Next]_vars => GarbageBlank'
<1> SUFFICES ASSUME DurabilityInv, [Next]_vars PROVE GarbageBlank'
  OBVIOUS
<1>0. GarbageBlank
  BY DEF DurabilityInv
<1>1. ~cache'.tail.valid => cache'.tail.txns = {}
  <2>1. \/ cache'.tail = cache.tail \/ PowerFailure
        \/ Appends(Garbage) \/ Appends(cache.tail) \/ Appends(Log(TRUE, found))
    BY CacheEffects DEF Renames, Fills, Publishes
  <2>2. Log(TRUE, found).valid /\ Garbage.txns = {}
    BY DEF Log, Garbage
  <2> QED
    BY <1>0, <2>1, <2>2 DEF GarbageBlank, PowerFailure, Appends
<1>2. ~disk'.tail.valid => disk'.tail.txns = {}
  <2>1. UNCHANGED disk \/ Flushes
    BY DiskEffects
  <2>2. Garbage.txns = {}
    BY DEF Log, Garbage
  <2> QED
    BY <1>0, <2>1, <2>2 DEF GarbageBlank, Flushes
<1> QED
  BY <1>1, <1>2 DEF GarbageBlank

\* What has its data on the disk keeps it.
LEMMA StaysOnDisk ==
  ASSUME DurabilityInv, [Next]_vars, NEW T, OnDisk(T)
  PROVE  T \ (lax' \cup junk') \subseteq disk'.data
<1>1. disk.data \subseteq disk'.data
  BY DiskEffects DEF Flushes, DurabilityInv, DurabilityTypeOK
<1>2. lax \subseteq lax' /\ junk \subseteq junk'
  BY DEF Next, vars, Recover, Discard, Create, Fill, Head, CreateFails, WriteData,
     SyncData, Publish, SyncLog, CommitFails, MergeRead, MergeTruncate, MergeAppend,
     MergeFails, MergeUnlink, Writeback, Crash, PowerFailure
<1> QED
  BY <1>1, <1>2 DEF OnDisk

\* Every step leaves what a log names on the disk.
LEMMA StepNamed == DurabilityInv /\ [Next]_vars => NamedOnDisk'
<1> SUFFICES ASSUME DurabilityInv, [Next]_vars PROVE NamedOnDisk'
  OBVIOUS
<1> DEFINE Kept(T) == T \ (lax' \cup junk') \subseteq disk'.data
<1>0. /\ NamedOnDisk /\ cache \in Copies /\ disk \in Copies
      /\ at \in [Txns -> Stages] /\ CommitsInOpen
  BY DEF DurabilityInv, DurabilityTypeOK
<1>1. /\ Kept({}) /\ Kept(cache.tail.txns) /\ Kept(disk.tail.txns) /\ Kept(found)
      /\ \A f \in LogFiles : Kept(cache.logs[f].txns) /\ Kept(disk.logs[f].txns)
      /\ \A k \in Txns : at[k] \in {"synced", "published"} => Kept({k})
  BY <1>0, StaysOnDisk DEF NamedOnDisk
<1>2. Garbage.txns = {} /\ Log(TRUE, found).txns = found
  BY DEF Garbage, Log
<1>3. /\ Kept(cache'.tail.txns)
      /\ \A f \in LogFiles : Kept(cache'.logs[f].txns)
  <2>1. CASE UNCHANGED cache
    BY <1>1, <2>1
  <2>2. CASE PowerFailure
    BY <1>1, <2>2 DEF PowerFailure
  <2>3. CASE \E n : Renames(n)
    BY <1>1, <2>3 DEF Renames
  <2>4. CASE \E v : Fills(v)
    BY <1>1, <2>4 DEF Fills
  <2>5. CASE Appends(cache.tail) \/ Appends(Garbage) \/ Appends(Log(TRUE, found))
    BY <1>1, <1>2, <2>5 DEF Appends
  <2>6. ASSUME NEW k \in Txns, Publish(k), Publishes(k)
        PROVE  /\ Kept(cache'.tail.txns)
               /\ \A f \in LogFiles : Kept(cache'.logs[f].txns)
    <3>1. Kept({k})
      BY <1>1, <2>6 DEF Publish
    <3> QED
      BY <1>1, <2>6, <3>1 DEF Publishes
  <2> QED
    BY <2>1, <2>2, <2>3, <2>4, <2>5, <2>6, CacheEffects
<1>4. /\ Kept(disk'.tail.txns)
      /\ \A f \in LogFiles : Kept(disk'.logs[f].txns)
  <2>1. CASE UNCHANGED disk
    BY <1>1, <2>1
  <2>2. CASE Flushes
    <3>1. Kept(disk'.tail.txns)
      BY <1>1, <1>2, <2>2 DEF Flushes
    <3>2. ASSUME NEW f \in LogFiles PROVE Kept(disk'.logs[f].txns)
      BY <1>1, <2>2 DEF Flushes
    <3> QED
      BY <3>1, <3>2
  <2> QED
    BY <2>1, <2>2, DiskEffects
<1>5. Kept(found')
  <2>1. found' = found \/ found' = {} \/ Create \/ MergeRead
    BY DEF Next, vars, Recover, Discard, Fill, Head, CreateFails, WriteData, Closed, Stopped,
       SyncData, Publish, SyncLog, CommitFails, MergeTruncate, MergeAppend,
       MergeFails, MergeUnlink, Writeback, Crash, PowerFailure
  <2>2. pc = "open" => cache.name \in LogFiles
    BY <1>0 DEF DurabilityInv, DurabilityTypeOK, LogOpens, Copies
  <2>3. Create => Kept(found')
    BY <1>1 DEF Create, Entries
  <2> QED
    BY <1>1, <2>1, <2>2, <2>3 DEF MergeRead
<1>6. ASSUME NEW j \in Txns, at'[j] \in {"synced", "published"} PROVE Kept({j})
  <2>1. CASE at[j] \in {"synced", "published"}
    BY <1>1, <2>1
  <2>2. CASE at[j] \notin {"synced", "published"}
    <3>1. SyncData(j)
      <4>1. CASE Stopped
        BY <1>0, <1>6, <2>2, <4>1 DEF Stopped
      <4>2. CASE UNCHANGED at
        BY <1>6, <2>2, <4>2
      <4>3. ASSUME NEW k \in Txns,
                   WriteData(k) \/ Publish(k) \/ SyncLog(k) \/ CommitFails(k)
            PROVE  FALSE
        BY <1>0, <1>6, <2>2, <4>3 DEF WriteData, Publish, SyncLog, CommitFails, Goto
      <4>4. ASSUME NEW k \in Txns, SyncData(k) PROVE k = j
        BY <1>0, <1>6, <2>2, <4>4 DEF SyncData, Goto
      <4> QED
        BY <4>1, <4>2, <4>3, <4>4 DEF Next, vars, Recover, Discard, Create, Fill, Head,
           CreateFails, MergeRead, MergeTruncate, MergeAppend, MergeFails, MergeUnlink,
           Writeback, Crash, PowerFailure
    <3>2. CASE nosync
      <4>1. j \in lax /\ lax' = lax
        BY <1>0, <3>1, <3>2 DEF SyncData, CommitsInOpen, InCommit
      <4> QED
        BY <4>1
    <3>3. CASE ~nosync
      <4>1. disk'.data = cache.data
        BY <1>0, <3>1, <3>3 DEF SyncData, DbSynced, Copies
      <4>2. j \in cache.data
        BY <1>0, <3>1 DEF SyncData, CommitsInOpen, InCommit
      <4> QED
        BY <4>1, <4>2
    <3> QED
      BY <3>2, <3>3
  <2> QED
    BY <2>1, <2>2
<1> QED
  BY <1>3, <1>4, <1>5, <1>6 DEF NamedOnDisk, OnDisk

\* Every step leaves an open database with a valid log, a log that is being
\* made without a header, and nothing on the disk that the cache has not.
LEMMA StepOpens ==
  DurabilityInv /\ [Next]_vars =>
    /\ (disk.data \subseteq cache.data)'
    /\ (pc \in {"open", "truncate", "append", "unlink"} => LogOpens(cache))'
    /\ (pc \in {"fill", "head"} => cache.name # NoLog /\ ~LogOpens(cache))'
<1> SUFFICES ASSUME DurabilityInv, [Next]_vars
             PROVE  /\ disk'.data \subseteq cache'.data
                    /\ pc' \in {"open", "truncate", "append", "unlink"} => LogOpens(cache)'
                    /\ pc' \in {"fill", "head"} =>
                          cache'.name # NoLog /\ ~LogOpens(cache)'
  OBVIOUS
<1>0. /\ DurabilityTypeOK /\ cache \in Copies /\ disk \in Copies
      /\ cache.name \in LogFiles \cup {NoLog}
  BY DEF DurabilityInv, DurabilityTypeOK, Copies
<1>1. disk'.data \subseteq cache'.data
  <2>1. CASE UNCHANGED disk
    <3>1. PowerFailure \/ cache.data \subseteq cache'.data
      BY CacheEffects DEF Renames, Fills, Appends, Publishes
    <3> QED
      BY <1>0, <2>1, <3>1 DEF DurabilityTypeOK, PowerFailure
  <2>2. CASE Flushes /\ (Writeback \/ \E k \in Txns : SyncData(k) \/ SyncLog(k))
    <3>1. cache' = cache
      BY <2>2 DEF Writeback, SyncData, SyncLog
    <3> QED
      BY <1>0, <2>2, <3>1 DEF DurabilityTypeOK, Flushes
  <2> QED
    BY <2>1, <2>2, DiskEffects
<1>2. CASE pc' = "closed"
  BY <1>1, <1>2
<1>3. CASE Recover
  BY <1>1, <1>3 DEF Recover, LogOpens
<1>4. CASE Create
  <2>1. made + 1 \in LogFiles /\ made + 1 > made /\ made + 1 # NoLog
    BY <1>0, <1>4, DurabilityAssumption DEF Create, DurabilityTypeOK, LogFiles, NoLog,
       DurabilityAssumption
  <2>2. ~cache.logs[made + 1].valid
    BY <2>1 DEF DurabilityInv, UnmadeBlank
  <2>3. cache'.name = made + 1 /\ cache'.logs = cache.logs /\ pc' = "fill"
    BY <1>0, <1>4 DEF Create, Copies
  <2> QED
    BY <1>1, <2>1, <2>2, <2>3 DEF LogOpens
<1>5. CASE Fill \/ Head
  <2>1. cache.name \in LogFiles
    <3>1. pc \in {"fill", "head"}
      BY <1>5 DEF Fill, Head
    <3> QED
      BY <1>0, <3>1 DEF DurabilityTypeOK
  <2>2. \/ pc' = "head" /\ Fills(FALSE)
        \/ pc' = "open" /\ Fills(TRUE)
    <3>1. CASE Fill
      BY <1>0, <3>1 DEF Fill, Filled, Copies, Log, Fills
    <3>2. CASE Head
      BY <1>0, <3>2 DEF Head, Copies, Log, Fills
    <3> QED
      BY <1>5, <3>1, <3>2
  <2> QED
    <3>0. cache.name # NoLog
      BY <2>1 DEF NoLog, LogFiles
    <3>1. cache'.name = cache.name /\ cache.name # NoLog
      BY <2>2, <3>0 DEF Fills
    <3>2. \/ pc' = "head" /\ ~cache'.logs[cache.name].valid
          \/ pc' = "open" /\ cache'.logs[cache.name].valid
      BY <2>1, <2>2 DEF Fills
    <3> QED
      BY <1>1, <3>1, <3>2 DEF LogOpens
<1>6. CASE MergeRead \/ MergeTruncate \/ MergeAppend
  <2>1. /\ pc \in {"open", "truncate", "append"}
        /\ pc' \in {"truncate", "append", "unlink"}
    BY <1>6 DEF MergeRead, MergeTruncate, MergeAppend
  <2>2. cache'.name = cache.name /\ cache'.logs = cache.logs
    BY <1>0, <1>6 DEF MergeRead, MergeTruncate, MergeAppend, Copies
  <2> QED
    BY <1>0, <1>1, <2>1, <2>2 DEF DurabilityTypeOK, LogOpens
<1>7. ASSUME NEW k \in Txns,
             WriteData(k) \/ SyncData(k) \/ Publish(k) \/ SyncLog(k) \/ CommitFails(k)
      PROVE  LogOpens(cache)' /\ pc' = "open"
  <2>1. pc = "open" /\ pc' = "open"
    BY <1>7 DEF WriteData, SyncData, Publish, SyncLog, CommitFails, DurabilityInv,
       CommitsInOpen, InCommit
  <2>2. cache.name \in LogFiles /\ LogOpens(cache)
    BY <1>0, <2>1 DEF DurabilityTypeOK, LogOpens
  <2>3. CASE WriteData(k)
    BY <1>0, <2>2, <2>1, <2>3 DEF WriteData, Copies, LogOpens
  <2>4. CASE Publish(k)
    <3>1. Publishes(k)
      BY <1>0, <2>4 DEF Publish, Copies, Publishes
    <3> QED
      BY <2>1, <2>2, <3>1 DEF Publishes, LogOpens
  <2>5. CASE UNCHANGED cache
    BY <2>1, <2>2, <2>5 DEF LogOpens
  <2> QED
    BY <1>7, <2>3, <2>4, <2>5 DEF SyncData, SyncLog, CommitFails
<1>8. CASE UNCHANGED vars \/ Writeback
  <2>1. UNCHANGED <<cache, pc>>
    BY <1>8 DEF vars, Writeback
  <2> QED
    BY <1>0, <1>1, <2>1 DEF DurabilityTypeOK, LogOpens
<1>9. CASE Discard \/ CreateFails \/ MergeFails \/ MergeUnlink \/ Crash \/ PowerFailure
  BY <1>2, <1>9 DEF Discard, CreateFails, MergeFails, MergeUnlink, Crash, PowerFailure,
     Stopped, Closed
<1> QED
  BY <1>1, <1>3, <1>4, <1>5, <1>6, <1>7, <1>8, <1>9 DEF Next

\* Every step keeps what was synced in both copies.
LEMMA StepKept == DurabilityInv /\ [Next]_vars => KeptInBoth'
<1> SUFFICES ASSUME DurabilityInv, [Next]_vars, kept' # {} PROVE KeptInBoth'
  BY DEF KeptInBoth
<1>0. /\ DurabilityTypeOK /\ KeptInBoth /\ cache \in Copies /\ disk \in Copies
  BY DEF DurabilityInv, DurabilityTypeOK
<1>1. ASSUME NEW k \in Txns, SyncLog(k), ~nosync, disk' = LogSynced,
             kept' = cache.logs[cache.name].txns \cap disk.data
      PROVE  KeptInBoth'
  <2>1. pc = "open" /\ cache' = cache
    BY <1>1 DEF SyncLog, DurabilityInv, CommitsInOpen, InCommit
  <2>2. LogOpens(cache) /\ cache.name \in LogFiles
    BY <1>0, <2>1 DEF DurabilityTypeOK, LogOpens, Copies
  <2>3. /\ disk'.name = cache.name /\ disk'.data = disk.data
        /\ disk'.logs[cache.name] = cache.logs[cache.name]
    BY <1>0, <1>1, <2>2 DEF LogSynced, Copies
  <2> QED
    BY <1>1, <2>1, <2>2, <2>3 DEF KeptInBoth, LogOpens
<1>2. CASE kept' = kept
  <2>1. /\ LogOpens(cache) /\ LogOpens(disk) /\ cache.name = disk.name
        /\ kept \subseteq cache.logs[cache.name].txns
        /\ kept \subseteq disk.logs[disk.name].txns
        /\ kept \subseteq disk.data
        /\ cache.name \in LogFiles
    BY <1>0, <1>2 DEF KeptInBoth, LogOpens, Copies
  <2>2. CASE PowerFailure
    BY <1>2, <2>1, <2>2 DEF PowerFailure, KeptInBoth, LogOpens
  <2>3. CASE ~PowerFailure
    <3>1. cache'.name = cache.name
      <4>1. ~Discard /\ ~Create /\ ~CreateFails
        BY <1>0, <2>1 DEF Discard, Create, CreateFails, DurabilityTypeOK, LogOpens
      <4>2. ~MergeUnlink
        BY DEF MergeUnlink
      <4> QED
        BY <2>3, <4>1, <4>2, CacheEffects DEF Fills, Appends, Publishes
    <3>2. /\ cache'.logs[cache.name].valid
          /\ kept \subseteq cache'.logs[cache.name].txns
      <4>1. ~Fill /\ ~Head
        BY <1>0, <2>1 DEF Fill, Head, DurabilityTypeOK
      <4> QED
        BY <2>1, <2>3, <4>1, CacheEffects DEF Renames, Appends, Publishes, LogOpens
    <3>3. /\ disk'.name = disk.name /\ kept \subseteq disk'.data
          /\ disk'.logs[disk.name].valid
          /\ kept \subseteq disk'.logs[disk.name].txns
      <4>1. CASE UNCHANGED disk
        BY <2>1, <4>1 DEF LogOpens
      <4>2. ASSUME NEW k \in Txns, SyncData(k), Flushes, disk'.name = disk.name,
                   disk'.logs = disk.logs
            PROVE  <3>3!:
        BY <2>1, <4>2 DEF Flushes, LogOpens
      <4>3. CASE \E k \in Txns : /\ disk'.name = cache.name /\ disk'.data = disk.data
                                 /\ disk'.logs[cache.name] = cache.logs[cache.name]
        BY <2>1, <4>3 DEF LogOpens
      <4>4. CASE /\ Flushes
                 /\ \A f \in LogFiles : disk.logs[f].txns \subseteq disk'.logs[f].txns
        BY <2>1, <4>4 DEF Flushes, LogOpens
      <4> QED
        BY <4>1, <4>2, <4>3, <4>4, DiskEffects
    <3> QED
      BY <1>2, <2>1, <3>1, <3>2, <3>3 DEF KeptInBoth, LogOpens
  <2> QED
    BY <2>2, <2>3
<1> QED
  <2>1. kept' = kept \/ kept' = {} \/ \E k \in Txns : SyncLog(k)
    BY DEF Next, vars, Recover, Discard, Create, Fill, Head, CreateFails, WriteData,
       SyncData, Publish, CommitFails, MergeRead, MergeTruncate, MergeAppend,
       MergeFails, MergeUnlink, Writeback, Crash, PowerFailure
  <2>2. ASSUME NEW k \in Txns, SyncLog(k) PROVE KeptInBoth'
    BY <1>1, <1>2, <2>2 DEF SyncLog
  <2> QED
    BY <1>2, <2>1, <2>2
-----------------------------------------------------------------------------
(***************************************************************************)
(* The invariant and what follows from it.                                 *)
(***************************************************************************)

\* DurabilityInv is inductive.
LEMMA DurabilityStepInv == DurabilityInv /\ [Next]_vars => DurabilityInv'
<1> SUFFICES ASSUME DurabilityInv, [Next]_vars PROVE DurabilityInv'
  OBVIOUS
<1>1. DurabilityTypeOK'
  BY StepCache, StepDisk, StepScalars, StepOpens DEF DurabilityTypeOK
<1> QED
  BY <1>1, StepUnmade, StepGarbage, StepCommits, StepFound, StepNamed, StepKept DEF DurabilityInv

\* It therefore always holds.
LEMMA DurabilityAlways == Spec => []DurabilityInv
  BY DurabilityInitInv, DurabilityStepInv, PTL DEF Spec

\* Opening and closing work on a valid log file, a file that is being made has
\* no header yet, and the disk has no data that was not written.
THEOREM DurabilityTypesCorrect == Spec => []DurabilityTypeOK
<1>1. DurabilityInv => DurabilityTypeOK
  BY DEF DurabilityInv
<1> QED
  BY <1>1, DurabilityAlways, PTL

\* The fsync of the database before the entry is written is enough: whatever
\* the system writes back, and whenever the power fails, a log on the disk names
\* no synced transaction without its data, as long as no log that was made of
\* other bytes at the end of the database names it.
THEOREM NeverTorn == Spec => []NothingTorn
<1>1. DurabilityInv => NothingTorn
  <2> SUFFICES ASSUME DurabilityInv PROVE NothingTorn
    OBVIOUS
  <2>1. NamedOnDisk /\ disk \in Copies
    BY DEF DurabilityInv, DurabilityTypeOK
  <2> QED
    BY <2>1 DEF NothingTorn, Visible, LogOpens, NamedOnDisk, OnDisk, Copies
<1> QED
  BY <1>1, DurabilityAlways, PTL

\* What the log file had at its last fsync survives a power failure at any
\* time until the merge unlinks the file.
THEOREM SyncedSurvives == Spec => []SyncedLogKeeps
<1>1. DurabilityInv => SyncedLogKeeps
  BY DEF DurabilityInv, KeptInBoth, SyncedLogKeeps, Visible
<1> QED
  BY <1>1, DurabilityAlways, PTL

\* No step of the library, and no crash of it, takes a transaction away.
THEOREM LosesOnlyWithPower == Spec => OnlyPowerLoses
<1>1. DurabilityInv /\ [Next]_vars =>
        [PowerFailure \/ Visible(cache) \subseteq Visible(cache')]_vars
  <2> SUFFICES ASSUME DurabilityInv, [Next]_vars, ~PowerFailure
               PROVE  Visible(cache) \subseteq Visible(cache')
    OBVIOUS
  <2>0. /\ DurabilityTypeOK /\ cache \in Copies /\ FoundCurrent
        /\ cache.name \in LogFiles \cup {NoLog}
    BY DEF DurabilityInv, DurabilityTypeOK, Copies
  <2>1. CASE UNCHANGED cache
    BY <2>1
  <2>2. CASE (Discard \/ CreateFails) /\ Renames(NoLog)
    <3>1. ~LogOpens(cache) /\ ~LogOpens(cache')
      BY <2>0, <2>2 DEF Discard, CreateFails, DurabilityTypeOK, Renames, LogOpens
    <3> QED
      BY <2>2, <3>1 DEF Visible, Renames
  <2>3. CASE MergeUnlink /\ Renames(NoLog)
    <3>1. /\ Visible(cache) = cache.logs[cache.name].txns
          /\ Visible(cache') = cache.tail.txns
      BY <2>0, <2>3 DEF MergeUnlink, DurabilityTypeOK, Renames, LogOpens, Visible
    <3> QED
      BY <2>0, <2>3, <3>1 DEF MergeUnlink, FoundCurrent
  <2>4. CASE Create /\ Renames(made + 1)
    <3>1. ~cache.logs[made + 1].valid
      <4>1. made + 1 \in LogFiles /\ made + 1 > made
        BY <2>0, <2>4, DurabilityAssumption DEF Create, DurabilityTypeOK, LogFiles,
           DurabilityAssumption
      <4> QED
        BY <4>1 DEF DurabilityInv, UnmadeBlank
    <3>2. ~LogOpens(cache) /\ ~LogOpens(cache')
      BY <2>4, <3>1 DEF Create, Renames, LogOpens
    <3> QED
      BY <2>4, <3>2 DEF Visible, Renames
  <2>5. CASE Fill /\ Fills(FALSE)
    <3>1. cache.name \in LogFiles /\ ~LogOpens(cache)
      BY <2>0, <2>5 DEF Fill, DurabilityTypeOK
    <3>2. ~LogOpens(cache')
      BY <2>5, <3>1 DEF Fills, LogOpens
    <3> QED
      BY <2>5, <3>1, <3>2 DEF Visible, Fills
  <2>6. CASE Head /\ Fills(TRUE)
    <3>1. cache.name \in LogFiles /\ ~LogOpens(cache) /\ cache.tail.txns \subseteq found
      BY <2>0, <2>6 DEF Head, DurabilityTypeOK, FoundCurrent
    <3>2. LogOpens(cache') /\ cache'.logs[cache'.name].txns = found
      <4>1. cache.name # NoLog
        BY <3>1 DEF NoLog, LogFiles
      <4> QED
        BY <2>6, <3>1, <4>1 DEF Fills, LogOpens
    <3> QED
      BY <3>1, <3>2 DEF Visible
  <2>7. ASSUME NEW t, Appends(t), LogOpens(cache)
        PROVE  Visible(cache) \subseteq Visible(cache')
    BY <2>7 DEF Appends, Visible, LogOpens
  <2>8. ASSUME NEW k \in Txns, Publish(k), Publishes(k)
        PROVE  Visible(cache) \subseteq Visible(cache')
    <3>1. LogOpens(cache) /\ cache.name \in LogFiles
      BY <2>0, <2>8 DEF Publish, DurabilityInv, CommitsInOpen, InCommit,
         DurabilityTypeOK, LogOpens
    <3> QED
      BY <2>8, <3>1 DEF Publishes, Visible, LogOpens
  <2>9. (\E k \in Txns : WriteData(k)) \/ MergeTruncate \/ MergeAppend => LogOpens(cache)
    BY <2>0 DEF WriteData, MergeTruncate, MergeAppend, DurabilityTypeOK
  <2> QED
    BY <2>1, <2>2, <2>3, <2>4, <2>5, <2>6, <2>7, <2>8, <2>9, CacheEffects
<1> QED
  BY <1>1, DurabilityAlways, PTL DEF Spec, OnlyPowerLoses
=============================================================================
