-------------------------- MODULE ConnectionProofs --------------------------
(***************************************************************************)
(* Proofs about Connection, for any number of processes, log files,        *)
(* transactions and crashes, with failing writes.  What rests on the locks *)
(* alone holds for both kinds of flock; that there is one log, which loses *)
(* nothing, is proved for a flock that converts locks in one step.         *)
(***************************************************************************)
EXTENDS Connection, TLAPS, FiniteSetTheorems

(***************************************************************************)
(* The invariant of the locks.                                             *)
(***************************************************************************)

\* Where a process works with the exclusive lock.
Exclusives == {"create", "make", "fill", "head", "recover", "discard"} \cup Merging

\* Whoever has the exclusive lock is alone.
FlockExcludes ==
    \A p, q \in Procs : p # q /\ flk[p] = "ex" => flk[q] = "none"

\* The lock that a process has where it needs one.
FlockPlaces ==
    \A p \in Procs :
        /\ pc[p] \in Exclusives => flk[p] = "ex"
        /\ pc[p] = "share" /\ flags[p].nosync => flk[p] = "ex" /\ log[p] # NoLog
        /\ pc[p] = "attach" => flk[p] = "sh" /\ ~flags[p].nosync
        /\ pc[p] \in {"open", "writing"} =>
            flk[p] = IF flags[p].nosync THEN "ex" ELSE "sh"

\* Transactions that are being written have their number left.
CommitsLeft ==
    commits + Cardinality({p \in Procs : pc[p] = "writing"}) <= MaxCommits

LocksInv ==
    /\ ConnectionTypeOK
    /\ path <= made
    /\ FlockExcludes
    /\ FlockPlaces
    /\ CommitsLeft
-----------------------------------------------------------------------------
(***************************************************************************)
(* The invariant of the log, where a lock is converted in one step.        *)
(***************************************************************************)

\* p has the log open that the others use.
Uses(p) ==
    \/ pc[p] \in {"open", "writing", "closing"} \cup Merging
    \/ pc[p] = "share" /\ log[p] # NoLog

\* A process keeps a lock as long as it uses the log, and the exclusive one
\* from the creation of the log on.
LockKept ==
    \A p \in Procs :
        /\ Uses(p) => flk[p] # "none"
        /\ pc[p] = "share" /\ log[p] # NoLog => flk[p] = "ex"

\* The log in use is the valid one at the path.
OneLog == \A p \in Procs : Uses(p) => LogOpens /\ log[p] = path

\* A log that is being made is at the path and has no header; one that is to
\* be deleted is not valid.
NewLogs ==
    \A p \in Procs :
        /\ pc[p] \in {"fill", "head"} => log[p] = path /\ ~LogOpens
        /\ pc[p] = "discard" => ~LogOpens

\* What a process has read of a log is what the log has, or what it makes of
\* bytes that are no log.
FoundCurrent ==
    \A p \in Procs :
        /\ pc[p] \in {"make", "fill", "head"} => found[p] \in Contents(trailer)
        /\ pc[p] = "head" => logs[log[p]].txns = found[p]
        /\ pc[p] \in {"truncate", "append", "unlink"} => found[p] = logs[log[p]].txns
        /\ pc[p] = "unlink" => trailer = Trailer(found[p])

\* Bytes that are no log name nothing.
GarbageBlank == trailer.kind = "garbage" => trailer.txns = {}

\* The next process finds exactly what was published, and maybe junk.
Published == Visible \ {Junk}
VisibleExact == Published = 1..commits

LogInv ==
    /\ LockKept
    /\ OneLog
    /\ NewLogs
    /\ FoundCurrent
    /\ VisibleExact
    /\ GarbageBlank
    /\ TrailerGuarded
-----------------------------------------------------------------------------
(***************************************************************************)
(* Types.                                                                  *)
(***************************************************************************)

\* The types without the places where a process has a log open.
Types ==
    /\ db \in {"absent", "foreign", "empty", "headed"}
    /\ trailer \in [kind : {"none", "log", "garbage"}, txns : SUBSET Entries]
    /\ path \in LogFiles \cup {NoLog}
    /\ made \in 0..MaxLogs
    /\ logs \in [LogFiles -> [valid : BOOLEAN, txns : SUBSET Entries]]
    /\ flk \in [Procs -> {"none", "sh", "ex"}]
    /\ pc \in [Procs -> Places]
    /\ flags \in [Procs -> Flags]
    /\ retry \in [Procs -> BOOLEAN]
    /\ found \in [Procs -> SUBSET Entries]
    /\ log \in [Procs -> LogFiles \cup {NoLog}]
    /\ commits \in 0..MaxCommits
    /\ foreign \in BOOLEAN
    /\ opens \in 0..MaxOpens
    /\ crashes \in 0..MaxCrashes

\* Where a process has a log open, and where it has none.
LogPlaces ==
    \A p \in Procs :
        /\ pc[p] \in Merging \cup {"fill", "head", "open", "writing", "closing", "detach"}
            => log[p] # NoLog
        /\ pc[p] \in (Opening \ {"fill", "head", "share"}) \cup {"closed", "failed", "unlock"}
            => log[p] = NoLog

\* The type invariant is the two together.
LEMMA TypeParts == ConnectionTypeOK <=> Types /\ LogPlaces
  BY DEF ConnectionTypeOK, Types, LogPlaces

\* A step of p.
Acts(p) ==
    \/ \E f \in OpenFlags : Open(p, f)
    \/ WriteData(p) \/ Close(p) \/ Step(p) \/ Crash(p)

\* The invariant of the locks holds at the start.
LEMMA LocksInitInv == Init => LocksInv
<1> SUFFICES ASSUME Init PROVE LocksInv
  OBVIOUS
<1> USE ConnectionAssumption DEF ConnectionAssumption, Init
<1>1. Types
  <2>1. retry \in [Procs -> BOOLEAN]
    OBVIOUS
  <2>2. flags \in [Procs -> Flags]
    BY DEF Flags, NoFlags
  <2>3. logs \in [LogFiles -> [valid : BOOLEAN, txns : SUBSET Entries]]
    BY DEF Log
  <2>4. trailer \in [kind : {"none", "log", "garbage"}, txns : SUBSET Entries]
    BY DEF NoTrailer, Garbage
  <2>5. /\ flk \in [Procs -> {"none", "sh", "ex"}]
        /\ pc \in [Procs -> Places]
        /\ found \in [Procs -> SUBSET Entries]
        /\ log \in [Procs -> LogFiles \cup {NoLog}]
    BY DEF Places
  <2>6. made \in 0..MaxLogs /\ commits \in 0..MaxCommits /\ opens \in 0..MaxOpens
        /\ crashes \in 0..MaxCrashes /\ foreign \in BOOLEAN
        /\ db \in {"absent", "foreign", "empty", "headed"}
    OBVIOUS
  <2> QED
    BY <2>1, <2>2, <2>3, <2>4, <2>5, <2>6 DEF Types
<1>2. LogPlaces
  BY DEF LogPlaces, Merging, Opening
<1>3. FlockExcludes /\ FlockPlaces /\ path <= made
  BY DEF FlockExcludes, FlockPlaces, Exclusives, Merging, NoLog
<1>4. CommitsLeft
  <2>1. {p \in Procs : pc[p] = "writing"} = {}
    OBVIOUS
  <2> QED
    BY <2>1, FS_EmptySet DEF CommitsLeft
<1> QED
  BY <1>1, <1>2, <1>3, <1>4, TypeParts DEF LocksInv

\* Every step of p moves p, and no other process.
LEMMA OnlyMoves ==
  ASSUME Types, NEW p \in Procs, Acts(p)
  PROVE  \A q \in Procs \ {p} :
            /\ pc'[q] = pc[q] /\ flk'[q] = flk[q] /\ log'[q] = log[q]
            /\ found'[q] = found[q] /\ flags'[q] = flags[q]
<1> USE DEF Types, Acts, Goto, Open, WriteData, Close, Crash, Step, DropLock, Header,
     Exclusive, ReadTrailer, MakeLog, MakeFails, FillLog, HeadLog, Recover, Discard,
     Share, Attach, Abandon, Publish, CommitFails, LastOne, MergeRead, MergeTruncate,
     MergeAppend, MergeFails, MergeUnlink, Detach, UnlockDb, Leave,
     FreeHeader, localVars
<1>1. ASSUME NEW q \in Procs \ {p} PROVE pc'[q] = pc[q]
  OBVIOUS
<1>2. ASSUME NEW q \in Procs \ {p} PROVE flk'[q] = flk[q]
  OBVIOUS
<1>3. ASSUME NEW q \in Procs \ {p} PROVE log'[q] = log[q]
  OBVIOUS
<1>4. ASSUME NEW q \in Procs \ {p} PROVE found'[q] = found[q]
  OBVIOUS
<1>5. ASSUME NEW q \in Procs \ {p} PROVE flags'[q] = flags[q]
  OBVIOUS
<1> QED
  BY <1>1, <1>2, <1>3, <1>4, <1>5

\* What p may do to the variables that belong to it.
LEMMA ProcTypes ==
  ASSUME Types, NEW p \in Procs, Acts(p)
  PROVE  /\ db' \in {"absent", "foreign", "empty", "headed"}
         /\ flk' \in [Procs -> {"none", "sh", "ex"}]
         /\ pc' \in [Procs -> Places]
         /\ flags' \in [Procs -> Flags]
         /\ retry' \in [Procs -> BOOLEAN]
<1> USE ConnectionAssumption
    DEF ConnectionAssumption, Types, Acts, Goto, Open, WriteData, Close, Crash, Step,
     DropLock, Header,
     Exclusive, ReadTrailer, MakeLog, MakeFails, FillLog, HeadLog, Recover, Discard,
     Share, Attach, Abandon, Publish, CommitFails, LastOne, MergeRead, MergeTruncate,
     MergeAppend, MergeFails, MergeUnlink, Detach, UnlockDb, Leave,
     FreeHeader, localVars
<1>1. db' \in {"absent", "foreign", "empty", "headed"}
  OBVIOUS
<1>2. flk' \in [Procs -> {"none", "sh", "ex"}]
  OBVIOUS
<1>3. pc' \in [Procs -> Places]
  BY DEF Places, Opening, Merging, AfterFault
<1>4. flags' \in [Procs -> Flags]
  <2>1. ASSUME NEW f \in OpenFlags, Open(p, f) PROVE flags' \in [Procs -> Flags]
    BY <2>1
  <2>2. CASE Leave(p)
    BY <2>2 DEF Flags, NoFlags
  <2>3. UNCHANGED flags \/ Leave(p) \/ \E f \in OpenFlags : Open(p, f)
    OBVIOUS
  <2> QED
    BY <2>1, <2>2, <2>3
<1>5. retry' \in [Procs -> BOOLEAN]
  OBVIOUS
<1> QED
  BY <1>1, <1>2, <1>3, <1>4, <1>5

\* The counters of the history stay within their bounds.
LEMMA CounterTypes ==
  ASSUME Types, NEW p \in Procs, Acts(p)
  PROVE  /\ made' \in 0..MaxLogs
         /\ opens' \in 0..MaxOpens
         /\ crashes' \in 0..MaxCrashes
         /\ foreign' \in BOOLEAN
<1> USE ConnectionAssumption
    DEF ConnectionAssumption, Types, Acts, Open, WriteData, Close, Crash, Step,
     DropLock, Header,
     Exclusive, ReadTrailer, MakeLog, MakeFails, FillLog, HeadLog, Recover, Discard,
     Share, Attach, Abandon, Publish, CommitFails, LastOne, MergeRead, MergeTruncate,
     MergeAppend, MergeFails, MergeUnlink, Detach, UnlockDb, Leave,
     FreeHeader, localVars, logVars, ghostVars
<1>1. made' = made \/ (made < MaxLogs /\ made' = made + 1)
  OBVIOUS
<1>2. opens' = opens \/ (opens < MaxOpens /\ opens' = opens + 1)
  OBVIOUS
<1>3. crashes' = crashes \/ (crashes < MaxCrashes /\ crashes' = crashes + 1)
  OBVIOUS
<1>4. foreign' \in BOOLEAN
  <2>1. foreign \in BOOLEAN
    OBVIOUS
  <2>2. UNCHANGED foreign \/ HeadLog(p)
    OBVIOUS
  <2> QED
    BY <2>1, <2>2
<1> QED
  BY <1>1, <1>2, <1>3, <1>4 DEF Types

\* The number of transactions that are being written.
Writers == {p \in Procs : pc[p] = "writing"}

\* A step that neither starts nor publishes a commit leaves room for as many.
LEMMA WritersStep ==
  ASSUME Types, CommitsLeft, NEW p \in Procs, Acts(p)
  PROVE  CommitsLeft' /\ commits' \in 0..MaxCommits
<1> USE ConnectionAssumption DEF ConnectionAssumption
<1>1. IsFiniteSet(Writers) /\ Cardinality(Writers) \in Nat
  BY FS_Subset, FS_CardinalityType DEF Writers
<1>2. commits \in Nat /\ commits + Cardinality(Writers) <= MaxCommits
  BY DEF Types, CommitsLeft, Writers
<1>3. CASE WriteData(p)
  <2>1. Writers' = Writers \cup {p} /\ commits' = commits
    BY <1>3 DEF WriteData, Writers, Goto, ghostVars, Types
  <2>2. commits + Cardinality(Writers) < MaxCommits
    BY <1>3 DEF WriteData, Writers
  <2>3. Cardinality(Writers \cup {p}) =
            IF p \in Writers THEN Cardinality(Writers) ELSE Cardinality(Writers) + 1
    BY <1>1, FS_AddElement
  <2>4. Cardinality(Writers') \in Nat /\ Cardinality(Writers') <= Cardinality(Writers) + 1
    BY <1>1, <2>1, <2>3
  <2> QED
    BY <1>1, <1>2, <2>1, <2>2, <2>4 DEF CommitsLeft, Writers
<1>4. CASE Publish(p)
  <2>1. p \in Writers /\ Writers' = Writers \ {p} /\ commits' = commits + 1
    BY <1>4 DEF Publish, Writers, Goto, Types
  <2>2. Cardinality(Writers') = Cardinality(Writers) - 1 /\ Cardinality(Writers') \in Nat
    BY <1>1, <2>1, FS_RemoveElement, FS_CardinalityType
  <2> QED
    BY <1>1, <1>2, <2>1, <2>2 DEF CommitsLeft, Writers
<1>5. CASE ~WriteData(p) /\ ~Publish(p)
  <2>1. commits' = commits
    BY <1>5 DEF Acts, Open, Close, Crash, Step, DropLock, Header,
     Exclusive, ReadTrailer, MakeLog, MakeFails, FillLog, HeadLog, Recover, Discard,
     Share, Attach, Abandon, CommitFails, LastOne, MergeRead, MergeTruncate,
     MergeAppend, MergeFails, MergeUnlink, Detach, UnlockDb, Leave,
     FreeHeader, ghostVars
  <2>2. Writers' \subseteq Writers
    BY <1>5 DEF Acts, Types, Writers, Goto, Open, Close, Crash, Step, DropLock, Header,
     Exclusive, ReadTrailer, MakeLog, MakeFails, FillLog, HeadLog, Recover, Discard,
     Share, Attach, Abandon, CommitFails, LastOne, MergeRead, MergeTruncate,
     MergeAppend, MergeFails, MergeUnlink, Detach, UnlockDb, Leave,
     FreeHeader, AfterFault
  <2>3. Cardinality(Writers') <= Cardinality(Writers) /\ Cardinality(Writers') \in Nat
    BY <1>1, <2>2, FS_Subset, FS_CardinalityType
  <2> QED
    BY <1>1, <1>2, <2>1, <2>3 DEF CommitsLeft, Writers
<1> QED
  BY <1>3, <1>4, <1>5

\* Whoever publishes has a number left for the transaction.
LEMMA PublishLeft ==
  ASSUME Types, CommitsLeft, NEW p \in Procs, pc[p] = "writing"
  PROVE  commits + 1 \in Txns
<1> USE ConnectionAssumption DEF ConnectionAssumption
<1>1. IsFiniteSet(Writers) /\ Cardinality(Writers) \in Nat /\ p \in Writers
  BY FS_Subset, FS_CardinalityType DEF Writers
<1>2. Cardinality(Writers) # 0
  BY <1>1, FS_EmptySet
<1>3. commits \in Nat /\ commits + Cardinality(Writers) <= MaxCommits
  BY DEF Types, CommitsLeft, Writers
<1> QED
  BY <1>1, <1>2, <1>3 DEF Txns

\* Writing the header or the entries of a log file, field by field.
LEMMA LogChanged ==
  ASSUME logs \in [LogFiles -> [valid : BOOLEAN, txns : SUBSET Entries]],
         NEW f \in LogFiles, NEW T \in SUBSET Entries
  PROVE  /\ [logs EXCEPT ![f].txns = T] \in [LogFiles -> [valid : BOOLEAN, txns : SUBSET Entries]]
         /\ [logs EXCEPT ![f].valid = TRUE] \in [LogFiles -> [valid : BOOLEAN, txns : SUBSET Entries]]
         /\ \A g \in LogFiles :
               /\ [logs EXCEPT ![f].txns = T][g] =
                    IF g = f THEN Log(logs[f].valid, T) ELSE logs[g]
               /\ [logs EXCEPT ![f].valid = TRUE][g] =
                    IF g = f THEN Log(TRUE, logs[f].txns) ELSE logs[g]
<1> DEFINE LogType == [valid : BOOLEAN, txns : SUBSET Entries]
<1>1. logs[f] \in LogType
  OBVIOUS
<1>2. [logs[f] EXCEPT !.txns = T] = Log(logs[f].valid, T)
  BY <1>1 DEF Log
<1>3. [logs[f] EXCEPT !.valid = TRUE] = Log(TRUE, logs[f].txns)
  <2>1. ASSUME NEW v \in BOOLEAN
        PROVE  [logs[f] EXCEPT !.valid = v] = Log(v, logs[f].txns)
    BY <1>1 DEF Log
  <2>2. TRUE \in BOOLEAN
    OBVIOUS
  <2> QED
    BY <2>1, <2>2, Zenon
<1>4. Log(logs[f].valid, T) \in LogType /\ Log(TRUE, logs[f].txns) \in LogType
  BY <1>1 DEF Log
<1>5. /\ [logs EXCEPT ![f].txns = T] = [logs EXCEPT ![f] = Log(logs[f].valid, T)]
      /\ [logs EXCEPT ![f].valid = TRUE] = [logs EXCEPT ![f] = Log(TRUE, logs[f].txns)]
  BY <1>2, <1>3
<1>6. ASSUME NEW v \in LogType
      PROVE  /\ [logs EXCEPT ![f] = v] \in [LogFiles -> LogType]
             /\ \A g \in LogFiles : [logs EXCEPT ![f] = v][g] = IF g = f THEN v ELSE logs[g]
  OBVIOUS
<1> HIDE DEF LogType
<1>7. /\ [logs EXCEPT ![f] = Log(logs[f].valid, T)] \in [LogFiles -> LogType]
      /\ [logs EXCEPT ![f] = Log(TRUE, logs[f].txns)] \in [LogFiles -> LogType]
  BY <1>4, <1>6
<1>8. ASSUME NEW g \in LogFiles
      PROVE  /\ [logs EXCEPT ![f] = Log(logs[f].valid, T)][g] =
                    IF g = f THEN Log(logs[f].valid, T) ELSE logs[g]
             /\ [logs EXCEPT ![f] = Log(TRUE, logs[f].txns)][g] =
                    IF g = f THEN Log(TRUE, logs[f].txns) ELSE logs[g]
  BY <1>4, <1>6
<1> QED
  BY <1>5, <1>7, <1>8 DEF LogType

\* The logs and what is read of them.
LEMMA LogTypes ==
  ASSUME Types, LogPlaces, CommitsLeft, NEW p \in Procs, Acts(p)
  PROVE  /\ trailer' \in [kind : {"none", "log", "garbage"}, txns : SUBSET Entries]
         /\ path' \in LogFiles \cup {NoLog}
         /\ logs' \in [LogFiles -> [valid : BOOLEAN, txns : SUBSET Entries]]
         /\ found' \in [Procs -> SUBSET Entries]
         /\ log' \in [Procs -> LogFiles \cup {NoLog}]
<1> USE ConnectionAssumption DEF ConnectionAssumption
<1>1. trailer' \in [kind : {"none", "log", "garbage"}, txns : SUBSET Entries]
  BY DEF Types, Acts, Open, WriteData, Close, Crash, Step, DropLock, Header,
     Exclusive, ReadTrailer, MakeLog, MakeFails, FillLog, HeadLog, Recover, Discard,
     Share, Attach, Abandon, Publish, CommitFails, LastOne, MergeRead, MergeTruncate,
     MergeAppend, MergeFails, MergeUnlink, Detach, UnlockDb, Leave,
     FreeHeader, Garbage, Trailer
<1>2. \/ UNCHANGED <<path, log>>
      \/ UNCHANGED log /\ path' = NoLog
      \/ made < MaxLogs /\ path' = made + 1 /\ log' = [log EXCEPT ![p] = made + 1]
      \/ log' = [log EXCEPT ![p] = path] /\ path' = path
      \/ log' = [log EXCEPT ![p] = NoLog] /\ path' \in {path, NoLog}
  BY DEF Types, Acts, Open, WriteData, Close, Crash, Step, DropLock, Header,
     Exclusive, ReadTrailer, MakeLog, MakeFails, FillLog, HeadLog, Recover, Discard,
     Share, Attach, Abandon, Publish, CommitFails, LastOne, MergeRead, MergeTruncate,
     MergeAppend, MergeFails, MergeUnlink, Detach, UnlockDb, Leave,
     FreeHeader, localVars, logVars
<1>3. path' \in LogFiles \cup {NoLog} /\ log' \in [Procs -> LogFiles \cup {NoLog}]
  <2>1. made < MaxLogs => made + 1 \in LogFiles
    BY DEF Types, LogFiles
  <2> QED
    BY <1>2, <2>1 DEF Types
<1>4. found' \in [Procs -> SUBSET Entries]
  <2>1. CASE ReadTrailer(p)
    <3>1. Contents(trailer) \subseteq SUBSET Entries
      BY DEF Contents, Entries, Types
    <3> QED
      BY <2>1, <3>1 DEF ReadTrailer, Types
  <2>2. CASE MergeRead(p)
    <3>1. log[p] \in LogFiles
      BY <2>2 DEF MergeRead, Types, LogPlaces, Merging
    <3> QED
      BY <2>2, <3>1 DEF MergeRead, Types
  <2>3. CASE ~ReadTrailer(p) /\ ~MergeRead(p)
    BY <2>3 DEF Types, Acts, Open, WriteData, Close, Crash, Step, DropLock, Header,
     Exclusive, MakeLog, MakeFails, FillLog, HeadLog, Recover, Discard,
     Share, Attach, Abandon, Publish, CommitFails, LastOne, MergeTruncate,
     MergeAppend, MergeFails, MergeUnlink, Detach, UnlockDb, Leave,
     FreeHeader, localVars
  <2> QED
    BY <2>1, <2>2, <2>3
<1>5. logs' \in [LogFiles -> [valid : BOOLEAN, txns : SUBSET Entries]]
  <2> DEFINE LogType == [valid : BOOLEAN, txns : SUBSET Entries]
  <2>1. CASE MakeLog(p)
    <3>1. NewLog(found[p]) \in LogType
      BY DEF NewLog, Log
    <3>2. UNCHANGED logs \/ logs' = [logs EXCEPT ![made + 1] = NewLog(found[p])]
      BY <2>1 DEF MakeLog, logVars
    <3> QED
      BY <3>1, <3>2 DEF Types
  <2>2. CASE FillLog(p)
    <3>1. log[p] \in LogFiles /\ found[p] \in SUBSET Entries
      BY <2>2 DEF FillLog, Types, LogPlaces
    <3> QED
      BY <2>2, <3>1, LogChanged DEF FillLog, Types
  <2>3. CASE HeadLog(p)
    <3>1. log[p] \in LogFiles
      BY <2>3 DEF HeadLog, Types, LogPlaces
    <3> QED
      BY <2>3, <3>1, LogChanged DEF HeadLog, Types
  <2>4. CASE Publish(p)
    <3>1. commits + 1 \in Txns
      BY <2>4, PublishLeft DEF Publish
    <3>2. log[p] \in LogFiles
      BY <2>4 DEF Publish, Types, LogPlaces
    <3>3. logs[log[p]].txns \cup {commits + 1} \in SUBSET Entries
      BY <3>1, <3>2 DEF Types, Entries
    <3>4. logs' = [logs EXCEPT ![log[p]].txns = logs[log[p]].txns \cup {commits + 1}]
      BY <2>4 DEF Publish
    <3> QED
      BY <3>2, <3>3, <3>4, LogChanged DEF Types
  <2>5. CASE ~MakeLog(p) /\ ~FillLog(p) /\ ~HeadLog(p) /\ ~Publish(p)
    BY <2>5 DEF Types, Acts, Open, WriteData, Close, Crash, Step, DropLock, Header,
     Exclusive, ReadTrailer, MakeFails, Recover, Discard,
     Share, Attach, Abandon, CommitFails, LastOne, MergeRead, MergeTruncate,
     MergeAppend, MergeFails, MergeUnlink, Detach, UnlockDb, Leave,
     FreeHeader, logVars
  <2> QED
    BY <2>1, <2>2, <2>3, <2>4, <2>5
<1> QED
  BY <1>1, <1>3, <1>4, <1>5

\* No path through logdb_open and logdb_close leaks a log or uses one that is
\* not open.
LEMMA LogPlacesStep ==
  ASSUME Types, LogPlaces, path <= made, FlockPlaces, NEW p \in Procs, Acts(p)
  PROVE  LogPlaces' /\ path' <= made'
<1> USE ConnectionAssumption DEF ConnectionAssumption
<1>1. LogPlaces'
  <2> SUFFICES ASSUME NEW q \in Procs
               PROVE  /\ pc'[q] \in Merging \cup {"fill", "head", "open", "writing", "closing", "detach"}
                            => log'[q] # NoLog
                      /\ pc'[q] \in (Opening \ {"fill", "head", "share"}) \cup {"closed", "failed", "unlock"}
                            => log'[q] = NoLog
    BY DEF LogPlaces
  <2>1. CASE q # p
    BY <2>1, OnlyMoves DEF LogPlaces
  <2>2. CASE q = p
    <3>1. made + 1 # NoLog
      BY DEF Types, NoLog
    <3> QED
      BY <2>2, <3>1 DEF Types, LogPlaces, FlockPlaces, Opening, Merging,
         Acts, Goto, Open, WriteData, Close, Crash, Step, DropLock, Header,
         Exclusive, ReadTrailer, MakeLog, MakeFails, FillLog, HeadLog, Recover, Discard,
         Share, Attach, Abandon, Publish, CommitFails, LastOne, MergeRead, MergeTruncate,
         MergeAppend, MergeFails, MergeUnlink, Detach, UnlockDb, Leave,
     FreeHeader, localVars, logVars,
         AfterFault, LogOpens
  <2> QED
    BY <2>1, <2>2
<1>2. \/ path' = path /\ made' = made
      \/ path' = NoLog /\ made' = made
      \/ path' = made + 1 /\ made' = made + 1
  BY DEF Acts, Open, WriteData, Close, Crash, Step, DropLock, Header,
     Exclusive, ReadTrailer, MakeLog, MakeFails, FillLog, HeadLog, Recover, Discard,
     Share, Attach, Abandon, Publish, CommitFails, LastOne, MergeRead, MergeTruncate,
     MergeAppend, MergeFails, MergeUnlink, Detach, UnlockDb, Leave,
     FreeHeader, logVars
<1>3. path' <= made'
  BY <1>2 DEF Types, NoLog
<1> QED
  BY <1>1, <1>3

\* A lock is granted where no other process has one that excludes it, and a
\* process is only where it needs a lock with the lock.
LEMMA FlockStep ==
  ASSUME Types, LogPlaces, FlockExcludes, FlockPlaces, NEW p \in Procs, Acts(p)
  PROVE  FlockExcludes' /\ FlockPlaces'
<1>1. FlockExcludes'
  <2>1. \/ flk'[p] = flk[p]
        \/ flk'[p] = "none"
        \/ flk'[p] = "ex" /\ ExclusiveFree(p)
        \/ flk'[p] = "sh" /\ SharedFree(p)
    BY DEF Types, Acts, Open, WriteData, Close, Crash, Step, DropLock, Header,
     Exclusive, ReadTrailer, MakeLog, MakeFails, FillLog, HeadLog, Recover, Discard,
     Share, Attach, Abandon, Publish, CommitFails, LastOne, MergeRead, MergeTruncate,
     MergeAppend, MergeFails, MergeUnlink, Detach, UnlockDb, Leave,
     FreeHeader, IsLast
  <2>2. \A q \in Procs \ {p} : flk'[q] = flk[q]
    BY OnlyMoves
  <2> QED
    BY <2>1, <2>2 DEF FlockExcludes, ExclusiveFree, SharedFree, Types
<1>2. FlockPlaces'
  <2> SUFFICES ASSUME NEW q \in Procs
               PROVE  /\ pc'[q] \in Exclusives => flk'[q] = "ex"
                      /\ pc'[q] = "share" /\ flags'[q].nosync => flk'[q] = "ex" /\ log'[q] # NoLog
                      /\ pc'[q] = "attach" => flk'[q] = "sh" /\ ~flags'[q].nosync
                      /\ pc'[q] \in {"open", "writing"} =>
                            flk'[q] = IF flags'[q].nosync THEN "ex" ELSE "sh"
    BY DEF FlockPlaces
  <2>1. CASE q # p
    BY <2>1, OnlyMoves DEF FlockPlaces
  <2>2. CASE q = p
      BY <2>2 DEF Types, LogPlaces, FlockPlaces, Exclusives, Merging,
         Acts, Goto, Open, WriteData, Close, Crash, Step, DropLock, Header,
         Exclusive, ReadTrailer, MakeLog, MakeFails, FillLog, HeadLog, Recover, Discard,
         Share, Attach, Abandon, Publish, CommitFails, LastOne, MergeRead, MergeTruncate,
         MergeAppend, MergeFails, MergeUnlink, Detach, UnlockDb, Leave,
     FreeHeader, localVars, logVars,
         AfterFault, LogOpens, Converts, KeepsExclusive, TriesLeft
  <2> QED
    BY <2>1, <2>2
<1> QED
  BY <1>1, <1>2

\* Every step preserves the invariant of the locks.
LEMMA LocksStepInv == LocksInv /\ [Next]_vars => LocksInv'
<1> SUFFICES ASSUME LocksInv, [Next]_vars PROVE LocksInv'
  OBVIOUS
<1>1. Types /\ LogPlaces /\ path <= made /\ FlockExcludes /\ FlockPlaces /\ CommitsLeft
  BY TypeParts DEF LocksInv
<1>2. CASE UNCHANGED vars
  BY <1>1, <1>2 DEF vars, logVars, localVars, ghostVars, LocksInv, ConnectionTypeOK,
     FlockExcludes, FlockPlaces, CommitsLeft
<1>3. CASE Next
  <2>1. PICK p \in Procs : Acts(p)
    BY <1>3 DEF Next, Acts
  <2>2. Types'
    <3>1. /\ db' \in {"absent", "foreign", "empty", "headed"}
          /\ flk' \in [Procs -> {"none", "sh", "ex"}]
          /\ pc' \in [Procs -> Places]
          /\ flags' \in [Procs -> Flags]
          /\ retry' \in [Procs -> BOOLEAN]
      BY <1>1, <2>1, ProcTypes
    <3>2. /\ made' \in 0..MaxLogs /\ opens' \in 0..MaxOpens /\ crashes' \in 0..MaxCrashes
          /\ foreign' \in BOOLEAN
      BY <1>1, <2>1, CounterTypes
    <3>3. commits' \in 0..MaxCommits
      BY <1>1, <2>1, WritersStep
    <3>4. /\ trailer' \in [kind : {"none", "log", "garbage"}, txns : SUBSET Entries]
          /\ path' \in LogFiles \cup {NoLog}
          /\ logs' \in [LogFiles -> [valid : BOOLEAN, txns : SUBSET Entries]]
          /\ found' \in [Procs -> SUBSET Entries]
          /\ log' \in [Procs -> LogFiles \cup {NoLog}]
      BY <1>1, <2>1, LogTypes
    <3> QED
      BY <3>1, <3>2, <3>3, <3>4, Zenon DEF Types
  <2>3. LogPlaces' /\ path' <= made'
    BY <1>1, <2>1, LogPlacesStep
  <2>4. FlockExcludes' /\ FlockPlaces'
    BY <1>1, <2>1, FlockStep
  <2>5. CommitsLeft'
    BY <1>1, <2>1, WritersStep
  <2>6. ConnectionTypeOK'
    BY <2>2, <2>3, Zenon DEF ConnectionTypeOK, Types, LogPlaces
  <2> QED
    BY <2>3, <2>4, <2>5, <2>6 DEF LocksInv
<1> QED
  BY <1>2, <1>3
-----------------------------------------------------------------------------
(***************************************************************************)
(* What the locks promise.                                                 *)
(***************************************************************************)

\* The invariant of the locks holds in every reachable state.
LEMMA LocksAlways == Spec => []LocksInv
  BY LocksInitInv, LocksStepInv, PTL DEF Spec

\* Types are kept, and logdb_open and logdb_close have the log open exactly
\* where they use it, on every path through them and with both kinds of flock.
THEOREM ConnectionTypesCorrect == Spec => []ConnectionTypeOK
<1>1. LocksInv => ConnectionTypeOK
  BY DEF LocksInv
<1> QED
  BY <1>1, LocksAlways, PTL

\* A NOSYNC connection, which keeps the exclusive lock of logdb_open, has the
\* database to itself, however many processes open, close and die: even a
\* flock that first drops the lock it converts does not matter to it.
THEOREM NoSyncExcludes == Spec => []NoSyncAlone
<1>1. LocksInv => NoSyncAlone
  <2> SUFFICES ASSUME LocksInv, NEW p \in Procs, NEW q \in Procs, p # q,
                      pc[p] \in {"open", "writing"}, flags[p].nosync
               PROVE  pc[q] \notin {"open", "writing"} \cup Merging
    BY DEF NoSyncAlone
  <2>1. flk[p] = "ex"
    BY DEF LocksInv, FlockPlaces
  <2>2. flk[q] = "none"
    BY <2>1 DEF LocksInv, FlockExcludes
  <2> QED
    BY <2>2 DEF LocksInv, FlockPlaces, Exclusives, Merging
<1> QED
  BY <1>1, LocksAlways, PTL

\* The path of the log changes by a step of a process with the exclusive lock.
LEMMA PathChanges ==
  ASSUME NEW p \in Procs, Acts(p), path' # path
  PROVE  pc[p] \in {"make", "fill", "head", "discard", "unlink"}
  BY DEF Acts, Open, WriteData, Close, Crash, Step, DropLock, Header,
     Exclusive, ReadTrailer, MakeLog, MakeFails, FillLog, HeadLog, Recover, Discard,
     Share, Attach, Abandon, Publish, CommitFails, LastOne, MergeRead, MergeTruncate,
     MergeAppend, MergeFails, MergeUnlink, Detach, UnlockDb, Leave,
     FreeHeader, logVars

\* The log file is not replaced or unlinked while a process that attached to
\* it with the shared lock uses it: logdb_log_create, its error path, the
\* deletion of a corrupt log and the merge all have the exclusive lock.
THEOREM LogStaysInUse == Spec => LogStays
<1>1. ASSUME LocksInv, [Next]_vars
      PROVE  [\A p \in Procs :
                Attached(p) /\ log[p] = path /\ Attached(p)' => path' = path]_vars
  <2> SUFFICES ASSUME Next, NEW p \in Procs, Attached(p), path' # path PROVE FALSE
    BY <1>1
  <2>1. PICK q \in Procs : Acts(q)
    BY DEF Next, Acts
  <2>2. pc[q] \in Exclusives
    BY <2>1, PathChanges DEF Exclusives, Merging
  <2>3. flk[q] = "ex" /\ q # p
    BY <1>1, <2>2 DEF LocksInv, FlockPlaces, Attached, Exclusives, Merging
  <2> QED
    BY <1>1, <2>3 DEF LocksInv, FlockExcludes, Attached
<1> QED
  BY <1>1, LocksAlways, PTL DEF Spec, LogStays
-----------------------------------------------------------------------------
(***************************************************************************)
(* One log, which loses nothing.  From here on a lock is converted in one  *)
(* step.                                                                   *)
(***************************************************************************)

\* The invariant of the log holds at the start.
LEMMA LogInitInv == Init => LogInv
<1> SUFFICES ASSUME Init PROVE LogInv
  OBVIOUS
<1>1. LockKept /\ OneLog /\ NewLogs
  BY DEF Init, LockKept, OneLog, NewLogs, Uses, Merging
<1>2. FoundCurrent
  BY DEF Init, FoundCurrent
<1>3. ~LogOpens
  BY DEF Init, LogOpens
<1>4. VisibleExact
  <2>1. trailer.txns = {} /\ commits = 0
    BY DEF Init, NoTrailer, Garbage
  <2> QED
    BY <1>3, <2>1 DEF VisibleExact, Published, Visible
<1>5. TrailerGuarded /\ GarbageBlank
  <2>1. CASE db = "absent"
    BY <2>1 DEF TrailerGuarded, GarbageBlank, Init, NoTrailer
  <2>2. CASE db = "foreign"
    <3>1. foreign
      BY <2>2 DEF Init
    <3>2. GarbageBlank
      BY <2>2 DEF GarbageBlank, Init, NoTrailer, Garbage
    <3> QED
      BY <3>1, <3>2 DEF TrailerGuarded
  <2> QED
    BY <2>1, <2>2 DEF Init
<1> QED
  BY <1>1, <1>2, <1>4, <1>5 DEF LogInv

\* Where p is when it changes the files.
LEMMA FileChanges ==
  ASSUME NEW p \in Procs, Acts(p)
  PROVE  \/ UNCHANGED <<path, logs, trailer, commits, foreign>>
         \/ pc[p] \in {"make", "fill", "head", "discard", "open", "writing",
                       "truncate", "append", "unlink"}
  BY DEF Acts, Open, WriteData, Close, Crash, Step, DropLock, Header,
     Exclusive, ReadTrailer, MakeLog, MakeFails, FillLog, HeadLog, Recover, Discard,
     Share, Attach, Abandon, Publish, CommitFails, LastOne, MergeRead, MergeTruncate,
     MergeAppend, MergeFails, MergeUnlink, Detach, UnlockDb, Leave,
     FreeHeader, logVars, ghostVars

\* While a process has the exclusive lock no other one changes the files.
LEMMA ExclusiveFreezes ==
  ASSUME LocksInv, NEW p \in Procs, Acts(p), NEW q \in Procs \ {p}, flk[q] = "ex"
  PROVE  UNCHANGED <<path, logs, trailer, commits, foreign>>
<1>1. flk[p] = "none"
  BY DEF LocksInv, FlockExcludes
<1>2. pc[p] \notin {"make", "fill", "head", "discard", "open", "writing",
                    "truncate", "append", "unlink"}
  BY <1>1 DEF LocksInv, FlockPlaces, Exclusives, Merging
<1> QED
  BY <1>2, FileChanges

\* A lock is kept while the log is in use.
LEMMA LockKeptStep ==
  ASSUME AtomicConversion, LocksInv, LogInv, NEW p \in Procs, Acts(p)
  PROVE  LockKept'
<1>1. Types /\ LogPlaces /\ FlockPlaces /\ LockKept
  BY TypeParts DEF LocksInv, LogInv
<1> SUFFICES ASSUME NEW q \in Procs
             PROVE  /\ Uses(q)' => flk'[q] # "none"
                    /\ pc'[q] = "share" /\ log'[q] # NoLog => flk'[q] = "ex"
  BY DEF LockKept
<1>2. CASE q # p
  BY <1>1, <1>2, OnlyMoves DEF LockKept, Uses
<1>3. CASE q = p
  BY <1>1, <1>3 DEF Types, LogPlaces, FlockPlaces, LockKept, Uses, Exclusives, Merging,
     Opening,
         Acts, Goto, Open, WriteData, Close, Crash, Step, DropLock, Header,
         Exclusive, ReadTrailer, MakeLog, MakeFails, FillLog, HeadLog, Recover, Discard,
         Share, Attach, Abandon, Publish, CommitFails, LastOne, MergeRead, MergeTruncate,
         MergeAppend, MergeFails, MergeUnlink, Detach, UnlockDb, Leave,
     FreeHeader, localVars, logVars,
         AfterFault, LogOpens
<1> QED
  BY <1>2, <1>3

\* What a step may do to the log that counts: nothing, or one more transaction;
\* or a log made of bytes that are no log begins to count.
Keeps ==
    /\ TrailerGuarded'
    /\ LogOpens /\ path' = path => LogOpens'
    /\ \/ Published' = Published /\ commits' = commits
       \/ Published' = Published \cup {commits + 1} /\ commits' = commits + 1

\* Every step that changes a file keeps the log that counts.  A log is made
\* and deleted while the one at the end of the database counts, and unlinked
\* when the two are the same.
LEMMA FilesStep ==
  ASSUME LocksInv, LogInv, NEW p \in Procs, Acts(p)
  PROVE  Keeps
<1>1. Types /\ LogPlaces
  BY TypeParts DEF LocksInv
<1>2. OneLog /\ NewLogs /\ FoundCurrent /\ TrailerGuarded /\ GarbageBlank
  BY DEF LogInv
<1>3. CASE UNCHANGED <<path, logs, trailer, commits, foreign>>
  BY <1>2, <1>3 DEF Keeps, TrailerGuarded, LogOpens, Published, Visible
<1>4. CASE MakeLog(p) /\ path = NoLog
  <2>1. ~LogOpens
    BY <1>4 DEF LogOpens
  <2>2. path' = made + 1 /\ made + 1 \in LogFiles /\ UNCHANGED <<trailer, commits, foreign>>
    BY <1>1, <1>4, ConnectionAssumption
       DEF MakeLog, Types, LogFiles, ghostVars, ConnectionAssumption
  <2>3. logs'[made + 1].valid = FALSE
    BY <1>1, <1>4, <2>2 DEF MakeLog, Types, NewLog, Log
  <2>4. ~LogOpens'
    BY <2>2, <2>3 DEF LogOpens
  <2> QED
    BY <1>2, <2>1, <2>2, <2>4 DEF Keeps, TrailerGuarded, Published, Visible
<1>5. CASE MakeFails(p) \/ Discard(p)
  <2>1. ~LogOpens
    BY <1>2, <1>5 DEF MakeFails, Discard, NewLogs
  <2>2. path' \in {NoLog, path} /\ logs' = logs /\ UNCHANGED <<trailer, commits, foreign>>
    BY <1>5 DEF MakeFails, Discard, ghostVars
  <2>3. ~LogOpens'
    BY <2>1, <2>2 DEF LogOpens
  <2> QED
    BY <1>2, <2>1, <2>2, <2>3 DEF Keeps, TrailerGuarded, Published, Visible
<1>6. CASE FillLog(p)
  <2>1. ~LogOpens /\ log[p] = path /\ path \in LogFiles /\ ~logs[path].valid
    BY <1>1, <1>2, <1>6 DEF FillLog, NewLogs, LogPlaces, Types, LogOpens
  <2>2. found[p] \in SUBSET Entries /\ logs' = [logs EXCEPT ![path].txns = found[p]]
    BY <1>1, <1>6, <2>1 DEF FillLog, Types
  <2>3. logs'[path] = Log(logs[path].valid, found[p])
    BY <1>1, <2>1, <2>2, LogChanged DEF Types
  <2>4. path' = path /\ UNCHANGED <<trailer, commits, foreign>>
    BY <1>6 DEF FillLog, ghostVars
  <2>5. ~LogOpens'
    BY <2>1, <2>3, <2>4 DEF LogOpens, Log
  <2> QED
    BY <1>2, <2>1, <2>4, <2>5 DEF Keeps, TrailerGuarded, Published, Visible
<1>7. CASE HeadLog(p)
  <2>1. /\ ~LogOpens /\ log[p] = path /\ path \in LogFiles
        /\ logs[path].txns \in Contents(trailer)
    BY <1>1, <1>2, <1>7 DEF HeadLog, NewLogs, LogPlaces, Types, FoundCurrent
  <2>2. logs'[path] = Log(TRUE, logs[path].txns)
    BY <1>1, <1>7, <2>1, LogChanged DEF HeadLog, Types
  <2>3. path' = path /\ trailer' = trailer /\ commits' = commits
    BY <1>7 DEF HeadLog, ghostVars
  <2>4. LogOpens' /\ Visible' = logs[path].txns
    BY <2>1, <2>2, <2>3 DEF LogOpens, Log, Visible, NoLog, LogFiles
  <2>5. logs[path].txns \ {Junk} = trailer.txns \ {Junk}
    BY <1>2, <2>1 DEF Contents, GarbageBlank
  <2> QED
    BY <2>1, <2>3, <2>4, <2>5 DEF Keeps, TrailerGuarded, Published, Visible
<1>8. CASE WriteData(p) \/ MergeTruncate(p) \/ MergeAppend(p)
  <2>1. LogOpens
    BY <1>2, <1>8 DEF WriteData, MergeTruncate, MergeAppend, OneLog, Uses, Merging
  <2>2. path' = path /\ logs' = logs /\ commits' = commits /\ foreign' = foreign
    BY <1>8 DEF WriteData, MergeTruncate, MergeAppend, logVars, ghostVars
  <2>3. LogOpens' /\ Visible' = Visible
    BY <2>1, <2>2 DEF LogOpens, Visible
  <2> QED
    BY <2>2, <2>3 DEF Keeps, TrailerGuarded, Published
<1>9. CASE Publish(p)
  <2>1. LogOpens /\ log[p] = path /\ path \in LogFiles
    BY <1>1, <1>2, <1>9 DEF Publish, OneLog, Uses, Types, LogOpens
  <2>2. commits + 1 \in Txns
    BY <1>1, <1>9, PublishLeft DEF Publish, LocksInv
  <2>3. logs[path].txns \cup {commits + 1} \in SUBSET Entries
    BY <1>1, <2>1, <2>2 DEF Types, Entries
  <2>4. logs' = [logs EXCEPT ![path].txns = logs[path].txns \cup {commits + 1}]
    BY <1>9, <2>1 DEF Publish
  <2>5. logs'[path] = Log(logs[path].valid, logs[path].txns \cup {commits + 1})
    BY <1>1, <2>1, <2>3, <2>4, LogChanged DEF Types
  <2>6. path' = path /\ commits' = commits + 1 /\ foreign' = foreign
    BY <1>9 DEF Publish
  <2>7. LogOpens' /\ Visible' = Visible \cup {commits + 1}
    BY <2>1, <2>5, <2>6 DEF LogOpens, Visible, Log
  <2>8. commits + 1 # Junk
    BY <2>2 DEF Txns, Junk
  <2> QED
    BY <2>6, <2>7, <2>8 DEF Keeps, TrailerGuarded, Published
<1>10. CASE MergeUnlink(p)
  <2>1. LogOpens /\ log[p] = path /\ trailer = Trailer(logs[path].txns)
    BY <1>2, <1>10 DEF MergeUnlink, OneLog, Uses, Merging, FoundCurrent
  <2>2. /\ logs' = logs /\ trailer' = trailer /\ commits' = commits
        /\ foreign' = foreign /\ path' \in {NoLog, path}
    BY <1>10 DEF MergeUnlink, ghostVars
  <2>3. trailer.kind = "log" /\ trailer.txns = logs[path].txns
    BY <2>1 DEF Trailer
  <2>4. Visible' = Visible /\ (path' = path => LogOpens')
    BY <2>1, <2>2, <2>3 DEF LogOpens, Visible
  <2> QED
    BY <2>2, <2>3, <2>4 DEF Keeps, TrailerGuarded, Published
<1> QED
  BY <1>3, <1>4, <1>5, <1>6, <1>7, <1>8, <1>9, <1>10
     DEF Acts, Open, WriteData, Close, Crash, Step, DropLock, Header,
     Exclusive, ReadTrailer, MakeLog, MakeFails, FillLog, HeadLog, Recover, Discard,
     Share, Attach, Abandon, Publish, CommitFails, LastOne, MergeRead, MergeTruncate,
     MergeAppend, MergeFails, MergeUnlink, Detach, UnlockDb, Leave,
     FreeHeader, logVars, ghostVars

\* No step takes the log away from a process that uses it, or gives it another.
LEMMA OneLogStep ==
  ASSUME LocksInv, LogInv, NEW p \in Procs, Acts(p)
  PROVE  OneLog'
<1>1. Types /\ LogPlaces /\ OneLog /\ NewLogs
  BY TypeParts DEF LocksInv, LogInv
<1>2. Keeps
  BY FilesStep
<1> SUFFICES ASSUME NEW q \in Procs, Uses(q)'
             PROVE  LogOpens' /\ log'[q] = path'
  BY DEF OneLog
<1>3. CASE q # p
  <2>1. Uses(q) /\ log'[q] = log[q]
    BY <1>1, <1>3, OnlyMoves DEF Uses
  <2>2. LogOpens /\ log[q] = path /\ flk[q] # "none"
    BY <2>1 DEF LogInv, OneLog, LockKept
  <2>3. path' = path
    <3>1. SUFFICES ASSUME path' # path PROVE FALSE
      OBVIOUS
    <3>2. flk[p] = "ex"
      BY <3>1, PathChanges DEF LocksInv, FlockPlaces, Exclusives, Merging
    <3> QED
      BY <1>3, <2>2, <3>2 DEF LocksInv, FlockExcludes
  <2> QED
    BY <1>2, <2>1, <2>2, <2>3 DEF Keeps
<1>4. CASE q = p /\ HeadLog(p)
  <2>1. log[p] = path /\ path \in LogFiles
    BY <1>1, <1>4 DEF HeadLog, NewLogs, LogPlaces, Types
  <2>2. logs'[path] = Log(TRUE, logs[path].txns)
    <3>1. logs[path].txns \in SUBSET Entries
      BY <1>1, <2>1 DEF Types
    <3> QED
      BY <1>1, <1>4, <2>1, <3>1, LogChanged DEF HeadLog, Types
  <2>3. path' = path /\ log' = log
    BY <1>4 DEF HeadLog, localVars
  <2> QED
    BY <1>4, <2>1, <2>2, <2>3 DEF LogOpens, Log, NoLog, LogFiles
<1>5. CASE q = p /\ ~HeadLog(p)
  <2>1. LogOpens /\ path' = path /\ log'[p] = path
    BY <1>1, <1>5 DEF Types, LogPlaces, OneLog, Uses, Merging, Opening,
         Acts, Goto, Open, WriteData, Close, Crash, Step, DropLock, Header,
         Exclusive, ReadTrailer, MakeLog, MakeFails, FillLog, Recover, Discard,
         Share, Attach, Abandon, Publish, CommitFails, LastOne, MergeRead, MergeTruncate,
         MergeAppend, MergeFails, MergeUnlink, Detach, UnlockDb, Leave,
     FreeHeader, localVars, logVars,
         AfterFault
  <2> QED
    BY <1>2, <1>5, <2>1 DEF Keeps
<1> QED
  BY <1>3, <1>4, <1>5

\* What is known of a log that is being made or is to be deleted.
LEMMA NewLogsStep ==
  ASSUME LocksInv, LogInv, NEW p \in Procs, Acts(p)
  PROVE  NewLogs'
<1>1. Types /\ LogPlaces /\ NewLogs
  BY TypeParts DEF LocksInv, LogInv
<1> SUFFICES ASSUME NEW q \in Procs
             PROVE  /\ pc'[q] \in {"fill", "head"} => log'[q] = path' /\ ~LogOpens'
                    /\ pc'[q] = "discard" => ~LogOpens'
  BY DEF NewLogs
<1>2. CASE q # p /\ pc'[q] \in {"fill", "head", "discard"}
  <2>1. pc[q] = pc'[q] /\ log'[q] = log[q]
    BY <1>1, <1>2, OnlyMoves
  <2>2. flk[q] = "ex"
    BY <1>2, <2>1 DEF LocksInv, FlockPlaces, Exclusives
  <2>3. path' = path /\ logs' = logs
    BY <1>2, <2>2, ExclusiveFreezes
  <2> QED
    BY <1>1, <2>1, <2>3 DEF NewLogs, LogOpens
<1>3. CASE q = p /\ pc'[p] = "fill"
  <2>1. MakeLog(p) /\ path = NoLog
    BY <1>1, <1>3 DEF Types,
         Acts, Goto, Open, WriteData, Close, Crash, Step, DropLock, Header,
         Exclusive, ReadTrailer, MakeLog, MakeFails, FillLog, HeadLog, Recover, Discard,
         Share, Attach, Abandon, Publish, CommitFails, LastOne, MergeRead, MergeTruncate,
         MergeAppend, MergeFails, MergeUnlink, Detach, UnlockDb, Leave,
     FreeHeader, AfterFault, Converts
  <2>2. path' = made + 1 /\ log'[p] = made + 1 /\ made + 1 \in LogFiles
    BY <1>1, <2>1, ConnectionAssumption
       DEF MakeLog, Types, LogFiles, ConnectionAssumption
  <2>3. logs'[made + 1].valid = FALSE
    BY <1>1, <2>1, <2>2 DEF MakeLog, Types, NewLog, Log
  <2> QED
    BY <1>3, <2>2, <2>3 DEF LogOpens
<1>4. CASE q = p /\ pc'[p] = "head"
  <2>1. FillLog(p)
    BY <1>1, <1>4 DEF Types,
         Acts, Goto, Open, WriteData, Close, Crash, Step, DropLock, Header,
         Exclusive, ReadTrailer, MakeLog, MakeFails, FillLog, HeadLog, Recover, Discard,
         Share, Attach, Abandon, Publish, CommitFails, LastOne, MergeRead, MergeTruncate,
         MergeAppend, MergeFails, MergeUnlink, Detach, UnlockDb, Leave,
     FreeHeader, AfterFault, Converts
  <2>2. log[p] = path /\ path \in LogFiles /\ ~logs[path].valid
    BY <1>1, <2>1 DEF FillLog, NewLogs, LogPlaces, Types, LogOpens
  <2>3. logs'[path] = Log(logs[path].valid, found[p])
    BY <1>1, <2>1, <2>2, LogChanged DEF FillLog, Types
  <2>4. path' = path /\ log' = log
    BY <2>1 DEF FillLog, localVars
  <2> QED
    BY <1>4, <2>2, <2>3, <2>4 DEF LogOpens, Log
<1>5. CASE q = p /\ pc'[p] = "discard"
  <2>1. ~LogOpens /\ path' = path /\ logs' = logs
    BY <1>1, <1>5 DEF Types,
         Acts, Goto, Open, WriteData, Close, Crash, Step, DropLock, Header,
         Exclusive, ReadTrailer, MakeLog, MakeFails, FillLog, HeadLog, Recover, Discard,
         Share, Attach, Abandon, Publish, CommitFails, LastOne, MergeRead, MergeTruncate,
         MergeAppend, MergeFails, MergeUnlink, Detach, UnlockDb, Leave,
     FreeHeader, AfterFault, Converts,
         logVars
  <2> QED
    BY <1>5, <2>1 DEF LogOpens
<1> QED
  BY <1>2, <1>3, <1>4, <1>5

\* What a process has read stays what the log has, as long as it relies on it.
LEMMA FoundStep ==
  ASSUME LocksInv, LogInv, NEW p \in Procs, Acts(p)
  PROVE  FoundCurrent'
<1>1. Types /\ LogPlaces /\ FoundCurrent
  BY TypeParts DEF LocksInv, LogInv
<1> DEFINE Reading == {"make", "fill", "head", "truncate", "append", "unlink"}
<1> SUFFICES ASSUME NEW q \in Procs, pc'[q] \in Reading
      PROVE  /\ pc'[q] \in {"make", "fill", "head"} => found'[q] \in Contents(trailer')
             /\ pc'[q] = "head" => logs'[log'[q]].txns = found'[q]
             /\ pc'[q] \in {"truncate", "append", "unlink"} => found'[q] = logs'[log'[q]].txns
             /\ pc'[q] = "unlink" => trailer' = Trailer(found'[q])
  BY DEF FoundCurrent
<1>2. CASE q # p
  <2>1. pc[q] = pc'[q] /\ log'[q] = log[q] /\ found'[q] = found[q]
    BY <1>1, <1>2, OnlyMoves
  <2>2. flk[q] = "ex"
    BY <2>1 DEF LocksInv, FlockPlaces, Exclusives, Merging
  <2>3. UNCHANGED <<path, logs, trailer>>
    BY <1>2, <2>2, ExclusiveFreezes
  <2> QED
    BY <1>1, <2>1, <2>3 DEF FoundCurrent
<1>3. CASE q = p
  <2>1. \/ ReadTrailer(p) \/ MakeLog(p) \/ FillLog(p)
        \/ MergeRead(p) \/ MergeTruncate(p) \/ MergeAppend(p)
    BY <1>1, <1>3 DEF Types,
         Acts, Goto, Open, WriteData, Close, Crash, Step, DropLock, Header,
         Exclusive, ReadTrailer, MakeLog, MakeFails, FillLog, HeadLog, Recover, Discard,
         Share, Attach, Abandon, Publish, CommitFails, LastOne, MergeRead, MergeTruncate,
         MergeAppend, MergeFails, MergeUnlink, Detach, UnlockDb, Leave,
     FreeHeader, AfterFault, Converts
  <2>2. CASE ReadTrailer(p)
    BY <1>1, <1>3, <2>2 DEF ReadTrailer, Goto, Types
  <2>3. CASE MakeLog(p)
    BY <1>1, <1>3, <2>3 DEF MakeLog, Goto, Types, FoundCurrent
  <2>4. CASE FillLog(p)
    <3>1. log[p] \in LogFiles /\ pc'[p] = "head" /\ found[p] \in Contents(trailer)
      BY <1>1, <2>4 DEF FillLog, LogPlaces, Types, Goto, FoundCurrent
    <3>2. logs'[log[p]] = Log(logs[log[p]].valid, found[p])
      BY <1>1, <2>4, <3>1, LogChanged DEF FillLog, Types
    <3>3. log' = log /\ found' = found /\ trailer' = trailer
      BY <2>4 DEF FillLog, localVars
    <3> QED
      BY <1>3, <3>1, <3>2, <3>3 DEF Log
  <2>5. CASE MergeRead(p)
    BY <1>1, <1>3, <2>5 DEF MergeRead, Goto, Types, logVars
  <2>6. CASE MergeTruncate(p)
    BY <1>1, <1>3, <2>6 DEF MergeTruncate, Goto, Types, logVars, localVars, FoundCurrent
  <2>7. CASE MergeAppend(p)
    BY <1>1, <1>3, <2>7 DEF MergeAppend, Goto, Types, logVars, localVars, FoundCurrent
  <2> QED
    BY <2>1, <2>2, <2>3, <2>4, <2>5, <2>6, <2>7
<1> QED
  BY <1>2, <1>3

\* Only logs are read as logs.
LEMMA GarbageStep ==
  ASSUME GarbageBlank, NEW p \in Procs, Acts(p)
  PROVE  GarbageBlank'
<1>1. trailer' = trailer \/ trailer' = Garbage \/ trailer' = Trailer(found[p])
  BY DEF Acts, Open, WriteData, Close, Crash, Step, DropLock, Header,
     Exclusive, ReadTrailer, MakeLog, MakeFails, FillLog, HeadLog, Recover, Discard,
     Share, Attach, Abandon, Publish, CommitFails, LastOne, MergeRead, MergeTruncate,
     MergeAppend, MergeFails, MergeUnlink, Detach, UnlockDb
<1> QED
  BY <1>1 DEF GarbageBlank, Garbage, Trailer

\* Every step preserves the invariant of the log.
LEMMA LogStepInv ==
  ASSUME AtomicConversion
  PROVE  LocksInv /\ LogInv /\ [Next]_vars => LogInv'
<1> SUFFICES ASSUME LocksInv, LogInv, [Next]_vars PROVE LogInv'
  OBVIOUS
<1>1. CASE UNCHANGED vars
  BY <1>1 DEF vars, logVars, localVars, ghostVars, LogInv, LockKept, OneLog, NewLogs,
     FoundCurrent, VisibleExact, GarbageBlank, TrailerGuarded, Uses, LogOpens,
     Published, Visible
<1>2. CASE Next
  <2>1. PICK p \in Procs : Acts(p)
    BY <1>2 DEF Next, Acts
  <2>2. LockKept' /\ OneLog' /\ NewLogs' /\ FoundCurrent'
    BY <2>1, LockKeptStep, OneLogStep, NewLogsStep, FoundStep
  <2>3. Keeps
    BY <2>1, FilesStep
  <2>4. VisibleExact'
    <3>1. commits \in Nat /\ Published = 1..commits
      BY ConnectionAssumption
         DEF ConnectionAssumption, LocksInv, ConnectionTypeOK, LogInv, VisibleExact
    <3>2. 1..(commits + 1) = (1..commits) \cup {commits + 1}
      BY <3>1
    <3> QED
      BY <2>3, <3>1, <3>2 DEF Keeps, VisibleExact
  <2>5. GarbageBlank'
    BY <2>1, GarbageStep DEF LogInv
  <2> QED
    BY <2>2, <2>3, <2>4, <2>5 DEF LogInv, Keeps
<1> QED
  BY <1>1, <1>2

\* It therefore always holds, with the invariant of the locks.
LEMMA LogAlways == ASSUME AtomicConversion PROVE Spec => [](LocksInv /\ LogInv)
<1>1. LocksInv /\ LogInv /\ [Next]_vars => (LocksInv /\ LogInv)'
  BY LocksStepInv, LogStepInv
<1>2. Init => LocksInv /\ LogInv
  BY LocksInitInv, LogInitInv
<1> QED
  BY <1>1, <1>2, PTL DEF Spec

\* All open connections share one log, the valid one at the path: the flock of
\* logdb_open and logdb_close is enough for it, if it converts in one step.
THEOREM OneSharedLog == ASSUME AtomicConversion PROVE Spec => []SharedLog
<1>1. LocksInv /\ LogInv => SharedLog
  BY DEF LogInv, OneLog, Uses, SharedLog
<1> QED
  BY <1>1, LogAlways, PTL

\* A published transaction is found by the next process to open the database,
\* whichever process makes, recovers, merges or removes the log and dies on
\* the way.
THEOREM NothingLost == ASSUME AtomicConversion PROVE Spec => []Recoverable
<1>1. LocksInv /\ LogInv => Recoverable
  BY DEF LogInv, VisibleExact, Published, Recoverable
<1> QED
  BY <1>1, LogAlways, PTL

\* Of a database that has had a log, logdb_log_create never reads bytes as a
\* trailer that are none: the end of it is only overwritten while a valid log
\* file is there.  Bytes of a file of another kind are only read so until the
\* first log is made for it.
THEOREM TrailerSafe == ASSUME AtomicConversion PROVE Spec => []TrailerGuarded
<1>1. LocksInv /\ LogInv => TrailerGuarded
  BY DEF LogInv
<1> QED
  BY <1>1, LogAlways, PTL

\* Opening, merging, recovering and dying are invisible to the next process:
\* the database and its log implement the abstract store.
THEOREM RefinesStore == ASSUME AtomicConversion PROVE Spec => ImplementsStore
<1>1. Init => AsStore!Init
  BY DEF Init, AsStore!Init, Visible, LogOpens, NoTrailer, Garbage
<1>2. ASSUME LocksInv, LogInv, [Next]_vars PROVE [AsStore!Next]_Published
  <2>1. CASE UNCHANGED vars
    BY <2>1 DEF vars, logVars, Published, Visible, LogOpens
  <2>2. CASE Next
    <3>1. PICK p \in Procs : Acts(p)
      BY <2>2 DEF Next, Acts
    <3>2. Keeps
      BY <1>2, <3>1, FilesStep
    <3>3. CASE Published' = Published
      BY <3>3
    <3>4. CASE Published' = Published \cup {commits + 1} /\ commits' = commits + 1
      <4>1. commits \in Nat /\ Published = 1..commits
        BY <1>2, ConnectionAssumption
           DEF ConnectionAssumption, LocksInv, ConnectionTypeOK, LogInv, VisibleExact
      <4>2. commits + 1 \in 1..MaxCommits
        <5>1. commits' \in 0..MaxCommits
          BY <1>2, LocksStepInv DEF LocksInv, ConnectionTypeOK
        <5> QED
          BY <3>4, <4>1, <5>1, ConnectionAssumption DEF ConnectionAssumption
      <4>3. commits + 1 \notin Published
        BY <4>1
      <4> QED
        BY <3>4, <4>2, <4>3 DEF AsStore!Next, AsStore!Commit, Txns, Published
    <3> QED
      BY <3>2, <3>3, <3>4 DEF Keeps
  <2> QED
    BY <1>2, <2>1, <2>2
<1> QED
  BY <1>1, <1>2, LogAlways, PTL DEF Spec, ImplementsStore, AsStore!Spec, Published
=============================================================================
