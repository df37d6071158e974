----------------------------- MODULE Durability -----------------------------
(***************************************************************************)
(* What is left of the database after a power failure: the two fsyncs of   *)
(* logdb_txn_commit (src/src/logdb_txn.c), and the making and merging of   *)
(* the log file, which have none (src/src/logdb_log.c).                    *)
(*                                                                         *)
(* There are two copies of the files: cache is what processes see, disk is *)
(* what a power failure leaves.  The system writes any part of the cache   *)
(* to the disk at any time; fsync writes a whole file, and its name, as    *)
(* journalling file systems do.  Processes share the cache, so it does not *)
(* matter which of them commits, and which one is the first and the last   *)
(* to have the database open (Connection has that).  Every transaction is  *)
(* in a section, and has an entry of the log, of its own.                  *)
(***************************************************************************)
EXTENDS Integers

CONSTANTS Txns,        \* the transactions
          NoSyncs,     \* the values LOGDB_OPEN_NOSYNC may have
          Faults,      \* whether writes and fsync may fail
          MaxLogs,     \* bound: log files made
          MaxCrashes   \* bound: crashes and power failures

ASSUME DurabilityAssumption ==
    /\ NoSyncs \subseteq BOOLEAN
    /\ Faults \in BOOLEAN
    /\ MaxLogs \in Nat
    /\ MaxCrashes \in Nat

VARIABLES cache,    \* the files as processes see them
          disk,     \* the files as they are on disk
          made,     \* number of log files made
          pc,       \* where the opening or closing of the database is
          found,    \* the log that was read for it
          nosync,   \* LOGDB_OPEN_NOSYNC of the connection
          at,       \* at[k]: where the commit of k is
          lax,      \* history: transactions committed with NOSYNC
          junk,     \* history: those that logs made of other bytes name
          kept,     \* history: what was in the log file at its last fsync
          crashes   \* crashes so far

vars == <<cache, disk, made, pc, found, nosync, at, lax, junk, kept, crashes>>

NoLog == 0
LogFiles == 1..MaxLogs

\* A log with transactions T, at the end of the database or in a log file,
\* where it is valid once it has its header.  Other bytes at the end of the
\* database are no log; and a database too short to hold a log is read as if
\* there was an empty one.
Log(valid, T) == [valid |-> valid, txns |-> T]
Garbage == Log(FALSE, {})
NoTail == Log(TRUE, {})

\* A copy of the files: the transactions whose data is in the database, the
\* log at its end, the log file that the path names, and the log files.
Empty == [data |-> {}, tail |-> NoTail, name |-> NoLog,
          logs |-> [f \in LogFiles |-> Log(FALSE, {})]]

\* The log that logdb_open finds: the log file, or what was merged.
LogOpens(m) == m.name # NoLog /\ m.logs[m.name].valid
Visible(m) == IF LogOpens(m) THEN m.logs[m.name].txns ELSE m.tail.txns

Init ==
    /\ cache = Empty
    /\ disk = Empty
    /\ made = 0
    /\ pc = "closed"
    /\ found = {}
    /\ nosync = FALSE
    /\ at = [k \in Txns |-> "idle"]
    /\ lax = {}
    /\ junk = {}
    /\ kept = {}
    /\ crashes = 0

\* The call ends without a connection, and its locals end with it.
Closed ==
    /\ pc' = "closed"
    /\ found' = {}
    /\ nosync' = FALSE
-----------------------------------------------------------------------------
(***************************************************************************)
(* logdb_open by the first process.                                        *)
(***************************************************************************)

\* There is a valid log file, and it is opened.
Recover ==
    /\ pc = "closed"
    /\ LogOpens(cache)
    /\ pc' = "open"
    /\ nosync' \in NoSyncs
    /\ UNCHANGED <<cache, disk, made, found, at, lax, junk, kept, crashes>>

\* A log file that is not valid is deleted.
Discard ==
    /\ pc = "closed"
    /\ cache.name # NoLog
    /\ ~LogOpens(cache)
    /\ cache' = [cache EXCEPT !.name = NoLog]
    /\ UNCHANGED <<disk, made, pc, found, nosync, at, lax, junk, kept, crashes>>

\* logdb_log_create reads the log at the end of the database.  The size of the
\* new log is taken from the trailer whether or not a log is found with it: so
\* garbage gives any entries, those of the memory behind the new header (or an
\* error, and then nothing happens).
Entries(tail) == IF tail.valid THEN {tail.txns} ELSE SUBSET Txns

\* A log file is made, without a header.
Create ==
    /\ pc = "closed"
    /\ cache.name = NoLog
    /\ made < MaxLogs
    /\ made' = made + 1
    /\ found' \in Entries(cache.tail)
    /\ junk' = IF cache.tail.valid THEN junk ELSE junk \cup found'
    /\ cache' = [cache EXCEPT !.name = made + 1]
    /\ pc' = "fill"
    /\ nosync' \in NoSyncs
    /\ UNCHANGED <<disk, at, lax, kept, crashes>>

\* Mutant: the header is written with the content.
MutFilled == Log(TRUE, {})

\* What the log file holds after the first write of logdb_log_create.
Filled == Log(FALSE, found)

Fill ==
    /\ pc = "fill"
    /\ cache' = [cache EXCEPT !.logs[cache.name] = Filled]
    /\ pc' = "head"
    /\ UNCHANGED <<disk, made, found, nosync, at, lax, junk, kept, crashes>>

Head ==
    /\ pc = "head"
    /\ cache' = [cache EXCEPT !.logs[cache.name] = Log(TRUE, found)]
    /\ pc' = "open"
    /\ found' = {}
    /\ UNCHANGED <<disk, made, nosync, at, lax, junk, kept, crashes>>

\* logwritefail: the new log file is unlinked.  The content also cannot be
\* written where the size that was taken from garbage is beyond the memory.
CreateFails ==
    /\ \/ Faults /\ pc \in {"fill", "head"}
       \/ ~cache.tail.valid /\ pc = "fill"
    /\ cache' = [cache EXCEPT !.name = NoLog]
    /\ Closed
    /\ UNCHANGED <<disk, made, at, lax, junk, kept, crashes>>
-----------------------------------------------------------------------------
(***************************************************************************)
(* logdb_txn_commit.                                                       *)
(***************************************************************************)

Goto(k, place) == at' = [at EXCEPT ![k] = place]

\* The data is written, maybe over the log at the end of the database.
WriteData(k) ==
    /\ pc = "open"
    /\ at[k] = "idle"
    /\ Goto(k, "written")
    /\ \E t \in {cache.tail, Garbage} :
        cache' = [cache EXCEPT !.data = @ \cup {k}, !.tail = t]
    /\ lax' = IF nosync THEN lax \cup {k} ELSE lax
    /\ UNCHANGED <<disk, made, pc, found, nosync, junk, kept, crashes>>

\* Mutant: the database is not synced before the log is updated.
MutDbSynced == disk

\* fsync (conn->fd).
DbSynced == [disk EXCEPT !.data = cache.data, !.tail = cache.tail]

SyncData(k) ==
    /\ at[k] = "written"
    /\ disk' = IF nosync THEN disk ELSE DbSynced
    /\ Goto(k, "synced")
    /\ UNCHANGED <<cache, made, pc, found, nosync, lax, junk, kept, crashes>>

\* logdb_log_write_entry.
Publish(k) ==
    /\ at[k] = "synced"
    /\ cache' = [cache EXCEPT !.logs[cache.name].txns = @ \cup {k}]
    /\ Goto(k, "published")
    /\ UNCHANGED <<disk, made, pc, found, nosync, lax, junk, kept, crashes>>

\* Mutant: the database is synced again instead of the log.
MutLogSynced == DbSynced

\* fsync (conn->log->fd).
LogSynced == [disk EXCEPT !.logs[cache.name] = cache.logs[cache.name],
                          !.name = cache.name]

\* The commit returns 0.  "I don't think there's really much we can do if this
\* fails": nothing is done.
SyncLog(k) ==
    /\ at[k] = "published"
    /\ Goto(k, "done")
    /\ \/ /\ ~nosync
          /\ disk' = LogSynced
          /\ kept' = cache.logs[cache.name].txns \cap disk.data
       \/ /\ nosync \/ Faults
          /\ UNCHANGED <<disk, kept>>
    /\ UNCHANGED <<cache, made, pc, found, nosync, lax, junk, crashes>>

\* A write or the first fsync fails, and so does the commit.
CommitFails(k) ==
    /\ Faults
    /\ at[k] \in {"written", "synced"}
    /\ Goto(k, "failed")
    /\ UNCHANGED <<cache, disk, made, pc, found, nosync, lax, junk, kept, crashes>>
-----------------------------------------------------------------------------
(***************************************************************************)
(* logdb_close by the last process: logdb_log_close_merge.                 *)
(***************************************************************************)

InCommit == {"written", "synced", "published"}

MergeRead ==
    /\ pc = "open"
    /\ \A k \in Txns : at[k] \notin InCommit
    /\ found' = cache.logs[cache.name].txns
    /\ pc' = "truncate"
    /\ UNCHANGED <<cache, disk, made, nosync, at, lax, junk, kept, crashes>>

MergeTruncate ==
    /\ pc = "truncate"
    /\ cache' = [cache EXCEPT !.tail = Garbage]
    /\ pc' = "append"
    /\ UNCHANGED <<disk, made, found, nosync, at, lax, junk, kept, crashes>>

MergeAppend ==
    /\ pc = "append"
    /\ cache' = [cache EXCEPT !.tail = Log(TRUE, found)]
    /\ pc' = "unlink"
    /\ UNCHANGED <<disk, made, found, nosync, at, lax, junk, kept, crashes>>

\* Mutant: the log file is unlinked whether or not the merge succeeded.
MutAfterFault == [cache EXCEPT !.name = NoLog]

\* The files after a merge that failed.
AfterFault == cache

MergeFails ==
    /\ Faults
    /\ pc \in {"truncate", "append"}
    /\ cache' = AfterFault
    /\ Closed
    /\ UNCHANGED <<disk, made, at, lax, junk, kept, crashes>>

\* From here on the log depends on what was appended to the database.
MergeUnlink ==
    /\ pc = "unlink"
    /\ \/ cache' = [cache EXCEPT !.name = NoLog]
       \/ Faults /\ UNCHANGED cache
    /\ kept' = {}
    /\ Closed
    /\ UNCHANGED <<disk, made, at, lax, junk, crashes>>
-----------------------------------------------------------------------------
(***************************************************************************)
(* The system.                                                             *)
(***************************************************************************)

\* A part of the cache is written back.  The log at the end of the database is
\* several blocks, so that the disk may have some of them.  Log files that have
\* no name any more do not matter.
Writeback ==
    /\ \/ \E k \in cache.data : disk' = [disk EXCEPT !.data = @ \cup {k}]
       \/ /\ disk.tail # cache.tail
          /\ \E t \in {cache.tail, Garbage} : disk' = [disk EXCEPT !.tail = t]
       \/ disk' = [disk EXCEPT !.name = cache.name]
       \/ \E f \in {cache.name, disk.name} \ {NoLog} :
            \/ disk' = [disk EXCEPT !.logs[f].valid = cache.logs[f].valid]
            \/ \E k \in cache.logs[f].txns :
                disk' = [disk EXCEPT !.logs[f].txns = @ \cup {k}]
    /\ disk' # disk
    /\ UNCHANGED <<cache, made, pc, found, nosync, at, lax, junk, kept, crashes>>

Stopped ==
    /\ crashes < MaxCrashes
    /\ crashes' = crashes + 1
    /\ Closed
    /\ at' = [k \in Txns |-> IF at[k] \in InCommit THEN "failed" ELSE at[k]]

\* All processes that have the database open die.
Crash ==
    /\ Stopped
    /\ pc # "closed"
    /\ UNCHANGED <<cache, disk, made, lax, junk, kept>>

PowerFailure ==
    /\ Stopped
    /\ cache' = disk
    /\ UNCHANGED <<disk, made, lax, junk, kept>>

Next ==
    \/ Recover \/ Discard \/ Create \/ Fill \/ Head \/ CreateFails
    \/ \E k \in Txns :
        \/ WriteData(k) \/ SyncData(k) \/ Publish(k) \/ SyncLog(k) \/ CommitFails(k)
    \/ MergeRead \/ MergeTruncate \/ MergeAppend \/ MergeFails \/ MergeUnlink
    \/ Writeback \/ Crash \/ PowerFailure

Spec == Init /\ [][Next]_vars
-----------------------------------------------------------------------------
(***************************************************************************)
(* Properties.                                                             *)
(***************************************************************************)

Places == {"closed", "fill", "head", "open", "truncate", "append", "unlink"}
Stages == InCommit \cup {"idle", "done", "failed"}

Copies == [data : SUBSET Txns, tail : [valid : BOOLEAN, txns : SUBSET Txns],
           name : LogFiles \cup {NoLog},
           logs : [LogFiles -> [valid : BOOLEAN, txns : SUBSET Txns]]]

\* Every variable has its type, a connection has a valid log at the log's
\* path, and the disk has no data that was not written.
DurabilityTypeOK ==
    /\ cache \in Copies
    /\ disk \in Copies
    /\ made \in 0..MaxLogs
    /\ pc \in Places
    /\ found \subseteq Txns
    /\ at \in [Txns -> Stages]
    /\ nosync \in BOOLEAN
    /\ lax \subseteq Txns
    /\ junk \subseteq Txns
    /\ kept \subseteq Txns
    /\ crashes \in 0..MaxCrashes
    /\ disk.data \subseteq cache.data
    /\ pc \in {"open", "truncate", "append", "unlink"} => LogOpens(cache)
    /\ pc \in {"fill", "head"} => cache.name # NoLog /\ ~LogOpens(cache)

\* A transaction that is visible after a power failure has all its data,
\* unless it was committed with NOSYNC, or a log made of bytes that were no log
\* named it: the database is synced before the entry is written, in whatever
\* order the system writes things to the disk.
NothingTorn == Visible(disk) \ (lax \cup junk) \subseteq disk.data

\* What was in the log file when it was last synced survives a power failure
\* until the merge unlinks the file, however recovery, commits of others, and
\* the overwriting and writing of the log at the end of the database go on.
SyncedLogKeeps == kept \subseteq Visible(disk) \cap disk.data

\* Only a power failure takes transactions away: not the death of processes,
\* failing writes, or the recovery of what a power failure left.
OnlyPowerLoses == [][PowerFailure \/ Visible(cache) \subseteq Visible(cache')]_vars

\* "Atomic and durable" (Readme.md:10), "robust against application crashes
\* (and system-wide failures if LOGDB_OPEN_NOSYNC is not specified)"
\* (Readme.md:20): a commit that returned 0 survives a power failure.
AckedSurvive ==
    \A k \in Txns \ lax : at[k] = "done" => k \in Visible(disk) \cap disk.data
=============================================================================
