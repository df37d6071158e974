---------------------------- MODULE Connection ----------------------------
(***************************************************************************)
(* Opening and closing a database: logdb_open and logdb_close              *)
(* (src/src/logdb_connection.c) with logdb_log_create, logdb_log_open and  *)
(* logdb_log_close_merge (src/src/logdb_log.c).  The first process to open *)
(* the database builds a log file next to it, from the log that the last   *)
(* one left at the end of the database; the last process to close it       *)
(* merges the log back and removes the file.  Who is first and who is last *)
(* is decided with flock on the database file.  A process may die at any   *)
(* point, and the next one to open the database recovers.                  *)
(*                                                                         *)
(* A log is the set of transactions it makes visible, and a commit is two  *)
(* steps: data is written into the database file, which may destroy a log  *)
(* left at its end, and then published in the log (Lease has the rest).    *)
(*                                                                         *)
(* There may be a file of another kind where the database is to be:        *)
(* LOGDB_OPEN_CREATE overwrites its start and leaves the rest.             *)
(***************************************************************************)
EXTENDS Integers, FiniteSets

CONSTANTS Procs,            \* the processes, each with at most one connection
          OpenFlags,        \* the flags they open with
          AtomicConversion, \* whether flock converts a lock in one step
          Faults,           \* whether writes may fail
          MaxOpens,         \* bound: calls of logdb_open
          MaxLogs,          \* bound: log files made
          MaxCommits,       \* bound: transactions
          MaxCrashes        \* bound: processes that die

Flags == [create : BOOLEAN, nosync : BOOLEAN]

ASSUME ConnectionAssumption ==
    /\ IsFiniteSet(Procs)
    /\ OpenFlags \subseteq Flags
    /\ AtomicConversion \in BOOLEAN
    /\ Faults \in BOOLEAN
    /\ MaxOpens \in Nat
    /\ MaxLogs \in Nat
    /\ MaxCommits \in Nat
    /\ MaxCrashes \in Nat

VARIABLES db,        \* the database file: "absent", "foreign" (a file of
                     \* another kind), "empty" or "headed"
          trailer,   \* the log at its end
          path,      \* the log file that the log's path names, or NoLog
          made,      \* number of log files made; they are 1..made
          logs,      \* logs[f]: the log file f
          flk,       \* flk[p]: the flock of p on the database file
          pc,        \* pc[p]: where p is
          flags,     \* the arguments and locals of logdb_open, and then the
          retry,     \* connection: flags and log; found is the content of
          found,     \* the log that was just read
          log,
          commits,   \* history: transactions 1..commits were published
          foreign,   \* history: the file was of another kind, and no log was
                     \* made for it yet
          opens,     \* calls of logdb_open so far
          crashes    \* crashes so far

logVars   == <<path, made, logs>>
localVars == <<flags, retry, found, log>>
ghostVars == <<commits, foreign, opens, crashes>>
vars == <<db, trailer, logVars, flk, pc, localVars, ghostVars>>

NoLog == 0
LogFiles == 1..MaxLogs

\* Transactions that were published, and what an entry of a log stands for that
\* was made of bytes that are no log.
Txns == 1..MaxCommits
Junk == 0
Entries == Txns \cup {Junk}

\* What is at the end of the database file: nothing (it is too short to hold a
\* log), a log with transactions T, or bytes that are no log.
NoTrailer == [kind |-> "none", txns |-> {}]
Trailer(T) == [kind |-> "log", txns |-> T]
Garbage == [kind |-> "garbage", txns |-> {}]

NoFlags == [create |-> FALSE, nosync |-> FALSE]

\* A log file with transactions T, valid once its header is written.
Log(valid, T) == [valid |-> valid, txns |-> T]

Init ==
    /\ \/ db = "absent" /\ trailer = NoTrailer
       \/ db = "foreign" /\ trailer \in {NoTrailer, Garbage}
    /\ foreign = (db = "foreign")
    /\ path = NoLog
    /\ made = 0
    /\ logs = [f \in LogFiles |-> Log(FALSE, {})]
    /\ flk = [p \in Procs |-> "none"]
    /\ pc = [p \in Procs |-> "closed"]
    /\ flags = [p \in Procs |-> NoFlags]
    /\ retry = [p \in Procs |-> TRUE]
    /\ found = [p \in Procs |-> {}]
    /\ log = [p \in Procs |-> NoLog]
    /\ commits = 0
    /\ opens = 0
    /\ crashes = 0

Goto(p, place) == pc' = [pc EXCEPT ![p] = place]

\* p has no connection any more: its descriptors are closed, which drops the
\* lock, and its locals are gone.
Leave(p) ==
    /\ flk' = [flk EXCEPT ![p] = "none"]
    /\ flags' = [flags EXCEPT ![p] = NoFlags]
    /\ retry' = [retry EXCEPT ![p] = TRUE]
    /\ found' = [found EXCEPT ![p] = {}]
    /\ Goto(p, "closed")

\* free (header): what was read is not needed any more.
FreeHeader(p) == found' = [found EXCEPT ![p] = {}]
-----------------------------------------------------------------------------
(***************************************************************************)
(* flock on the database file.  A kernel that does not convert a lock in   *)
(* one step first drops the one it has: flock(2) warns of it, Linux does   *)
(* it, and a conversion that then fails has lost the lock.                 *)
(***************************************************************************)

ExclusiveFree(p) == \A q \in Procs \ {p} : flk[q] = "none"
SharedFree(p) == \A q \in Procs \ {p} : flk[q] # "ex"

\* Mutant: every connection goes on with a shared lock.
MutKeepsExclusive(p) == FALSE

\* A NOSYNC connection stays exclusive.
KeepsExclusive(p) == flags[p].nosync

\* p is about to call flock for a lock of another kind than the one it has.
Converts(p) ==
    \/ pc[p] = "share" /\ ~KeepsExclusive(p) /\ flk[p] = "ex"
    \/ pc[p] \in {"exclusive", "closing"} /\ flk[p] = "sh"

\* The first half of a conversion that is not atomic.
DropLock(p) ==
    /\ ~AtomicConversion
    /\ Converts(p)
    /\ flk' = [flk EXCEPT ![p] = "none"]
    /\ UNCHANGED <<db, trailer, logVars, pc, localVars, ghostVars>>

\* flock may take effect: what it converts is gone, or need not go first.
Ready(p) == AtomicConversion \/ ~Converts(p)
-----------------------------------------------------------------------------
(***************************************************************************)
(* logdb_open.                                                             *)
(***************************************************************************)

\* open of the database file.
Open(p, f) ==
    /\ pc[p] = "closed"
    /\ opens < MaxOpens
    /\ opens' = opens + 1
    /\ flags' = [flags EXCEPT ![p] = f]
    /\ retry' = [retry EXCEPT ![p] = TRUE]
    /\ \/ /\ f.create
          /\ db' = IF db = "absent" THEN "empty" ELSE db
          /\ Goto(p, "header")
       \/ /\ ~f.create
          /\ db # "absent"
          /\ Goto(p, "header")
          /\ UNCHANGED db
       \/ /\ ~f.create
          /\ db = "absent"
          /\ Goto(p, "failed")
          /\ UNCHANGED db
    /\ UNCHANGED <<trailer, logVars, flk, found, log, commits, foreign, crashes>>

\* The header of the database is written, or read and validated.
Header(p) ==
    /\ pc[p] = "header"
    /\ \/ /\ flags[p].create
          /\ db' = "headed"
          /\ Goto(p, "exclusive")
       \/ /\ flags[p].create
          /\ Faults
          /\ Goto(p, "failed")
          /\ UNCHANGED db
       \/ /\ ~flags[p].create
          /\ Goto(p, IF db = "headed" THEN "exclusive" ELSE "failed")
          /\ UNCHANGED db
    /\ UNCHANGED <<trailer, logVars, flk, localVars, ghostVars>>

\* retry_create: flock (LOCK_EX | LOCK_NB).
Exclusive(p) ==
    /\ pc[p] = "exclusive"
    /\ Ready(p)
    /\ \/ /\ ExclusiveFree(p)
          /\ flk' = [flk EXCEPT ![p] = "ex"]
          /\ Goto(p, "create")
       \/ /\ ~ExclusiveFree(p)
          /\ Goto(p, IF flags[p].nosync THEN "failed" ELSE "share")
          /\ UNCHANGED flk
    /\ UNCHANGED <<db, trailer, logVars, localVars, ghostVars>>

\* The entries of the log that logdb_log_create finds with a trailer.  Its size
\* is taken from the trailer whether or not there is a log: garbage gives an
\* empty log, or as many entries as it says, of the memory behind the header.
Contents(t) == IF t.kind = "garbage" THEN {{}, {Junk}} ELSE {t.txns}

\* logdb_log_create reads the log at the end of the database.  Where the seek
\* to it fails, nothing is created.
ReadTrailer(p) ==
    /\ pc[p] = "create"
    /\ \/ /\ \E T \in Contents(trailer) : found' = [found EXCEPT ![p] = T]
          /\ Goto(p, "make")
       \/ /\ trailer.kind = "garbage"
          /\ Goto(p, "recover")
          /\ UNCHANGED found
    /\ UNCHANGED <<db, trailer, logVars, flk, flags, retry, log, ghostVars>>

\* Mutant: a log file has its header from the start.
MutNewLog(T) == Log(TRUE, {})

\* The log file as it is created: no header yet.
NewLog(T) == Log(FALSE, {})

\* open (O_CREAT | O_EXCL) of the log file, which fails if there is one.
MakeLog(p) ==
    /\ pc[p] = "make"
    /\ \/ /\ path = NoLog
          /\ made < MaxLogs
          /\ made' = made + 1
          /\ path' = made + 1
          /\ logs' = [logs EXCEPT ![made + 1] = NewLog(found[p])]
          /\ log' = [log EXCEPT ![p] = made + 1]
          /\ Goto(p, "fill")
          /\ UNCHANGED found
       \/ /\ path # NoLog
          /\ FreeHeader(p)
          /\ Goto(p, "recover")
          /\ UNCHANGED <<logVars, log>>
    /\ UNCHANGED <<db, trailer, flk, flags, retry, ghostVars>>

\* logwritefail: the new log file is closed and unlinked.  The content also
\* cannot be written where the size that garbage gave is beyond the memory.
MakeFails(p) ==
    /\ \/ Faults /\ pc[p] \in {"fill", "head"}
       \/ trailer.kind = "garbage" /\ pc[p] = "fill"
    /\ path' = NoLog
    /\ log' = [log EXCEPT ![p] = NoLog]
    /\ FreeHeader(p)
    /\ Goto(p, "recover")
    /\ UNCHANGED <<db, trailer, made, logs, flk, flags, retry, ghostVars>>

\* "Write the log content before the header."
FillLog(p) ==
    /\ pc[p] = "fill"
    /\ logs' = [logs EXCEPT ![log[p]].txns = found[p]]
    /\ Goto(p, "head")
    /\ UNCHANGED <<db, trailer, path, made, flk, localVars, ghostVars>>

HeadLog(p) ==
    /\ pc[p] = "head"
    /\ logs' = [logs EXCEPT ![log[p]].valid = TRUE]
    /\ foreign' = FALSE
    /\ FreeHeader(p)
    /\ Goto(p, "share")
    /\ UNCHANGED <<db, trailer, path, made, flk, flags, retry, log, commits, opens,
                   crashes>>

\* logdb_log_open finds a log file with a valid header.
LogOpens == path # NoLog /\ logs[path].valid

\* With the exclusive lock: open the log that is there, or give up, or go on
\* to delete what is there and create a log once more.
Recover(p) ==
    /\ pc[p] = "recover"
    /\ \/ /\ LogOpens
          /\ log' = [log EXCEPT ![p] = path]
          /\ Goto(p, "share")
       \/ /\ ~LogOpens
          /\ Goto(p, IF retry[p] THEN "discard" ELSE "failed")
          /\ UNCHANGED log
    /\ UNCHANGED <<db, trailer, logVars, flk, flags, retry, found, ghostVars>>

\* unlink of a corrupt log; it fails where there is no file.
Discard(p) ==
    /\ pc[p] = "discard"
    /\ \/ /\ path = NoLog
          /\ Goto(p, "failed")
          /\ UNCHANGED <<path, retry>>
       \/ /\ path # NoLog
          /\ path' = NoLog
          /\ retry' = [retry EXCEPT ![p] = FALSE]
          /\ Goto(p, "create")
    /\ UNCHANGED <<db, trailer, made, logs, flk, flags, found, log, ghostVars>>

\* flock (LOCK_SH), which waits.
Share(p) ==
    /\ pc[p] = "share"
    /\ \/ /\ KeepsExclusive(p)
          /\ UNCHANGED flk
       \/ /\ ~KeepsExclusive(p)
          /\ Ready(p)
          /\ SharedFree(p)
          /\ flk' = [flk EXCEPT ![p] = "sh"]
    /\ Goto(p, IF log[p] = NoLog THEN "attach" ELSE "open")
    /\ UNCHANGED <<db, trailer, logVars, localVars, ghostVars>>

\* Mutant: an attempt to attach is followed by another without end.
MutTriesLeft(p) == TRUE

TriesLeft(p) == retry[p]

\* logdb_log_open by a process that did not create the log.
Attach(p) ==
    /\ pc[p] = "attach"
    /\ \/ /\ LogOpens
          /\ log' = [log EXCEPT ![p] = path]
          /\ Goto(p, "open")
          /\ UNCHANGED retry
       \/ /\ ~LogOpens
          /\ Goto(p, IF TriesLeft(p) THEN "exclusive" ELSE "failed")
          /\ retry' = [retry EXCEPT ![p] = FALSE]
          /\ UNCHANGED log
    /\ UNCHANGED <<db, trailer, logVars, flk, flags, found, ghostVars>>

\* The error paths end in close (fd), which drops the lock.
Abandon(p) ==
    /\ pc[p] = "failed"
    /\ Leave(p)
    /\ UNCHANGED <<db, trailer, logVars, log, ghostVars>>
-----------------------------------------------------------------------------
(***************************************************************************)
(* logdb_txn_commit, as far as it matters here: the lease locks an entry   *)
(* of the log until the commit has been published.                         *)
(***************************************************************************)

\* Data is written past the sections in use, where a merged log may be.
WriteData(p) ==
    /\ pc[p] = "open"
    /\ commits + Cardinality({q \in Procs : pc[q] = "writing"}) < MaxCommits
    /\ trailer' \in {trailer, Garbage}
    /\ Goto(p, "writing")
    /\ UNCHANGED <<db, logVars, flk, localVars, ghostVars>>

Publish(p) ==
    /\ pc[p] = "writing"
    /\ commits' = commits + 1
    /\ logs' = [logs EXCEPT ![log[p]].txns = @ \cup {commits + 1}]
    /\ Goto(p, "open")
    /\ UNCHANGED <<db, trailer, path, made, flk, localVars, foreign, opens,
                   crashes>>

\* The commit fails: the data is there, and the log does not cover it.
CommitFails(p) ==
    /\ Faults
    /\ pc[p] = "writing"
    /\ Goto(p, "open")
    /\ UNCHANGED <<db, trailer, logVars, flk, localVars, ghostVars>>
-----------------------------------------------------------------------------
(***************************************************************************)
(* logdb_close.                                                            *)
(***************************************************************************)

Close(p) ==
    /\ pc[p] = "open"
    /\ Goto(p, "closing")
    /\ UNCHANGED <<db, trailer, logVars, flk, localVars, ghostVars>>

\* Mutant: every process that closes merges the log.
MutIsLast(p) == TRUE

\* flock (LOCK_EX | LOCK_NB) succeeds: this is the last process.
IsLast(p) == ExclusiveFree(p)

LastOne(p) ==
    /\ pc[p] = "closing"
    /\ Ready(p)
    /\ \/ /\ IsLast(p)
          /\ flk' = [flk EXCEPT ![p] = "ex"]
          /\ Goto(p, "merge")
       \/ /\ ~IsLast(p)
          /\ Goto(p, "detach")
          /\ UNCHANGED flk
    /\ UNCHANGED <<db, trailer, logVars, localVars, ghostVars>>

\* logdb_log_close_merge locks the whole log, which waits for every lease on
\* it, and reads it.
MergeRead(p) ==
    /\ pc[p] = "merge"
    /\ \A q \in Procs : pc[q] = "writing" => log[q] # log[p]
    /\ found' = [found EXCEPT ![p] = logs[log[p]].txns]
    /\ Goto(p, "truncate")
    /\ UNCHANGED <<db, trailer, logVars, flk, flags, retry, log, ghostVars>>

\* ftruncate of the database to the data that is in use.
MergeTruncate(p) ==
    /\ pc[p] = "truncate"
    /\ trailer' = Garbage
    /\ Goto(p, "append")
    /\ UNCHANGED <<db, logVars, flk, localVars, ghostVars>>

\* The log and the trailer are appended.
MergeAppend(p) ==
    /\ pc[p] = "append"
    /\ trailer' = Trailer(found[p])
    /\ Goto(p, "unlink")
    /\ UNCHANGED <<db, logVars, flk, localVars, ghostVars>>

\* Mutants: an error on the way is not noticed, and the log is unlinked; or
\* the log is not closed.
MutAfterFault == "unlink"
MutLeak == "unlock"

\* Where logdb_close goes on when the merge has failed: it closes the log.
AfterFault == "detach"

\* A step of the merge fails: the log file stays.
MergeFails(p) ==
    /\ Faults
    /\ pc[p] \in {"merge", "truncate", "append"}
    /\ Goto(p, AfterFault)
    /\ UNCHANGED <<db, trailer, logVars, flk, localVars, ghostVars>>

\* unlink of the log file: "It doesn't really matter if this fails".
MergeUnlink(p) ==
    /\ pc[p] = "unlink"
    /\ path' = NoLog \/ (Faults /\ path' = path)
    /\ Goto(p, "detach")
    /\ UNCHANGED <<db, trailer, made, logs, flk, localVars, ghostVars>>

\* logdb_log_close.
Detach(p) ==
    /\ pc[p] = "detach"
    /\ log' = [log EXCEPT ![p] = NoLog]
    /\ Goto(p, "unlock")
    /\ UNCHANGED <<db, trailer, logVars, flk, flags, retry, found, ghostVars>>

\* flock (LOCK_UN) and close of the database file.
UnlockDb(p) ==
    /\ pc[p] = "unlock"
    /\ Leave(p)
    /\ UNCHANGED <<db, trailer, logVars, log, ghostVars>>
-----------------------------------------------------------------------------
\* The process dies.  The files stay, and the kernel drops its locks.
Crash(p) ==
    /\ crashes < MaxCrashes
    /\ pc[p] # "closed"
    /\ crashes' = crashes + 1
    /\ log' = [log EXCEPT ![p] = NoLog]
    /\ Leave(p)
    /\ UNCHANGED <<db, trailer, logVars, commits, foreign, opens>>

\* The steps of a call that has begun.
Step(p) ==
    \/ DropLock(p)
    \/ Header(p) \/ Exclusive(p) \/ ReadTrailer(p) \/ MakeLog(p) \/ MakeFails(p)
    \/ FillLog(p) \/ HeadLog(p) \/ Recover(p) \/ Discard(p)
    \/ Share(p) \/ Attach(p) \/ Abandon(p)
    \/ Publish(p) \/ CommitFails(p)
    \/ LastOne(p) \/ MergeRead(p) \/ MergeTruncate(p) \/ MergeAppend(p)
    \/ MergeFails(p) \/ MergeUnlink(p) \/ Detach(p) \/ UnlockDb(p)

Next ==
    \E p \in Procs :
        \/ \E f \in OpenFlags : Open(p, f)
        \/ WriteData(p) \/ Close(p)
        \/ Step(p)
        \/ Crash(p)

Spec == Init /\ [][Next]_vars

\* The scheduler runs every process that is inside a call.
FairSpec == Spec /\ \A p \in Procs : WF_vars(Step(p))
-----------------------------------------------------------------------------
(***************************************************************************)
(* Properties.                                                             *)
(***************************************************************************)

Opening == {"header", "exclusive", "create", "make", "fill", "head", "recover",
            "discard", "share", "attach"}
Merging == {"merge", "truncate", "append", "unlink"}
Places == Opening \cup Merging \cup
          {"closed", "failed", "open", "writing", "closing", "detach", "unlock"}

\* Every variable has its type, and a process has a log open exactly where its
\* call has opened one and not closed it: no path through logdb_open and
\* logdb_close leaks the log or uses one it does not have.
ConnectionTypeOK ==
    /\ db \in {"absent", "foreign", "empty", "headed"}
    /\ trailer \in [kind : {"none", "log", "garbage"}, txns : SUBSET Entries]
    /\ path \in LogFiles \cup {NoLog}
    /\ made \in 0..MaxLogs
    /\ logs \in [LogFiles -> [valid : BOOLEAN, txns : SUBSET Entries]]
    /\ flk \in [Procs -> {"none", "sh", "ex"}]
    /\ pc \in [Procs -> Places]
    /\ flags \in [Procs -> Flags]
    /\ retry \in [Procs -> BOOLEAN]
    /\ found \in [Procs -> SUBSET Entries]
    /\ log \in [Procs -> LogFiles \cup {NoLog}]
    /\ commits \in 0..MaxCommits
    /\ foreign \in BOOLEAN
    /\ opens \in 0..MaxOpens
    /\ crashes \in 0..MaxCrashes
    /\ \A p \in Procs :
        /\ pc[p] \in Merging \cup {"fill", "head", "open", "writing", "closing", "detach"}
            => log[p] # NoLog
        /\ pc[p] \in (Opening \ {"fill", "head", "share"}) \cup {"closed", "failed", "unlock"}
            => log[p] = NoLog

\* All connections share one log: the valid one that the path names, which is
\* what "The `flock` prevents races with other processes" is for.
SharedLog ==
    \A p \in Procs : pc[p] \in {"open", "writing"} =>
        LogOpens /\ log[p] = path

\* The transactions that the next process to open the database would find.
Visible == IF LogOpens THEN logs[path].txns ELSE trailer.txns

\* A transaction that was published stays visible, whichever process creates,
\* recovers, merges or removes the log, and wherever one of them dies.
Recoverable == 1..commits \subseteq Visible

\* To the next process that opens it, the database is the abstract store: but
\* for junk entries, it only changes by the publishing of a transaction,
\* whichever of its two logs is the one that counts.
AsStore == INSTANCE Store WITH Txns <- Txns, visible <- Visible \ {Junk}

ImplementsStore == AsStore!Spec

\* Bytes at the end of the database that are no log are only there while a
\* valid log file is, or until the first log is made for a file of another
\* kind: at no other time can logdb_log_create build a log from them.
TrailerGuarded == trailer.kind = "garbage" => LogOpens \/ foreign

\* A NOSYNC connection has the database to itself.
NoSyncAlone ==
    \A p, q \in Procs :
        /\ p # q
        /\ pc[p] \in {"open", "writing"}
        /\ flags[p].nosync
        => pc[q] \notin {"open", "writing"} \cup Merging

\* The file at the log's path is not replaced or removed while a process that
\* opened it under the shared lock uses it.
Attached(p) == pc[p] \in {"open", "writing"} /\ flk[p] = "sh"

LogStays ==
    [][\A p \in Procs :
         Attached(p) /\ log[p] = path /\ Attached(p)' => path' = path]_vars

\* Every NOSYNC connection is closed, or its process dies, sooner or later.
NoSyncCloses ==
    \A p \in Procs :
        []<>(pc[p] \notin {"open", "writing"} \/ ~flags[p].nosync)

\* A process that opens the database gets a connection or an error, although
\* it waits for a shared lock and may have to start over; it waits as long as
\* another process keeps a NOSYNC connection.
OpenReturns ==
    NoSyncCloses => \A p \in Procs : pc[p] \in Opening ~> pc[p] \notin Opening
=============================================================================
