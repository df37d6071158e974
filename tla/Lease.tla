------------------------------- MODULE Lease -------------------------------
(***************************************************************************)
(* The write path of the database: logdb_lease_acquire_write finds a       *)
(* section with room and locks its log entry (src/src/logdb_lease.c), and  *)
(* logdb_txn_commit writes the transaction there and publishes it by       *)
(* storing the new length in the entry (src/src/logdb_txn.c).  Any number  *)
(* of threads of any number of processes do this at once; a process may    *)
(* die at any point and start again on the log that is there.              *)
(*                                                                         *)
(* Every system call on the log or the database is a step.  Bytes are      *)
(* scaled down to units of data, each written by one logdb_lease_write; a  *)
(* unit remembers which transaction wrote it.  The locks are LockTable's.  *)
(***************************************************************************)
EXTENDS LockTable

CONSTANTS Section,     \* LOGDB_SECTION_SIZE, in units; also 2^16, the range
                       \* of the unsigned short that is an entry's length
          MaxWalk,     \* LOGDB_LEASE_MAX_WALK
          Sizes,       \* the sizes of transactions
          InitCount,   \* the number of entries of the log when it is opened
          InitLen,     \* their lengths
          Faults,      \* whether writes may fail
          IndexRange,  \* the range of logdb_size_t, an unsigned int: 2^32
          MaxCount,    \* bound: entries of the log
          MaxCommits,  \* bound: transactions committed by a thread
          MaxCrashes   \* bound: crashes of processes

ASSUME LeaseAssumption ==
    /\ Section \in Nat \ {0}
    /\ MaxWalk \in Nat \ {0}
    /\ Sizes \subseteq 1..Section
    /\ InitCount \in Nat
    /\ MaxCount \in Nat
    /\ InitCount <= MaxCount
    /\ Index = 0..(MaxCount - 1)
    /\ InitLen \in [0..(InitCount - 1) -> 0..(Section - 1)]
    /\ Faults \in BOOLEAN
    /\ IndexRange \in Nat
    /\ IndexRange > MaxCount + MaxWalk + 1
    /\ MaxCommits \in Nat
    /\ MaxCrashes \in Nat

VARIABLES count,    \* the log file: number of entries
          len,      \* and length of each
          pos,      \* pos[p]: the file pointer of p's log descriptor, in entries
          data,     \* data[i][o]: the transaction that wrote unit o of section i
          pc,       \* where each thread is
          size,     \* the locals of logdb_lease_acquire_write, and
          index,    \* then the lease: index and offset,
          offset,
          visited,
          left,     \* and the units that remain to be written on it
          todo,     \* transactions a thread has left to commit
          done,     \* history: what has been published in the log
          tainted,  \* history: a lease did not start at the length of its
                    \* entry, a section was filled to its last unit, or a
                    \* multithreaded process has two counters for an entry
          far,      \* processes with the lock of the entry that no log has
          crashes   \* crashes so far

fileVars  == <<count, len, pos, data>>
frameVars == <<size, index, offset, visited, left>>
ghostVars == <<done, tainted>>
procVars  == <<far, crashes>>
leaseVars == <<fileVars, frameVars, ghostVars, pc, todo, procVars>>
vars == <<lockVars, leaseVars>>

Units == 0..(Section - 1)

\* Transactions are told apart by thread and number; the units present when
\* the log is opened come from Old, units never written from Nothing.
Old == <<"old", 0>>
Nothing == <<"nothing", 0>>
Txn(t) == <<t, todo[t]>>

Commit(x, i, o, n) == [txn |-> x, index |-> i, offset |-> o, size |-> n]

Init ==
    /\ LockInit
    /\ count = InitCount
    /\ len = [i \in Index |-> IF i < InitCount THEN InitLen[i] ELSE 0]
    /\ pos = [p \in Procs |-> 0]
    /\ data = [i \in Index |-> [o \in Units |->
                IF i < InitCount /\ o < InitLen[i] THEN Old ELSE Nothing]]
    /\ pc = [t \in Threads |-> "idle"]
    /\ size = [t \in Threads |-> 0]
    /\ index = [t \in Threads |-> 0]
    /\ offset = [t \in Threads |-> 0]
    /\ visited = [t \in Threads |-> 0]
    /\ left = [t \in Threads |-> 0]
    /\ todo = [t \in Threads |-> MaxCommits]
    /\ done = {Commit(Old, i, 0, InitLen[i]) : i \in 0..(InitCount - 1)}
    /\ tainted = FALSE
    /\ far = {}
    /\ crashes = 0

\* -1 as an index, which the code computes where it expects an entry.
Far == IndexRange - 1

Goto(t, place) == pc' = [pc EXCEPT ![t] = place]
-----------------------------------------------------------------------------
(***************************************************************************)
(* logdb_lease_acquire_write.                                              *)
(***************************************************************************)

\* Mutant: the comparison with the free space is off by one.
MutHasSpace(i, n) == i < count /\ Section - len[i] >= n - 1

\* logdb_lease_read_entry_space: reading past the end of the log fails.
HasSpace(i, n) == i < count /\ Section - len[i] >= n

\* logdb_txn_commit of an outermost transaction with n units of data.
Acquire(t, n) ==
    /\ pc[t] = "idle"
    /\ todo[t] > 0
    /\ size' = [size EXCEPT ![t] = n]
    /\ visited' = [visited EXCEPT ![t] = 0]
    /\ Goto(t, "seek")
    /\ UNCHANGED <<lockVars, fileVars, index, offset, left, ghostVars, todo,
                   procVars>>

\* walk: lseek to the end, and skip what the last walk visited.  On a log
\* without entries the subtraction wraps.
Seek(t) ==
    /\ pc[t] = "seek"
    /\ pos' = [pos EXCEPT ![ProcOf[t]] = count]
    /\ index' = [index EXCEPT ![t] = (count - visited[t]) % IndexRange]
    /\ visited' = [visited EXCEPT ![t] = 0]
    /\ Goto(t, "scan")
    /\ UNCHANGED <<lockVars, count, len, data, size, offset, left, ghostVars,
                   todo, procVars>>

\* One evaluation of `(index--) && (visited++ < LOGDB_LEASE_MAX_WALK)` and,
\* when it holds, the loop body: the entry is read and may have the space.
Scan(t) ==
    LET i == index[t] - 1 IN
    /\ pc[t] = "scan"
    /\ \/ /\ index[t] = 0 \/ visited[t] >= MaxWalk
          /\ Goto(t, "append")
          /\ UNCHANGED <<index, offset, visited>>
       \/ /\ index[t] > 0
          /\ visited[t] < MaxWalk
          /\ index' = [index EXCEPT ![t] = i]
          /\ visited' = [visited EXCEPT ![t] = @ + 1]
          /\ \/ /\ HasSpace(i, size[t])
                /\ offset' = [offset EXCEPT ![t] = len[i]]
                /\ Goto(t, "lock")
             \/ /\ ~HasSpace(i, size[t])
                /\ UNCHANGED <<offset, pc>>
    /\ UNCHANGED <<lockVars, fileVars, size, left, ghostVars, todo, procVars>>

\* The log grows by an entry without data.
Grow ==
    /\ count < MaxCount
    /\ count' = count + 1
    /\ len' = [len EXCEPT ![count] = 0]

\* write on the O_APPEND descriptor.  A failure (-1) is not noticed, because
\* it is compared with an unsigned size.
Append(t) ==
    /\ pc[t] = "append"
    /\ \/ /\ Grow
          /\ pos' = [pos EXCEPT ![ProcOf[t]] = count + 1]
       \/ /\ Faults
          /\ UNCHANGED <<count, len, pos>>
    /\ Goto(t, "tell")
    /\ UNCHANGED <<lockVars, data, frameVars, ghostVars, todo, procVars>>

\* The write is short, which is noticed: the commit fails.  What it leaves at
\* the end of the log is half an entry, or completes a half of an earlier one;
\* a half counts for nothing, and all of them are zero.
AppendShort(t) ==
    /\ Faults
    /\ pc[t] = "append"
    /\ Grow \/ UNCHANGED <<count, len>>
    /\ pos' = [pos EXCEPT ![ProcOf[t]] = count']
    /\ Goto(t, "idle")
    /\ todo' = [todo EXCEPT ![t] = @ - 1]
    /\ UNCHANGED <<lockVars, data, frameVars, ghostVars, procVars>>

\* lseek (SEEK_CUR): the pointer may have been moved by another thread.  When
\* the write failed on a log without entries, the index becomes -1.
Tell(t) ==
    /\ pc[t] = "tell"
    /\ index' = [index EXCEPT ![t] = (pos[ProcOf[t]] - 1) % IndexRange]
    /\ offset' = [offset EXCEPT ![t] = 0]
    /\ visited' = [visited EXCEPT ![t] = 1]
    /\ Goto(t, "lock")
    /\ UNCHANGED <<lockVars, fileVars, size, left, ghostVars, todo, procVars>>

\* logdb_log_lock of the entry, in the steps of LockTable.  A failure at any
\* of them leads back to the walk.
Lock(t) ==
    /\ pc[t] = "lock"
    /\ index[t] # Far
    /\ Find(t, index[t], "write")
    /\ Goto(t, "locking")
    /\ tainted' = (tainted \/ ~\A p \in Procs : Sound(p)')
    /\ UNCHANGED <<fileVars, frameVars, done, todo, procVars>>

LockCell(t) ==
    /\ pc[t] = "locking"
    /\ TakeCell(t)
    /\ Goto(t, IF call'[t].at = "none" THEN "seek" ELSE "locking")
    /\ UNCHANGED <<fileVars, frameVars, ghostVars, todo, procVars>>

LockRecord(t) ==
    /\ pc[t] = "locking"
    /\ TakeRecord(t)
    /\ Goto(t, IF call'[t].at = "none" THEN "recheck" ELSE "locking")
    /\ UNCHANGED <<fileVars, frameVars, ghostVars, todo, procVars>>

\* p is gone: a new descriptor at the start of the entries, and what its
\* threads were committing is lost.
Die(p) ==
    /\ LockCrash(p)
    /\ pos' = [pos EXCEPT ![p] = 0]
    /\ pc' = [t \in Threads |-> IF ProcOf[t] = p THEN "idle" ELSE pc[t]]
    /\ todo' = [t \in Threads |->
                 IF ProcOf[t] = p /\ pc[t] # "idle" THEN todo[t] - 1 ELSE todo[t]]
    /\ far' = far \ {p}
    /\ UNCHANGED <<count, len, data, frameVars, ghostVars>>

\* logdb_log_lock of entry -1, and the recheck, which cannot read it: the lock
\* stays with the process, whose later calls find its counter taken.  When
\* another process has it, the counter would have to be given back, but the
\* end of its node, at startindex + 127, wraps to 126: the walk goes past the
\* end of the list and the process dies of the NULL.  The node stops no other
\* walk, nor does anything but another lock of -1 look into it.
LockFar(t) ==
    LET p == ProcOf[t] IN
    /\ pc[t] = "lock"
    /\ index[t] = Far
    /\ \/ /\ far \subseteq {p}
          /\ far' = {p}
          /\ Goto(t, "seek")
          /\ UNCHANGED <<lockVars, fileVars, frameVars, ghostVars, todo>>
       \/ /\ ~(far \subseteq {p})
          /\ Die(p)
    /\ UNCHANGED crashes

\* Is there "still enough space in the section"?  The lease starts at the
\* offset of the walk; without space the walk goes on, and the lock stays.
Recheck(t) ==
    /\ pc[t] = "recheck"
    /\ \/ /\ HasSpace(index[t], size[t])
          /\ left' = [left EXCEPT ![t] = size[t]]
          /\ tainted' = (tainted \/ offset[t] # len[index[t]])
          /\ Goto(t, "write")
       \/ /\ ~HasSpace(index[t], size[t])
          /\ Goto(t, "seek")
          /\ UNCHANGED <<left, tainted>>
    /\ UNCHANGED <<lockVars, fileVars, size, index, offset, visited, done,
                   todo, procVars>>
-----------------------------------------------------------------------------
(***************************************************************************)
(* logdb_txn_commit, once it has the lease.                                *)
(***************************************************************************)

\* logdb_txn_write_buf: one logdb_lease_write.
Write(t) ==
    /\ pc[t] = "write"
    /\ left[t] > 0
    /\ data' = [data EXCEPT ![index[t]][offset[t]] = Txn(t)]
    /\ offset' = [offset EXCEPT ![t] = @ + 1]
    /\ left' = [left EXCEPT ![t] = @ - 1]
    /\ UNCHANGED <<lockVars, count, len, pos, pc, size, index, visited,
                   ghostVars, todo, procVars>>

\* Mutant: the length is set to that of the transaction.
MutEntryLen(o, n) == n % Section

\* Mutant: the size is added although the offset has moved with the writes.
MutEntryTwice(o, n) == (o + n) % Section

\* The length stored for a lease that ends at o: an unsigned short.
EntryLen(o, n) == o % Section

\* logdb_log_write_entry, after all data is written (and synced).
Update(t) ==
    LET i == index[t]
        n == size[t] IN
    /\ pc[t] = "write"
    /\ left[t] = 0
    /\ len' = [len EXCEPT ![i] = EntryLen(offset[t], n)]
    /\ done' = done \cup {Commit(Txn(t), i, offset[t] - n, n)}
    /\ tainted' = (tainted \/ offset[t] = Section)
    /\ Goto(t, "release")
    /\ UNCHANGED <<lockVars, count, pos, data, frameVars, todo, procVars>>

\* A write or the fsync before the update fails: the lease is released and
\* the transaction is not committed.
Fail(t) ==
    /\ Faults
    /\ pc[t] = "write"
    /\ Goto(t, "release")
    /\ UNCHANGED <<lockVars, fileVars, frameVars, ghostVars, todo, procVars>>

\* logdb_lease_release.
Release(t) ==
    /\ pc[t] = "release"
    /\ Unlock(t, index[t], "write")
    /\ Goto(t, "unlocking")
    /\ UNCHANGED <<fileVars, frameVars, ghostVars, todo, procVars>>

\* logdb_log_inproc_unlock, for a release or for a lock the kernel refused.
UnlockFind(t) ==
    /\ pc[t] \in {"locking", "unlocking"}
    /\ FindHeld(t)
    /\ UNCHANGED <<leaseVars>>

UnlockCell(t) ==
    /\ DropCell(t)
    /\ \/ /\ pc[t] = "locking"
          /\ Goto(t, "seek")
          /\ UNCHANGED todo
       \/ /\ pc[t] = "unlocking"
          /\ Goto(t, "idle")
          /\ todo' = [todo EXCEPT ![t] = @ - 1]
    /\ UNCHANGED <<fileVars, frameVars, ghostVars, procVars>>
-----------------------------------------------------------------------------
\* The process is killed, and opens the log again.
Crash(p) ==
    /\ crashes < MaxCrashes
    /\ crashes' = crashes + 1
    /\ Die(p)

Step(t) ==
    \/ Seek(t) \/ Scan(t) \/ Append(t) \/ AppendShort(t) \/ Tell(t)
    \/ Lock(t) \/ LockFar(t) \/ LockCell(t) \/ LockRecord(t) \/ Recheck(t)
    \/ Write(t) \/ Update(t) \/ Fail(t)
    \/ Release(t) \/ UnlockFind(t) \/ UnlockCell(t)

Next ==
    \/ \E t \in Threads : Step(t) \/ \E n \in Sizes : Acquire(t, n)
    \/ \E p \in Procs : Crash(p)

Spec == Init /\ [][Next]_vars

\* The scheduler runs every thread that is inside a call.
FairSpec == Spec /\ \A t \in Threads : WF_vars(Step(t))
-----------------------------------------------------------------------------
(***************************************************************************)
(* Properties.                                                             *)
(***************************************************************************)

Places == {"idle", "seek", "scan", "append", "tell", "lock", "locking",
           "recheck", "write", "release", "unlocking"}

\* Every variable has its type.
LeaseTypeOK ==
    /\ LockTypeOK
    /\ count \in 0..MaxCount
    /\ len \in [Index -> Units]
    /\ pos \in [Procs -> 0..MaxCount]
    /\ data \in [Index -> [Units -> (Threads \X Nat) \cup {Old, Nothing}]]
    /\ pc \in [Threads -> Places]
    /\ size \in [Threads -> 0..Section]
    /\ index \in [Threads -> 0..Far]
    /\ offset \in [Threads -> 0..Section]
    /\ visited \in [Threads -> 0..MaxWalk]
    /\ left \in [Threads -> 0..Section]
    /\ todo \in [Threads -> 0..MaxCommits]
    /\ tainted \in BOOLEAN
    /\ far \in SUBSET Procs
    /\ crashes \in 0..MaxCrashes

\* A lease never leaves its section, although its offset may have been read
\* before the lock was taken, and before other writers moved the length in
\* either direction; and it is always on an entry that the log has, although
\* the pointer its index comes from is shared with other threads and may not
\* have moved at all: an index that wrapped is never leased.
LeaseInBounds ==
    \A t \in Threads :
        /\ pc[t] \in {"locking", "recheck", "write", "release", "unlocking"} =>
                index[t] < count
        /\ pc[t] = "write" => offset[t] + left[t] <= Section

\* Readers trust the length of an entry: every unit below it has been written
\* by some transaction, however writers raced for the section.
NoHoles ==
    \A i \in Index : \A o \in Units : o < len[i] => data[i][o] # Nothing

\* The length of an entry is the "number of bytes that are valid in this
\* section" (logdb_log.h:70): it covers every transaction published there.
LengthCovers ==
    \A c \in done : c.offset + c.size <= len[c.index]

\* A published transaction is where the log says it is, whole, and covered by
\* the length of its entry.
Intact ==
    /\ LengthCovers
    /\ \A c \in done :
        \A o \in c.offset..(c.offset + c.size - 1) :
            data[c.index][o] = c.txn

\* As long as leases start at the length of their entry, no section is filled
\* to its last byte, and no multithreaded process has two counters for one
\* entry, concurrent commits and crashes leave every published transaction
\* intact.
IntactUnlessTainted == ~tainted => Intact

\* What the Readme promises of transactions: they are atomic, and concurrent
\* writers do not corrupt each other's data.
CommittedIntact == Intact

\* A thread that asks for a lease gets one (or fails): it does not walk the
\* log for ever.
AcquireReturns == \A t \in Threads : pc[t] # "idle" ~> pc[t] = "idle"

\* Some thread kept the lock of an entry that it did not lease.
Forgotten ==
    \/ far # {}
    \/ \E t \in Threads : \E l \in holds[t] :
        pc[t] \notin {"recheck", "write", "release"} \/ l[1] # index[t]

\* The walk ends unless some thread forgets a lock.
AcquireReturnsUnlessForgotten == []~Forgotten => AcquireReturns
=============================================================================
