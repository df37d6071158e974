-------------------------------- MODULE Iter --------------------------------
(***************************************************************************)
(* Reading: the iterator of src/src/logdb_iter.c on the read leases of     *)
(* src/src/logdb_lease.c, beside writers that publish records, and beside  *)
(* a thread that closes the connection.  A read lease holds the read side  *)
(* of the connection's rwlock from one call to the next; logdb_close takes *)
(* the write side.  After a close, the next open finds the log as Layout   *)
(* says.                                                                   *)
(*                                                                         *)
(* A section holds a sequence of records, and its entry has their length.  *)
(* Writers are correct here: they append whole records and leave a unit of *)
(* the section free (Lease has what else can happen).  The library is the  *)
(* release build, without the checks of DBGIF.                             *)
(***************************************************************************)
EXTENDS Layout, Io, FiniteSets

CONSTANTS Threads,        \* the threads that share the connection
          Records,        \* the lengths of key and value of records
          InitLogs,       \* the databases that may be there at first
          Hdr,            \* the size of a record header
          PreferWriters,  \* whether a waiting writer keeps readers out
          Faults,         \* whether reads may fail
          MaxSections,    \* bound: entries of the log
          MaxWrites,      \* bound: records published
          MaxIters        \* bound: iterators made

ASSUME IterAssumption ==
    /\ IsFiniteSet(Threads)
    /\ Records \subseteq [key : Nat, value : Nat]
    /\ InitLogs \subseteq Seq(Seq(Records))
    /\ Hdr \in Nat \ {0}
    /\ PreferWriters \in BOOLEAN
    /\ Faults \in BOOLEAN
    /\ MaxSections \in Nat /\ MaxWrites \in Nat /\ MaxIters \in Nat
    /\ MaxSections * Section < Wrap

VARIABLES recs,    \* recs[i + 1]: the records published in section i
          open,    \* whether the connection is open
          at,      \* at[t]: where t is
          iter,    \* iter[t]: the iterator of t
          writes,  \* records published so far
          made     \* iterators made so far

vars == <<recs, open, at, iter, writes, made>>

Unset == -1

\* An iterator: its lease, the record under it, and the offsets from which key
\* and value were read, or Unset.  Ghosts: the last record returned in this pass over the log,
\* and all of them, those that were there when the pass began, what the last
\* call returned, and whether a read has failed or had no length.
Fresh ==
    [lease |-> FALSE, index |-> 0, offset |-> 0, len |-> 0,
     record |-> [key |-> 0, value |-> 0], key |-> Unset, value |-> Unset,
     last |-> <<0, 0>>, seen |-> {}, there |-> {}, result |-> "none",
     slipped |-> FALSE]
NoIter == [Fresh EXCEPT !.result = "freed"]

Has(t) == iter[t].result # "freed"

Size(r) == Hdr + r.key + r.value

\* The offset at which record n of s starts; of the one past the last, its end.
Start(s, n) ==
    LET from[k \in 1..n] == IF k = 1 THEN 0 ELSE from[k - 1] + Size(s[k - 1])
    IN from[n]

EntryLen(s) == Start(s, Len(s) + 1)

Entries == [i \in 1..Len(recs) |-> EntryLen(recs[i])]

\* <<i, n>> for every record n of every section i.
Published == UNION {{i - 1} \X (1..Len(recs[i])) : i \in 1..Len(recs)}

\* The databases that may be there at first were written as below.
ASSUME LogsAssumption ==
    \A log \in InitLogs :
        Len(log) <= MaxSections /\ \A i \in 1..Len(log) : EntryLen(log[i]) < Section

Init ==
    /\ recs \in InitLogs
    /\ open = TRUE
    /\ at = [t \in Threads |-> "idle"]
    /\ iter = [t \in Threads |-> NoIter]
    /\ writes = 0
    /\ made = 0

Set(t, place, x) ==
    /\ at' = [at EXCEPT ![t] = place]
    /\ iter' = [iter EXCEPT ![t] = x]
-----------------------------------------------------------------------------
(***************************************************************************)
(* The connection's rwlock.                                                *)
(***************************************************************************)

\* Mutant: threads that write are not waited for.
MutReaders == {t \in Threads : iter[t].lease}

Readers == {t \in Threads : iter[t].lease \/ at[t] = "put"}

\* pthread_rwlock_rdlock does not wait.
CanRead ==
    /\ open
    /\ PreferWriters => \A t \in Threads : at[t] # "closing"

\* Mutant: a lease that is given back keeps the lock.
MutReleased(x) == x

\* logdb_lease_release of a read lease: index, offset and len stay.
Released(x) == [x EXCEPT !.lease = FALSE]
-----------------------------------------------------------------------------
(***************************************************************************)
(* logdb_lease_read of n units.                                            *)
(***************************************************************************)

\* The lease once r was returned by logdb_io_pread: it moves by n - r, which
\* for -1 is one more than was asked for, and the length wraps.
Moved(x, n, r) ==
    LET y == [x EXCEPT !.offset = @ + n - r, !.len = (@ - (n - r)) % Wrap] IN
    IF r = 0 /\ n > 0 THEN y
    ELSE [y EXCEPT !.slipped = TRUE, !.last = <<0, 0>>, !.seen = {}, !.there = {}]

\* The results of the read, and the lease after it: nothing is read past the
\* end of the lease.  Published data is in the file, so the file has n.
Reads(x, n) ==
    IF n > x.len THEN {[ok |-> FALSE, lease |-> x]}
    ELSE {[ok |-> r = 0, lease |-> Moved(x, n, r)] : r \in ReadResults(n, n, Faults)}

\* The record whose header is at the offset of x; if there is none there, data
\* is taken for a header.
Found(x) ==
    {n \in 1..Len(recs[x.index + 1]) : Start(recs[x.index + 1], n) = x.offset}
-----------------------------------------------------------------------------
(***************************************************************************)
(* logdb_iter_all, logdb_iter_next.                                        *)
(***************************************************************************)

IterAll(t) ==
    /\ at[t] = "idle"
    /\ ~Has(t)
    /\ open
    /\ made < MaxIters
    /\ made' = made + 1
    /\ Set(t, "idle", [Fresh EXCEPT !.there = Published])
    /\ UNCHANGED <<recs, open, writes>>

\* Mutant: a value that was not read is not skipped.
MutUnread(x) == IF x.key # Unset THEN 0 ELSE x.record.key

\* The length of what was not read of the current record.
Unread(x) ==
    (IF x.key # Unset THEN 0 ELSE x.record.key)
    + (IF x.value # Unset THEN 0 ELSE x.record.value)

\* Mutant: the section that was just read is read again.
MutNextIndex(x) == IF x.lease THEN x.index ELSE 0

NextIndex(x) == IF x.lease THEN x.index + 1 ELSE 0

\* A lease that has no room for a header is given back, and the search begins
\* at the next section, or, without a lease, at the first one.
NextSection(t) ==
    LET x == iter[t] IN
    /\ at[t] = "idle"
    /\ Has(t)
    /\ open
    /\ x.len < Hdr
    /\ IF x.lease
       THEN Set(t, "scan", [Released(x) EXCEPT !.index = NextIndex(x), !.result = "none"])
       ELSE Set(t, "scan", [Fresh EXCEPT !.index = NextIndex(x), !.record = x.record,
                                         !.key = x.key, !.value = x.value, !.there = Published])
    /\ UNCHANGED <<recs, open, writes, made>>

\* Otherwise what was not read is skipped (logdb_lease_seek).
NextRecord(t) ==
    LET x == iter[t] IN
    /\ at[t] = "idle"
    /\ Has(t)
    /\ x.lease
    /\ x.len >= Hdr
    /\ x.offset <= Section
    /\ Set(t, "header", [x EXCEPT !.offset = @ + Unread(x), !.len = (@ - Unread(x)) % Wrap,
                                 !.result = "none"])
    /\ UNCHANGED <<recs, open, writes, made>>

\* Mutant: an entry without data ends the search.
MutScanned(x) == IF x.index < Len(recs) /\ Entries[x.index + 1] > 0 THEN "acquire" ELSE "idle"

\* Where the search goes on: at the first entry that has data the lease is
\* taken; past the last one the call ends.
Scanned(x) ==
    CASE x.index >= Len(recs) -> "idle"
      [] x.index < Len(recs) /\ Entries[x.index + 1] = 0 -> "scan"
      [] OTHER -> "acquire"

\* logdb_log_read_entry, with no lock held.
Scan(t) ==
    LET x == iter[t] IN
    /\ at[t] = "scan"
    /\ open
    /\ \/ Set(t, Scanned(x),
              CASE Scanned(x) = "idle" -> [x EXCEPT !.result = "end"]
                [] Scanned(x) = "scan" -> [x EXCEPT !.index = @ + 1]
                [] OTHER -> x)
       \/ Faults /\ Set(t, "idle", [x EXCEPT !.result = "failed"])
    /\ UNCHANGED <<recs, open, writes, made>>

\* logdb_lease_acqire_read, which reads the length of the entry again.
AcquireRead(t) ==
    LET x == iter[t] IN
    /\ at[t] = "acquire"
    /\ CanRead
    /\ \/ Set(t, "header", [x EXCEPT !.lease = TRUE, !.offset = 0,
                                     !.len = Entries[x.index + 1]])
       \/ Faults /\ Set(t, "idle", [x EXCEPT !.result = "failed"])
    /\ UNCHANGED <<recs, open, writes, made>>

\* Record n of its section is returned on lease x.
Returned(x, n, i, r) ==
    LET y == [x EXCEPT !.record = r, !.result = "record"] IN
    IF y.slipped THEN y
    ELSE [y EXCEPT !.last = <<i, n>>, !.seen = @ \cup {<<i, n>>}]

\* Old key and value are freed, and the header is read.
ReadHeader(t) ==
    LET x == [iter[t] EXCEPT !.key = Unset, !.value = Unset]
        i == x.index IN
    /\ at[t] = "header"
    /\ \E r \in Reads(x, Hdr) :
        \/ /\ r.ok
           /\ \E n \in Found(x) : Set(t, "idle", Returned(r.lease, n, i, recs[i + 1][n]))
        \/ /\ r.ok
           /\ Found(x) = {}
           /\ \E d \in Records : Set(t, "idle", Returned(r.lease, 0, i, d))
        \/ /\ ~r.ok
           /\ Set(t, "idle", [r.lease EXCEPT
                !.result = IF Hdr > x.len THEN "skipped" ELSE "failed"])
    /\ UNCHANGED <<recs, open, writes, made>>
-----------------------------------------------------------------------------
(***************************************************************************)
(* logdb_iter_current_key, logdb_iter_current_value, logdb_iter_free.      *)
(***************************************************************************)

KeyReads(x) ==
    IF x.key # Unset THEN {x}
    ELSE {[r.lease EXCEPT !.key = IF r.ok THEN x.offset ELSE Unset] :
            r \in Reads(x, x.record.key)}

ValueReads(x) ==
    IF x.value # Unset THEN {x}
    ELSE {[r.lease EXCEPT !.value = IF r.ok THEN x.offset ELSE Unset] :
            r \in Reads(x, x.record.value)}

CurrentKey(t) ==
    /\ at[t] = "idle"
    /\ iter[t].result = "record"
    /\ iter[t].offset <= Section
    /\ \E y \in KeyReads(iter[t]) : Set(t, "idle", y)
    /\ UNCHANGED <<recs, open, writes, made>>

\* Mutant: the value is read without the key before it.
MutCurrentValues(x) == ValueReads(x)

\* The key is read first if it was not.
CurrentValues(x) ==
    IF x.value # Unset THEN {x} ELSE UNION {ValueReads(y) : y \in KeyReads(x)}

CurrentValue(t) ==
    /\ at[t] = "idle"
    /\ iter[t].result = "record"
    /\ iter[t].offset <= Section
    /\ \E y \in CurrentValues(iter[t]) : Set(t, "idle", y)
    /\ UNCHANGED <<recs, open, writes, made>>

IterFree(t) ==
    /\ at[t] = "idle"
    /\ Has(t)
    /\ Set(t, "idle", [NoIter EXCEPT !.lease = Released(iter[t]).lease])
    /\ UNCHANGED <<recs, open, writes, made>>
-----------------------------------------------------------------------------
(***************************************************************************)
(* Writers, logdb_close, and the next logdb_open.                          *)
(***************************************************************************)

\* The log with r appended to section i, or to a new section.
Added(i, r) ==
    IF i < Len(recs) THEN [recs EXCEPT ![i + 1] = Append(@, r)]
    ELSE Append(recs, <<r>>)

\* A thread of this process commits: it holds the read side of the rwlock
\* from the lease to its release.
PutBegin(t) ==
    /\ at[t] = "idle"
    /\ open
    /\ writes + Cardinality({u \in Threads : at[u] \in {"putting", "put"}}) < MaxWrites
    /\ Set(t, "putting", iter[t])
    /\ UNCHANGED <<recs, open, writes, made>>

PutLease(t) ==
    /\ at[t] = "putting"
    /\ CanRead
    /\ Set(t, "put", iter[t])
    /\ UNCHANGED <<recs, open, writes, made>>

PutEnd(t) ==
    /\ at[t] = "put"
    /\ Set(t, "idle", iter[t])
    /\ writes' = writes + 1
    /\ \/ \E i \in 0..Len(recs), r \in Records :
            /\ i < MaxSections
            /\ EntryLen(Added(i, r)[i + 1]) < Section
            /\ recs' = Added(i, r)
       \/ UNCHANGED recs
    /\ UNCHANGED <<open, made>>

\* A writer, here or in another process, has appended an entry.
Extend ==
    /\ Len(recs) < MaxSections
    /\ writes + Cardinality({u \in Threads : at[u] \in {"putting", "put"}}) < MaxWrites
    /\ open
    /\ recs' = Append(recs, <<>>)
    /\ writes' = writes + 1
    /\ UNCHANGED <<open, at, iter, made>>

\* logdb_close waits for the write side of the rwlock.
Close(t) ==
    /\ at[t] = "idle"
    /\ open
    /\ \A u \in Threads : at[u] # "closing"
    /\ Set(t, "closing", iter[t])
    /\ UNCHANGED <<recs, open, writes, made>>

\* The connection is gone, and the log with it if this was the last process.
\* Of the records, those are left that the truncated database contains.
Closed(t) ==
    /\ at[t] = "closing"
    /\ Readers = {}
    /\ open' = FALSE
    /\ Set(t, "idle", iter[t])
    /\ \/ \E m \in {Merged(Entries)} :
            /\ m.ok
            /\ recs' = [i \in 1..Len(Created(m)) |->
                  IF logdb_connection_offset(i - 1) + Created(m)[i] <= m.minsz
                  THEN recs[i] ELSE <<>>]
       \/ UNCHANGED recs
    /\ UNCHANGED <<writes, made>>

\* logdb_open, once the threads are done with the old connection.
Reopen ==
    /\ ~open
    /\ \A t \in Threads : at[t] = "idle" /\ ~Has(t)
    /\ open' = TRUE
    /\ UNCHANGED <<recs, at, iter, writes, made>>

Step(t) ==
    \/ Scan(t) \/ AcquireRead(t) \/ ReadHeader(t)
    \/ PutLease(t) \/ PutEnd(t) \/ Closed(t)

Next ==
    \/ \E t \in Threads :
        \/ Step(t)
        \/ IterAll(t) \/ NextSection(t) \/ NextRecord(t)
        \/ CurrentKey(t) \/ CurrentValue(t) \/ IterFree(t)
        \/ PutBegin(t) \/ Close(t)
    \/ Extend
    \/ Reopen

Spec == Init /\ [][Next]_vars

\* The scheduler runs threads that are inside a call, and the application
\* frees an iterator sooner or later.
FairSpec ==
    Spec /\ \A t \in Threads : WF_vars(Step(t)) /\ SF_vars(IterFree(t))
-----------------------------------------------------------------------------
(***************************************************************************)
(* Properties.                                                             *)
(***************************************************************************)

\* Every variable has its type; a thread that reads has a lease, and unless a
\* read failed or had no length, the lease stays inside the published part of
\* its section.
IterTypeOK ==
    /\ recs \in Seq(Seq(Records))
    /\ open \in BOOLEAN
    /\ at \in [Threads -> {"idle", "scan", "acquire", "header", "putting", "put", "closing"}]
    /\ writes \in 0..MaxWrites
    /\ made \in 0..MaxIters
    /\ \A t \in Threads :
        LET x == iter[t] IN
        /\ at[t] = "header" => x.lease
        /\ x.result = "record" => x.lease
        /\ x.lease /\ ~x.slipped =>
            x.index < Len(recs) /\ x.offset + x.len <= Entries[x.index + 1]

\* What an iterator returns is a published record, with its own key and value,
\* whichever of the keys and values before it were read and which were
\* skipped: unless a read failed or had no length, which moves the lease by
\* the wrong amount.
RecordsUnlessSlipped ==
    \A t \in Threads :
        LET x == iter[t]
            s == recs[x.last[1] + 1]
            start == Start(s, x.last[2]) + Hdr IN
        x.result = "record" /\ ~x.slipped =>
            /\ x.last \in Published
            /\ x.record = s[x.last[2]]
            /\ x.key \in {Unset, start}
            /\ x.value \in {Unset, start + x.record.key}

\* In one pass over the log records come in order and none comes twice,
\* although sections grow while they are read.
Delivered(t) == at[t] = "header" /\ at'[t] = "idle" /\ iter'[t].result = "record"

InOrder ==
    [][\A t \in Threads :
        Delivered(t) /\ ~iter[t].slipped /\ iter[t].last[2] > 0 =>
            LET old == iter[t].last
                new == iter'[t].last IN
            \/ new = <<old[1], old[2] + 1>>
            \/ new[1] > old[1] /\ new[2] = 1]_vars

\* When logdb_iter_next says that "there are no more records" (logdb.h:91),
\* every record has been returned that was there when the pass began.  This
\* leaves out failed reads, and the other way in which it returns 0: the last
\* record of a section was skipped, and had the length of a header or more.
EndMeansAll ==
    \A t \in Threads :
        iter[t].result = "end" /\ ~iter[t].slipped =>
            iter[t].there \subseteq iter[t].seen

\* logdb_close does "wait for any other threads to finish" reading and writing
\* (logdb_connection.c:195): it only overtakes a thread that is between two
\* leases of one logdb_iter_next, or has not yet got the lock.
LeaseKeepsOpen ==
    \A t \in Threads :
        iter[t].lease \/ at[t] \in {"header", "put"} => open

\* Closing and opening the database keeps every record where it was, although
\* the merge trims the database and the log, and the new log is found through
\* the trailer.
RecordsKept ==
    [][\A i \in 1..Len(recs) : recs[i] # <<>> =>
        /\ i \in DOMAIN recs'
        /\ \A n \in 1..Len(recs[i]) :
            n \in DOMAIN recs'[i] /\ recs'[i][n] = recs[i][n]]_vars

\* The same for every log of a few sections (TLC goes through them before the
\* first call), and sections do not overlap: as long as the products of index
\* and section size do not wrap.
LayoutSound ==
    made = 0 /\ writes = 0 =>
    \A n \in 0..MaxSections : \A E \in [1..n -> 0..(Section - 1)] :
        LET m == Merged(E) IN
        /\ m.ok
        /\ \A i \in 1..n :
            /\ E[i] > 0 => i <= Len(Created(m)) /\ Created(m)[i] = E[i]
            /\ E[i] > 0 => logdb_connection_offset(i - 1) + E[i] <= m.minsz
            /\ logdb_connection_offset(i - 1) + Section <= logdb_connection_offset(i)

\* A thread closes the connection while its own iterator has a lease, or waits
\* for the lock while it has one and writers go first.
Nested ==
    \E t \in Threads :
        iter[t].lease /\ (at[t] = "closing" \/ (at[t] = "putting" /\ ~CanRead))

\* logdb_close returns, unless a thread waits for a lock while it has a lease.
CloseReturnsUnlessNested ==
    []~Nested => \A t \in Threads : at[t] = "closing" ~> at[t] # "closing"
=============================================================================
