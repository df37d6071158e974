------------------------------- MODULE Layout -------------------------------
(***************************************************************************)
(* Where things are in the two files, in bytes: the entries of the log,    *)
(* the sections of the database, and the log that logdb_log_close_merge    *)
(* leaves at the end of the database for logdb_log_create to find          *)
(* (src/src/logdb_log.c, src/src/logdb_connection.c).                      *)
(***************************************************************************)
EXTENDS Integers, Sequences

CONSTANTS Section,  \* LOGDB_SECTION_SIZE
          Wrap      \* 2^32, the range of the product of index and section size

ASSUME LayoutAssumption ==
    /\ Section \in Nat \ {0}
    /\ Wrap \in Nat
    /\ Wrap % Section = 0

\* The sizes of logdb_header_t, logdb_log_header_t, logdb_log_entry_t and
\* logdb_trailer_t.
DbHeader == 6
LogHeader == 6
EntrySize == 2
TrailerSize == 4
MinSize == DbHeader + LogHeader + TrailerSize

logdb_log_offset(i) == LogHeader + i * EntrySize

logdb_log_index_from_offset(o) ==
    IF o < LogHeader THEN 0 ELSE (o - LogHeader) \div EntrySize

logdb_connection_offset(i) == DbHeader + ((i * Section) % Wrap)

\* Mutant: the bytes that a section does not use are kept.
MutSpare(l) == IF l = 0 THEN Section ELSE Section - l + 1

\* What is trimmed of the database for a section with length l at its end.
Spare(l) == Section - l

\* One round of the loop of the merge, at an entry with length l: one with
\* data ends the loop, the others go on to the entries before them.
Trim(l, before) ==
    IF l = 0 THEN [db |-> Spare(0) + before.db, log |-> EntrySize + before.log]
    ELSE [db |-> Spare(l), log |-> 0]

\* The loop, from the last entry of E backwards: the bytes of the database and
\* of the log that are trimmed.
Trimmed(E) ==
    LET cut[n \in 0..Len(E)] ==
          IF n = 0 THEN [db |-> 0, log |-> 0] ELSE Trim(E[n], cut[n - 1])
    IN cut[Len(E)]

\* logdb_log_close_merge of a log with entry lengths E: the size to which the
\* database is truncated, the entries that are appended to it, the trailer,
\* and the size it has then.  A negative size makes ftruncate fail.
Merged(E) ==
    LET t == Trimmed(E)
        size == logdb_log_offset(Len(E))
        minsz == logdb_connection_offset(logdb_log_index_from_offset(size)) - t.db
        logsz == size - t.log IN
    [ok |-> minsz >= 0,
     minsz |-> minsz,
     entries |-> SubSeq(E, 1, logdb_log_index_from_offset(logsz)),
     trailer |-> logsz + TrailerSize,
     dbsz |-> minsz + logsz + TrailerSize]

\* logdb_log_create on such a database: the entries of the new log.  Where the
\* trailer does not lead to a log, the new one is empty.
Created(m) ==
    IF m.dbsz >= MinSize /\ m.dbsz - m.trailer = m.minsz
    THEN SubSeq(m.entries, 1, logdb_log_index_from_offset(m.trailer - TrailerSize))
    ELSE <<>>
=============================================================================
