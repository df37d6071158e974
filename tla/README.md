# A verification of LogDB

LogDB is a C library that stores records in one file, written by many threads of
many processes at once. This directory holds TLA+ models of the parts on which
its promises rest ("Concurrent writes", "Atomic and durable", `Readme.md:9-10`),
TLC configurations that check them on small instances, and TLAPS proofs for
instances of any size. File names such as `logdb_log.c` are those of `src/src/`.

## 1. The system

### Components

| Component | State | Operations | What makes it correct |
|---|---|---|---|
| Log entry locks (`logdb_log.c:244-346`) | in the process a list of nodes with 128 counters each; in the kernel one `fcntl` lock per process and entry | `logdb_log_lock`, `logdb_log_unlock` | two writers never hold one entry; counters are counted right; no access outside a node; calls return |
| Write leases (`logdb_lease.c`) | index, offset, length; the log file's pointer, shared by the threads of a process | `logdb_lease_acquire_write`, `_write`, `_release` | a lease stays in its section; it starts where the section ends; acquiring ends |
| Transactions (`logdb_txn.c`) | a stack of transactions per thread, each with a chain of buffers | `logdb_begin`, `logdb_put`, `logdb_commit`, `logdb_rollback` | all or nothing; what is published stays as it was written |
| Connections (`logdb_connection.c`) | the `flock` on the database, the open log | `logdb_open`, `logdb_close` | all connections use one log; a NOSYNC connection is alone; opening returns |
| Log file (`logdb_log.c:43-242, 348-439`) | header and entries; a copy of it at the end of the database while it is closed | create, recover, open, merge, unlink | nothing published is lost at any crash or failed write |
| Buffers (`logdb_buffer.c`) | chains of reference-counted buffers | new, append, data, retain, free | no use after free, no lost data |
| Iterators (`logdb_iter.c`) | a read lease, the record under it | `logdb_iter_next`, `current_key`, `current_value`, `free` | each published record once and whole; closing waits for leases |
| I/O loops (`logdb_io.c`) | none | loops over partial `read`/`write` | complete or an error |
| Durability (`logdb_txn.c:90-108`) | what of the two files is on disk | `fsync` of the database, of the log | what was committed survives a power failure |
| Binding, tests, stress test | | | not part of the model |

### How they interact

`logdb_open` makes a connection and its log. `logdb_put` and `logdb_commit` end in
`logdb_txn_commit`, which acquires a lease: the lease walks the entries of the
log file, locks one entry (in the process, then in the kernel), and writes data
into the section of the database file that belongs to the entry. The commit then
stores the new length in the entry, which is what publishes the data, and
releases the lease. `logdb_close` waits for the leases of its process, finds out
with `flock` whether it is the last process, and if so copies the log to the end
of the database and unlinks it. Processes share only the two files and the two
kinds of locks on them; a thread shares with the others of its process the lock
list and the file pointer of the log.

### What is hard

Every hazard is listed in `PROJECT.json` with its line. In short: lists and
counters that change between two atomic operations; `fcntl` locks that belong to
the process; lengths read before a lock and used after it; locks left behind on
an error path; retry loops; 16-bit lengths and 32-bit products; a lock whose
conversion is not atomic; crashes, power and writes that fail between the steps
that build or merge the log; buffers shared between caller, records and
transactions; a read position that many combinations of calls move; a lock that
an iterator keeps between calls.

## 2. The modules

    LockTable  <---implements---  LogLock        (the locks, coarse and fine)
        ^
        | EXTENDS
      Lease                                      (the write path, on the locks)
    Store      <---implements---  Connection     (the life of the log file)
    Durability                                   (the same and commits, on disk)
    Txn                                          (transactions and buffers)
    Iter  --EXTENDS-->  Layout, Io               (reading, closing, the two files)

    LockTableProofs (EXTENDS LockTable), LeaseProofs (EXTENDS Lease, LockTableProofs),
    IntactProofs (EXTENDS LeaseProofs), LogLockProofs (INSTANCEs LockTableProofs),
    ConnectionProofs, DurabilityProofs, IterProofs, TxnProofs: the proofs of section 5
    MCLogLock, MCLease, MCConnection, MCDurability, MCTxn, MCIter: instances for TLC

**LockTable** is the abstract specification of the locks. `nodes[p]` are the start
indices of the nodes of process `p`, `cell[p][s][i]` the counter of entry `i` in
node `s`, `record[i][p]` the kernel's lock. `Find` is a whole walk of the list,
with the insertion of a node where the code inserts one; `TakeCell`, `TakeRecord`
are the compare-and-swap and the `fcntl` call; `Unlock`, `FindHeld`, `DropCell`
the steps of the way back. `LockCrash` is the end of a process. A thread may ask
again for an entry it has locked for writing, because a lease does that after it
has forgotten a lock (see below).

**LogLock** is the same code at the level of its atomic loads and swaps. `next` is
the chain of pointers, `dest`, `lock` and `value` are the locals. It implements
LockTable: a walk takes effect at the load that reaches its last node, a refusal
at the load of the counter (`ImplementsLockTable`). Weak compare-and-swaps that
fail without a reason are stuttering steps.

**Lease** is `logdb_lease_acquire_write`, the commit of an outermost transaction and
`logdb_lease_release`, one action per system call on the two files, with the lock
steps of LockTable in between. `count` and `len` are the log file, `pos` the file
pointer, `data` the database: for every unit of every section, the transaction
that wrote it. `size`, `index`, `offset`, `visited`, `left` are the locals and
the lease. Bytes are scaled to units, `Section` of them to a section, and lengths
are stored modulo `Section`, as the code stores 65536 values in 16 bits.
Transactions are identified by thread and number. `done` remembers what was
published and where.
`tainted` remembers whether one of three things has happened that the code does
not guard against (section 4). An append may fail, which the code does not notice, or
come short, which it does. The first on an empty log gives the index -1: indices are
taken modulo `IndexRange`, which stands for 2^32, `Far` is -1, and `LockFar` is the lock
of that entry, which is never given back (`far`) and of which a process may die (`Die`).

**Connection** is `logdb_open` and `logdb_close`, one action per system call: the
decision by `flock` who creates the log, the creation (content first, header last),
recovery of what a crash left, the shared lock, the merge in its steps. A log is the set
of transactions it makes visible; bytes at the end of the database are nothing, a log,
or garbage. What is opened first may be a file of another kind, whose start
`LOGDB_OPEN_CREATE` overwrites (`foreign`); a log that is made from garbage is empty or
has entries for data that LogDB never wrote (`Contents`, `Junk`), or is not made at all.
A commit is two actions here (data, then publication), as Lease has the details.
`AtomicConversion` says how the kernel converts an `flock`: in place, as Darwin and the
BSDs do for the conversions used here, or by dropping the old lock first, as flock(2)
allows and Linux does.

**Store** is what a database is to the process that opens it next: a set of transactions
that grows by one whole transaction at a time. Connection implements it; the mapping
(`Visible`, without `Junk`) is the log file where there is a valid one, and the log at
the end of the database otherwise.

**Durability** has every file twice: `cache` is what processes see, `disk` what a
power failure leaves. `Writeback` moves any part from one to the other at any time,
`SyncData` and `SyncLog` are the two `fsync`s of a commit, `PowerFailure` sets `cache`
to `disk`. Opening and merging are as in Connection, reduced to one actor: the
processes share the cache, and Connection shows that they share the log. `kept` is
what the log file held at its last `fsync`. A log made from other bytes may name any
transactions (`Entries`), and `junk` remembers which.

**Txn** is the public interface of `logdb_txn.c` and `logdb_buffer.c`. `heap` is the
memory, `stack[t]` the open transactions of a thread, `held` the caller's references.
`Join` is `logdb_buffer_append`, `Free` `logdb_buffer_free`, `Flat` `logdb_buffer_data`,
`ClosedAll` `logdb_txn_destruct`. `Free` is a loop over the buffers that are still to be
given back, one call per turn (`FreeOne`), in the order in which the code's recursion
meets them. `logdb_put` is two steps (`Put`, `PutCommit`), so that other calls may come
between the making of the record and its commit. Each transaction carries what its calls
were given (`want`) and whether the code has already let the two differ (`hurt`). What a
buffer that grows is part of is marked in the transactions of all threads (`Marked`),
for a nested commit too: the outer transaction may have a buffer of the application
without a reference, which other transactions refer to (section 3). The model follows a
behaviour up to the first use of a freed buffer: an action on a transaction that has one
is not enabled.

**Layout** has the functions on offsets: sections, entries, the trimming of the
merge (`Trim`, `Trimmed`, `Merged`), and the way back through the trailer (`Created`). **Io**
has the read loop with its three kinds of results, and the fourth: for a read of
no bytes the result is an uninitialized variable's. **Iter** is the iterator on a read
lease, one action per call, or per lock and system call where others can come
between. Sections hold sequences of records, so that an offset that does not point
to a header is seen. Two threads share the connection; `Close` waits for the write
side of the rwlock, and then the merge and the next open go through Layout.

## 3. What is checked

`PROJECT.json` lists each run with its properties, and for each property a
mutation of the code that TLC then finds.

| Run | Instance | Question |
|---|---|---|
| `log_lock` | 2 processes, 2 + 1 threads, 3 entries, node size 2 | Does the pointer code implement LockTable and keep the list sorted and whole? |
| `log_lock_returns` | the same, 2 entries, node size 1, fairness | Does every call return? |
| `lease` | 2 processes, 4 commits, a log with an entry, sections of 6 units, 1 crash, fairness | Do lengths cover only written data, are commits intact, do the locks under them exclude, does acquiring end? |
| `lease_faults` | 2 processes, 2 + 1 threads, an empty log, failing and short writes | With a shared file pointer and list: do leases and counters stay in bounds, also after an index has wrapped, are commits intact, counters exact, and does the kernel's lock stay under a writer? |
| `connection` | 3 processes, 4 opens, a new file or one of another kind, failing writes, 1 crash | One log for all, nothing lost, NOSYNC alone; is it the abstract store? |
| `connection_drop` | the same without failures, lock conversion not atomic, fairness | What is left of it where `flock` drops locks; does `logdb_open` return? |
| `txn` | 1 thread, 2 nested transactions, 2 buffers, 2 puts, 6 cells | Are reference counts exact, are live buffers usable, is what is written what was put? |
| `iter` | 2 threads, 3 sections of 9 units, records of 3 and 4, failing reads, fairness | Whole records, in order, all of them; does closing wait, keep them, and end? |
| `durability` | 2 transactions, 2 log files, 2 crashes, NOSYNC or not, failing `fsync` | Is what a power failure leaves whole, and does it have what was synced? |

Three runs state what a comment or the Readme says of the code, and are violated:

| Run | What happens |
|---|---|
| `lease_stale_offset` | Two processes read the length of an entry; one locks, commits and unlocks; the other then gets the lock, sees that there is still space, and writes at the length it read first. |
| `txn_nested` | `logdb_begin`, `logdb_put`: the record becomes the outer transaction's buffer without a reference, and is freed when the implicit transaction of the put is closed. |
| `durability_lost` | Open, commit, close: the log file is unlinked on disk before the log at the end of the database is there. The next open finds no log there either. |

Other defects appear in the models as the conditions of properties that hold:

- Two threads of a process lock entry 1, then entry 0: the node made for 0 has a
  second counter for entry 1, and both threads can have its write lock
  (`logdb_log.c:276`; `WriterExclusion`, `Sound`).
- A section filled to its last byte gets length 65536 modulo 65536 = 0
  (`logdb_txn.c:99`; `IntactUnlessTainted`).
- An append that fails on an empty log goes unnoticed (`logdb_lease.c:114`) and gives
  entry 2^32 - 1, whose lock the process takes and never gives back. Another process that
  is refused this lock walks past the end of its list, because the end of a node at
  2^32 - 1 wraps to 126, and dies of a NULL pointer (`logdb_log.c:248`; `LockFar`,
  and `far` in `Forgotten`).
- A writer whose recheck fails goes on without unlocking (`logdb_lease.c:148`), and
  another one can then walk for ever (`AcquireReturnsUnlessForgotten`, `Forgotten`).
- Where `flock` drops a lock to convert it, a closing process can merge and unlink
  the log between its creation and its use (`logdb_connection.c:133`; `SharedLog` is
  checked for atomic conversions only, `LogStays` for both).
- An empty key or value can move the lease by one byte too many
  (`logdb_io.c:36`, `logdb_lease.c:171`; `slipped` in `RecordsUnlessSlipped`).
- If the last record of a section was not read and is as long as a header,
  `logdb_iter_next` returns 0 once and goes on with the next call
  (`logdb_iter.c:38`; the result "skipped", which `EndMeansAll` leaves out).
- `logdb_iter_next` looks for the next section without a lock, and another thread can close
  and free the connection meanwhile (`logdb_iter.c:42-51`; `LeaseKeepsOpen` speaks of
  leases only).
- A thread that closes while its own iterator has a lease waits for ever
  (`Nested`); so does one that takes a second lease while another waits to close,
  where the rwlock prefers writers, as macOS and glibc with that option do.
- The pointers that `logdb_buffer_data` forgets are counted as if they were there
  (`leaked` in `CountsExact`); a failed allocation or an overflow inside `logdb_put`
  loses parts of a record without an error (`hurt`).
- When a header does not fit with its key, `logdb_put` puts the caller's value itself, without
  a reference (`logdb_txn.c:164`). A nested commit then appends to that buffer, and every
  other pending record that refers to it grows too, in whichever thread (`hurt`). The
  bounds of `txn` do not reach this case; the proof of `AckedAsPut` had to consider it.
- Where the end of the database is no log and there is no log file either,
  `logdb_log_create` keeps the size that those bytes give and writes as much of the memory
  behind its own header into the new log (`logdb_log.c:157`, `:164`, `:184`): entries for
  data that LogDB never wrote. A file of another kind that is opened with
  `LOGDB_OPEN_CREATE` gets there (`logdb.h:34-35` says it is overwritten, which only its
  start is; `foreign` in `TrailerGuarded`, `Junk` in `ImplementsStore`), and a power failure
  after a first commit does (`junk` in `NothingTorn`).
- With NOSYNC a power failure may leave entries without their data, where
  `logdb.h:41-42` only says that commits are "rolled back" (`NothingTorn` excludes
  them, `lax`).

The one retry of `logdb_open` is deliberately weak: a process may be refused a
healthy database if two others close and open at that moment
(`logdb_connection.c:148-157`). The models show that it then returns an error and
does no harm (`OpenReturns`, `SharedLog`).

### Bounds

Two threads in a process and a second process are the least that show both
layers of a lock. A node size of 2 with three entries has overlapping nodes, and
entries past the end of a node. Sections of 4
to 6 units hold more than one transaction, can be filled exactly (4, in
`lease_stale_offset`), and get too full while a thread waits for the lock (6), which is
what a failed recheck needs; `MaxWalk` = 2 is reached.
`MaxCount` is large enough that the fair runs never block at it (they would fail).
In `lease_faults` two entries are the limit, with one commit for each of three threads: one
entry that appends race for, one that the others go on to.
`IndexRange` = 16 only has to be larger than any index, so that a wrapped one is told from
one of the log; half entries that short appends leave are not counted, a later append
completes one or not.
Three processes are needed for a creator, a process that closes, and one that
attaches; four opens let one of them come back after a crash. The buffers of
`txn` have 1 and 3 units, a section 3 and `logdb_size_t` 4, so that a record can fit,
be too long for a lease, and overflow; six cells hold a nested record and what a
second one needs. The run has one thread: buffers are shared by calls that are actions of
nobody in particular, and what two threads with pending records do to each other
through a borrowed buffer is beyond a run of some minutes; the theorems of TxnProofs
cover it, for any threads. Sections of 9 units hold several
records of 3 and 4; the initial logs of `iter` have empty sections before, between
and behind full ones, and `LayoutSound` goes through all lengths of three sections.
Two log files are needed for a merged log that is overwritten before its successor
is synced. `MaxHolds`, `MaxCount`, `MaxCommits`, `MaxCrashes`, `MaxOpens`, `MaxLogs`,
`MaxCells`, `MaxMade`, `MaxHeld`, `MaxDepth`, `MaxPuts`, `MaxSections`, `MaxWrites` and
`MaxIters` are the only bounds on behaviours. The runs on LockTable's invariants
take write locks only, as the library does; the proofs have both types. Deadlock
is not checked in the modules with such bounds (all but LogLock), since all
threads may have made their last call.

### Fairness

`FairSpec` is weak fairness of the steps of every thread (process) that is inside a
call: the scheduler runs a thread that can run. No fairness is assumed for
starting a call, for closing, or for crashes. `OpenReturns` assumes of the
application that a NOSYNC connection is closed some time, because `flock
(LOCK_SH)` waits for it. `CloseReturnsUnlessNested` assumes that
applications free their iterators, even if other calls on the same thread come
between (strong fairness of `IterFree`), because a lease keeps the rwlock.
`AcquireReturnsUnlessForgotten` and `CallsReturn` do not
claim freedom from starvation under endless new calls of others: the first is
checked with a bounded number of commits, the second for write locks, the only
type the library requests; readers could make a reader's swap fail for ever.

## 4. What the write path guarantees

`LeaseInBounds`, that a lease is on an entry the log has and stays in its section, and
`NoHoles` hold whatever happens, a wrapped index included. `Intact`, that published
transactions stay whole and covered, does not; three causes break it, and
`IntactUnlessTainted` says that there is no fourth: a lease that starts at a stale
offset, a section filled to its last byte, an overlap in the lock list of a
multithreaded process. `WriterExclusion` in the same way names the only way
around the locks.

## 5. What is proved

The proofs need no bounds: any processes and threads (finite sets where their
number is counted), any number of entries, commits, log files, crashes and
records, any node, section and walk size. Each module finds an inductive
invariant, shows that it holds at the start and that every action keeps it, and
reads the properties off it. `PROJECT.json` lists the theorems; all but three state
a property that a run checks on a small instance as well. Every safety property of
a passing run is proved.

**LockTableProofs.** `LockInv` is inductive for `LockStep`, any step on the locks,
so that a specification that composes LockTable can reuse it. The parts:
`CellInBounds` and `HoldsCovered` (whoever owns a counter has a node for it, and
since nodes are only added, the first node that reaches an entry then also
covers it); `RecordExclusion` (the kernel); `OneMode` and `CallApart` (a thread
is not an owner twice); `CellsCountOwners` (a counter is the number of its
owners, by cardinality); `WriteInKernel`. The last two say nothing of processes
in which an entry has two counters.
Exclusion follows in a process from the counter, and between processes from the
kernel's records. Theorems: `LockTypesCorrect`, `CountersInBounds`,
`CountersCount`, `WritersExclude`, `WritersKeepRecord`.

**LogLockProofs.** `ListInv` says that the nodes reached from the head are a chain
in ascending order with one pointer to each (`Chained`), and where the locals of a
thread inside a call point (`ThreadInv`): the node it works on stays in the list,
a walk has passed only nodes that end before its entry, and an entry whose lock is
held has a node. That is why a compare-and-swap on `dest` inserts at the right place
although other threads have inserted in the meantime. Theorems: `ListStaysSorted`;
`RefinesLockTable`, that every load and swap is a step of LockTable or none
(`ImplementsLockTable`); and `PointersLock`, the theorems of LockTableProofs carried
over to the pointers through that refinement (counters in bounds and exact, writers
excluded, the kernel's lock kept).

**LeaseProofs.** `LeaseInv` adds to `LockInv`: `PointerInLog`, `WalkInLog` (at each
place of the write path, the index is one of the log, or the -1 that a failed append to
an empty log gives, and then no space is ever found with it; where a subtraction may wrap
is what `Wrap` is for), `RoomAhead` (the offset from the walk plus the size
fits the section, whatever the length has become since), `Pending`, and
`FilledBelow`: all units below an offset that a thread carries are written. The
last one is why even a stale offset leaves no hole. Theorems: `LeaseTypesCorrect`,
`LeasesInBounds`, `LengthsHonest`, `WritersExcludeInLease`.

**IntactProofs.** `IntactInv`, next to `LeaseInv`: a thread has the lock of its entry
from the recheck to the release (`LeaseLocked`); as long as nothing has happened that
`tainted` remembers, it writes from the length of the entry on and what it has written
is its own (`WritesFromLength`), and what is published lies in the log (`DoneInLog`).
Exclusion of writers comes from `LockInv`, through `SoundUntilTainted`. Theorem:
`CommitsStayIntact`, that is `IntactUnlessTainted`: the three causes of section 4 are
all there are.

**ConnectionProofs.** Two invariants. `LocksInv` has what rests on `flock` alone, with
both ways of converting a lock: an exclusive lock excludes (`FlockExcludes`), and each
step of opening and closing runs under the lock it needs (`FlockPlaces`). From it:
`ConnectionTypesCorrect`, `NoSyncExcludes`, `LogStaysInUse`. `LogInv` holds where a lock
is converted in one step; the theorems that need it have `AtomicConversion` as their
hypothesis: `OneSharedLog`, `NothingLost`, `TrailerSafe`, `RefinesStore`. Its heart is
`VisibleExact`, that the next process finds exactly what was published, and `Junk` at
most, at every step of creating, recovering and merging; `OneLog`, `NewLogs` and
`FoundCurrent` say which files and which bytes at the end of the database that rests on.

**DurabilityProofs.** `DurabilityInv` relates the cache, the disk and the commits under
way: a commit has its data in the cache (`CommitsInOpen`), whatever a log names in
the cache, on the disk or in memory has its data on the disk unless the `fsync` was
skipped (`NamedOnDisk`), what the log had at its last
`fsync` in both copies (`KeptInBoth`), for any writeback at any time. What a log made from
garbage names is exempt (`junk`). Theorems:
`DurabilityTypesCorrect`, `NeverTorn`, `SyncedSurvives`, `LosesOnlyWithPower`.

**IterProofs.** The offset of an iterator is a number of bytes, and the properties
speak of records. `IterInv` connects the two: an iterator with a lease is at the header
of a record of its section (`AtHeader`), behind the key or the value of the one it
returned (`AtRecord`), or at the end (`AtEnd`), and all records before that place which
were there when the pass began have been returned (`Passed`). What others publish is
behind the lease, which was taken with the length at that time (`Leased`). An iterator
that has slipped is exempt. Theorems: `IterTypesCorrect`, `RecordsReturned`,
`NoneMissed`, `LeaseHoldsOpen`, `ReturnedInOrder`, `RecordsStay`, and for the merge
`SectionsKept`. The starts of records, the read loop and the trimming loop are
recursive functions. The library's induction rules take an operator that the
provers cannot instantiate, so the module derives induction over a set from the fact
that `<` is well-founded (`Least`, `Induction`), and with it shows what these
functions compute (`TrimmedIs`, `MergedIs`, `MergeKeeps`).

**TxnProofs.** `Core` is the invariant as a predicate on a heap and what points into it,
so that it also describes the moments inside a call; `TxnInv` is `Core` of the
variables. Its parts: following pointers ends (`Acyclic`: places can be numbered so that
every pointer leads to a smaller number); a buffer that follows another in a chain has
that one pointer only, so that no call begins in the middle of a chain (`Linked`,
`First`); a freed cell is blank; an unhurt transaction whose buffer can be used has the
content that was put (`Wanted`); and, until something is borrowed, every count is the
number of pointers (`Counted`), a buffer that a transaction has, that was leaked or that
follows another has one (`Sole`), and only copies follow (`CopiesFollow`). Without
`Sole` a freed transaction would not free its chain, and without `Linked` an append
could change a chain elsewhere. What `Reach`, `Chain` and `Content` compute is shown by
induction along the numbering of `Acyclic`, what `Free` computes by a measure of what is
left to free (`FreeOneEnds`) and invariants of its loop, and what `Join` and `Flat` do
to all chains at once by comparing the heap before and after (`GraftSound`,
`FlatSound`). `logdb_put` goes through heaps in which its record is at first a leaked
buffer (`Middle`). Theorems: `TxnInvariant`, `TxnTypesCorrect`, `CountsStayExact`,
`UsedBuffersLive`, `CommitsAsPut`. The last one needs no condition on borrowed buffers:
a transaction with a freed buffer cannot be committed in the model.

### Assumptions

They say what the constants are, in an `ASSUME` of the module that declares them; Txn's
adds that there are finitely many threads, whose pointers are counted, and that the
application may have a reference.
These restrict the program:

- `AtomicConversion`, a hypothesis of four theorems about Connection and of no others.
- The databases that Iter starts with (`LogsAssumption`) have at most `MaxSections`
  sections, none filled to its last byte, and the sections of a database do not
  reach the range in which their offsets wrap (`IterAssumption`).

### Only model-checked

- Liveness (`CallsReturn`, `AcquireReturnsUnlessForgotten`, `OpenReturns`,
  `CloseReturnsUnlessNested`): the prover has no rules for fairness.
- The three runs that end in a violation, which TLC finds.
- That TLC's instances are large enough to reach each case; the mutants show that.

## 6. What is not modelled

- Failures of `pthread_*` and `lseek`; of `malloc` outside of buffers and
  transactions; of reads other than an iterator's. A failing `logdb_open` after the
  log was made ends as a crash there would.
- Races inside one call on a buffer (`logdb_buffer.c:88` admits one), and buffers
  appended to themselves through others, which make a cycle that no call leaves.
- Use of the library after a call that worked on freed memory, and of a connection
  after `logdb_close`.
- `fsync` is taken to put a file and its name on the disk, and a failed `fsync` to
  leave the cache as it was. On macOS it only hands data to the drive, and on Linux a
  failed one may mark lost pages as clean, which a second thread with the same
  descriptor would not learn of.
- `EINTR`, `ENOLCK` and spurious failures of weak compare-and-swaps.
- In LogLock, and for the node size of Lease, the entry 2^32 - 1: Lease has the outcome of
  its lock (`LockFar`) in place of the steps.
- The checks that exist in debug builds only.
- On Linux `pwrite` on an `O_APPEND` descriptor appends (`Readme.md:24`); the models
  take `pwrite` as POSIX defines it.
- Read locks are in LockTable and LogLock because the code has them, but nothing
  in the library requests one. With two readers in a process the first
  `F_UNLCK` would drop the kernel's lock of both.
- Several connections of one process to one database, which `logdb.h:55` excludes.
- The C# binding (it only calls the library), tests, the stress test and the build.

## 7. Plan

1. *Done:* LockTable, LogLock, Lease, Connection, Store, Durability, Txn, Layout, Io and
   Iter, with their runs; the proofs of section 5.
2. *Done:* proofs of all safety properties and of both refinements.
3. *Open:* races inside one call on a buffer, with a finer model of `logdb_buffer_data`; a run of
   Txn with two threads that is small enough to finish.
