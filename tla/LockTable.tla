----------------------------- MODULE LockTable -----------------------------
(***************************************************************************)
(* The reader/writer locks on log entries: logdb_log_lock and              *)
(* logdb_log_unlock (src/src/logdb_log.c).  A lock has two layers:         *)
(*                                                                         *)
(*  - in the process, a list of nodes, each an array of Span counters      *)
(*    (locks[128]) for the entries from its startindex on: 0 is free, n>0  *)
(*    is n readers, -1 is a writer;                                        *)
(*  - across processes, an fcntl record lock on the bytes of the entry,    *)
(*    which the kernel keeps per process, not per thread.                  *)
(*                                                                         *)
(* Here a walk of the list is one step: it ends at the first node whose    *)
(* span reaches the entry.  LogLock has the pointers, the loads and the    *)
(* compare-and-swaps, and implements this module.                          *)
(***************************************************************************)
EXTENDS Integers, FiniteSets

CONSTANTS Procs,    \* the processes that have the database open
          Threads,  \* their threads
          ProcOf,   \* the process of each thread
          Index,    \* the indices of log entries that are locked
          Span,     \* the number of counters in a node (128 in the code)
          Modes,    \* the lock types requested: "read", "write"
          MaxHolds  \* bound: locks a thread holds when it asks for another

ASSUME LockAssumption ==
    /\ IsFiniteSet(Threads)
    /\ ProcOf \in [Threads -> Procs]
    /\ Index \subseteq Nat
    /\ Span \in Nat \ {0}
    /\ Modes \subseteq {"read", "write"}

VARIABLES nodes,    \* nodes[p]: startindex of every node of p's list
          cell,     \* cell[p][s][i]: the counter for entry i in node s of p
          record,   \* record[i][p]: the fcntl lock of p on entry i
          call,     \* call[t]: where t is in lock or unlock
          holds     \* holds[t]: locks taken by t and not given back

lockVars == <<nodes, cell, record, call, holds>>

Idle == [at |-> "none", index |-> 0, mode |-> "write", node |-> 0]

Call(at, i, m, s) == [at |-> at, index |-> i, mode |-> m, node |-> s]

Calls == [at : {"none", "cell", "fcntl", "unfind", "uncell"},
          index : Nat, mode : {"read", "write"}, node : Nat]

Zeros == [i \in Index |-> 0]

LockInit ==
    /\ nodes = [p \in Procs |-> {}]
    /\ cell = [p \in Procs |-> [s \in Index |-> Zeros]]
    /\ record = [i \in Index |-> [p \in Procs |-> "none"]]
    /\ call = [t \in Threads |-> Idle]
    /\ holds = [t \in Threads |-> {}]
-----------------------------------------------------------------------------
(***************************************************************************)
(* The list.                                                               *)
(***************************************************************************)

\* The counter of entry i is inside the array of the node that starts at s.
Covers(s, i) == s <= i /\ i < s + Span

\* The walk stops at s: it is not true that i lies past the end of s.
Reaches(s, i) == i < s + Span

\* s is the node at which a walk for entry i stops.
StopsAt(S, s, i) ==
    /\ s \in S
    /\ Reaches(s, i)
    /\ \A r \in S : Reaches(r, i) => s <= r

\* The walk stops at a node that starts past i or at the end: i gets a node.
NeedsNode(S, i) == \A s \in S : Reaches(s, i) => s > i
-----------------------------------------------------------------------------
(***************************************************************************)
(* The counters and the record locks.                                      *)
(***************************************************************************)

\* The counter allows a lock of type m.
Available(v, m) == IF m = "read" THEN v >= 0 ELSE v = 0

\* Mutant: the swap for a write lock leaves the counter as it is.
MutTaken(v, m) == IF m = "read" THEN v + 1 ELSE v

\* The counter once the lock is taken, and once it is given back.
Taken(v, m) == IF m = "read" THEN v + 1 ELSE -1

\* Mutant: a write lock is given back as if it were a read lock.
MutReleased(v, m) == v - 1

Released(v, m) == IF m = "read" THEN v - 1 ELSE v + 1

\* fcntl(F_SETLK) does not conflict with the lock of another process.
Grantable(i, p, m) ==
    \A q \in Procs \ {p} :
        record[i][q] # "write" /\ (m = "write" => record[i][q] = "none")
-----------------------------------------------------------------------------
(***************************************************************************)
(* The steps of logdb_log_lock.                                            *)
(***************************************************************************)

\* The walk to the node of entry i, with the insertion of a zeroed node where
\* none is found.  A thread asks again for an entry it holds only for
\* writing, which is what a lease that forgot a lock does.
Find(t, i, m) ==
    LET p == ProcOf[t] IN
    /\ call[t].at = "none"
    /\ <<i, "read">> \notin holds[t]
    /\ m = "read" => <<i, "write">> \notin holds[t]
    /\ \/ \E s \in nodes[p] :
            /\ StopsAt(nodes[p], s, i)
            /\ s <= i
            /\ call' = [call EXCEPT ![t] = Call("cell", i, m, s)]
            /\ UNCHANGED <<nodes, cell>>
       \/ /\ NeedsNode(nodes[p], i)
          /\ nodes' = [nodes EXCEPT ![p] = @ \cup {i}]
          /\ cell' = [cell EXCEPT ![p][i] = Zeros]
          /\ call' = [call EXCEPT ![t] = Call("cell", i, m, i)]
    /\ UNCHANGED <<record, holds>>

\* The compare-and-swap on the counter, or the return of -2.
TakeCell(t) ==
    LET p == ProcOf[t]
        c == call[t]
        v == cell[p][c.node][c.index] IN
    /\ c.at = "cell"
    /\ \/ /\ Available(v, c.mode)
          /\ cell' = [cell EXCEPT ![p][c.node][c.index] = Taken(v, c.mode)]
          /\ call' = [call EXCEPT ![t].at = "fcntl"]
       \/ /\ ~Available(v, c.mode)
          /\ call' = [call EXCEPT ![t] = Idle]
          /\ UNCHANGED cell
    /\ UNCHANGED <<nodes, record, holds>>

\* Mutant: the kernel's answer is not looked at.
MutTakeRecord(t) ==
    LET c == call[t] IN
    /\ c.at = "fcntl"
    /\ record' = [record EXCEPT ![c.index][ProcOf[t]] = c.mode]
    /\ holds' = [holds EXCEPT ![t] = @ \cup {<<c.index, c.mode>>}]
    /\ call' = [call EXCEPT ![t] = Idle]
    /\ UNCHANGED <<nodes, cell>>

\* fcntl(F_SETLK): the lock is taken, or the counter has to be given back.
TakeRecord(t) ==
    LET p == ProcOf[t]
        c == call[t] IN
    /\ c.at = "fcntl"
    /\ \/ /\ Grantable(c.index, p, c.mode)
          /\ record' = [record EXCEPT ![c.index][p] = c.mode]
          /\ holds' = [holds EXCEPT ![t] = @ \cup {<<c.index, c.mode>>}]
          /\ call' = [call EXCEPT ![t] = Idle]
       \/ /\ ~Grantable(c.index, p, c.mode)
          /\ call' = [call EXCEPT ![t] = Call("unfind", c.index, c.mode, 0)]
          /\ UNCHANGED <<record, holds>>
    /\ UNCHANGED <<nodes, cell>>

\* logdb_log_unlock: fcntl(F_UNLCK) drops whatever lock the process has on
\* the entry, then the counter is given back.
Unlock(t, i, m) ==
    LET p == ProcOf[t] IN
    /\ call[t].at = "none"
    /\ <<i, m>> \in holds[t]
    /\ record' = [record EXCEPT ![i][p] = "none"]
    /\ holds' = [holds EXCEPT ![t] = @ \ {<<i, m>>}]
    /\ call' = [call EXCEPT ![t] = Call("unfind", i, m, 0)]
    /\ UNCHANGED <<nodes, cell>>

\* Mutant: unlock walks to the end of the list.
MutFindHeld(t) ==
    LET c == call[t]
        N == nodes[ProcOf[t]] IN
    /\ c.at = "unfind"
    /\ \E s \in N :
        /\ \A r \in N : r <= s
        /\ call' = [call EXCEPT ![t] = Call("uncell", c.index, c.mode, s)]
    /\ UNCHANGED <<nodes, cell, record, holds>>

\* logdb_log_inproc_unlock: the walk, then the atomic add or subtract.
FindHeld(t) ==
    LET c == call[t]
        N == nodes[ProcOf[t]] IN
    /\ c.at = "unfind"
    /\ \E s \in N :
        /\ StopsAt(N, s, c.index)
        /\ call' = [call EXCEPT ![t] = Call("uncell", c.index, c.mode, s)]
    /\ UNCHANGED <<nodes, cell, record, holds>>

DropCell(t) ==
    LET p == ProcOf[t]
        c == call[t] IN
    /\ c.at = "uncell"
    /\ cell' = [cell EXCEPT ![p][c.node][c.index] = Released(@, c.mode)]
    /\ call' = [call EXCEPT ![t] = Idle]
    /\ UNCHANGED <<nodes, record, holds>>

\* The process dies: its memory is gone and the kernel drops its locks.
LockCrash(p) ==
    /\ nodes' = [nodes EXCEPT ![p] = {}]
    /\ cell' = [cell EXCEPT ![p] = [s \in Index |-> Zeros]]
    /\ record' = [i \in Index |-> [record[i] EXCEPT ![p] = "none"]]
    /\ call' = [t \in Threads |-> IF ProcOf[t] = p THEN Idle ELSE call[t]]
    /\ holds' = [t \in Threads |-> IF ProcOf[t] = p THEN {} ELSE holds[t]]

LockNext ==
    \/ \E t \in Threads :
        \/ \E i \in Index, m \in Modes :
            Cardinality(holds[t]) < MaxHolds /\ Find(t, i, m)
        \/ TakeCell(t)
        \/ TakeRecord(t)
        \/ \E i \in Index, m \in Modes : Unlock(t, i, m)
        \/ FindHeld(t)
        \/ DropCell(t)
    \/ \E p \in Procs : LockCrash(p)

LockSpec == LockInit /\ [][LockNext]_lockVars
-----------------------------------------------------------------------------
(***************************************************************************)
(* Properties.                                                             *)
(***************************************************************************)

\* Every variable has its type.
LockTypeOK ==
    /\ nodes \in [Procs -> SUBSET Index]
    /\ cell \in [Procs -> [Index -> [Index -> Int]]]
    /\ record \in [Index -> [Procs -> {"none", "read", "write"}]]
    /\ call \in [Threads -> Calls]
    /\ holds \in [Threads -> SUBSET (Index \X {"read", "write"})]
    /\ \A t \in Threads :
        /\ call[t].at # "none" => call[t].index \in Index
        /\ call[t].at \in {"cell", "uncell"} => call[t].node \in Index

\* No entry has a counter in two nodes of p.
NoOverlap(p) ==
    \A i \in Index : \A r, s \in nodes[p] :
        Covers(r, i) /\ Covers(s, i) => r = s

SingleThreaded(p) ==
    \A t, u \in Threads : ProcOf[t] = p /\ ProcOf[u] = p => t = u

\* The two layers do their work in p.
Sound(p) == NoOverlap(p) \/ SingleThreaded(p)

\* t has raised (or lowered) the counter of entry i for a lock of type m.
Owns(t, i, m) ==
    \/ <<i, m>> \in holds[t]
    \/ /\ call[t].at \in {"fcntl", "unfind", "uncell"}
       /\ call[t].index = i
       /\ call[t].mode = m

\* Whatever nodes other threads insert meanwhile, lock and unlock never touch
\* a counter outside the array of a node (lock->locks[lockindex]), and unlock
\* never walks off the end of the list.
CellInBounds ==
    \A t \in Threads :
        LET c == call[t]
            N == nodes[ProcOf[t]] IN
        /\ c.at \in {"cell", "uncell"} => c.node \in N /\ Covers(c.node, c.index)
        /\ c.at \in {"fcntl", "unfind"} => \E s \in N : Covers(s, c.index)

\* Two threads, of one process or of two, hold a write lock on the same entry
\* only if one of their processes is multithreaded and has an entry with
\* counters in two nodes.
WriterExclusion ==
    \A t, u \in Threads, i \in Index :
        /\ t # u
        /\ Sound(ProcOf[t])
        /\ Sound(ProcOf[u])
        => ~(<<i, "write">> \in holds[t] /\ <<i, "write">> \in holds[u])

Owners(p, i, m) == {t \in Threads : ProcOf[t] = p /\ Owns(t, i, m)}

\* Where no entry has two counters, the counter of an entry is -1 exactly
\* while one thread owns it for writing, and otherwise counts the threads that
\* own it for reading: no lock is lost and none stays behind.
CellsCountOwners ==
    \A p \in Procs, s \in Index, i \in Index :
        NoOverlap(p) /\ s \in nodes[p] /\ Covers(s, i) =>
            \/ /\ cell[p][s][i] = -1
               /\ Cardinality(Owners(p, i, "write")) = 1
               /\ Owners(p, i, "read") = {}
            \/ /\ cell[p][s][i] = Cardinality(Owners(p, i, "read"))
               /\ Owners(p, i, "write") = {}

\* The fcntl lock under a write lock stays until its holder gives it back,
\* although the kernel keeps one lock per process and any thread's F_UNLCK
\* drops it: no other thread "might inadvertently unlock us"
\* (logdb_log.c:262-264), in a process whose counters do their work.
WriteInKernel ==
    \A t \in Threads : \A i \in Index :
        Sound(ProcOf[t]) /\ <<i, "write">> \in holds[t] =>
            record[i][ProcOf[t]] = "write"
=============================================================================
