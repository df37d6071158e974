------------------------------ MODULE LogLock ------------------------------
(***************************************************************************)
(* logdb_log_lock and logdb_log_unlock at the level of their atomic        *)
(* operations: the list of lock nodes is a chain of pointers that grows by *)
(* compare-and-swap while other threads walk it, a counter is loaded and   *)
(* then swapped, and unlock walks the list again.  A node is named by its  *)
(* startindex.  LockTable is the specification this module implements.     *)
(***************************************************************************)
EXTENDS Integers, FiniteSets

CONSTANTS Procs, Threads, ProcOf, Index, Span, Modes, MaxHolds,
          Head,     \* the address of log->lock
          Null      \* the null pointer

ASSUME PointerAssumption ==
    /\ Head \notin Index /\ Null \notin Index
    /\ IsFiniteSet(Threads)
    /\ ProcOf \in [Threads -> Procs]
    /\ Index \subseteq Nat
    /\ Span \in Nat \ {0}
    /\ Modes \subseteq {"read", "write"}

VARIABLES next,     \* next[p][d]: the pointer stored at d, a node or Head
          cell,     \* cell[p][s][i]: locks[i - s] of node s
          record,   \* record[i][p]: the fcntl lock of p on entry i
          holds,    \* holds[t]: locks taken by t and not given back
          pc,       \* pc[t]: where t is in lock or unlock
          index,    \* the arguments of the call
          mode,
          dest,     \* the locals dest, lock and value
          lock,
          value

vars == <<next, cell, record, holds, pc, index, mode, dest, lock, value>>

locals == <<index, mode>>

\* The nodes that can be reached: every node is published by one pointer.
Linked(p) == {s \in Index : \E d \in Index \cup {Head} : next[p][d] = s}

Init ==
    /\ next = [p \in Procs |-> [d \in Index \cup {Head} |-> Null]]
    /\ cell = [p \in Procs |-> [s \in Index |-> [i \in Index |-> 0]]]
    /\ record = [i \in Index |-> [p \in Procs |-> "none"]]
    /\ holds = [t \in Threads |-> {}]
    /\ pc = [t \in Threads |-> "idle"]
    /\ index = [t \in Threads |-> 0]
    /\ mode = [t \in Threads |-> "write"]
    /\ dest = [t \in Threads |-> Head]
    /\ lock = [t \in Threads |-> Null]
    /\ value = [t \in Threads |-> 0]

Goto(t, place) == pc' = [pc EXCEPT ![t] = place]

\* Return with the locals cleared, as they are gone with the stack frame.
Return(t) ==
    /\ Goto(t, "idle")
    /\ index' = [index EXCEPT ![t] = 0]
    /\ mode' = [mode EXCEPT ![t] = "write"]
    /\ dest' = [dest EXCEPT ![t] = Head]
    /\ lock' = [lock EXCEPT ![t] = Null]
    /\ value' = [value EXCEPT ![t] = 0]
-----------------------------------------------------------------------------
(***************************************************************************)
(* logdb_log_lock.                                                         *)
(***************************************************************************)

\* dest = &log->lock; lock = atomic_load (dest);
Lock(t, i, m) ==
    /\ pc[t] = "idle"
    /\ Cardinality(holds[t]) < MaxHolds
    /\ <<i, "read">> \notin holds[t]
    /\ m = "read" => <<i, "write">> \notin holds[t]
    /\ Goto(t, "walk")
    /\ index' = [index EXCEPT ![t] = i]
    /\ mode' = [mode EXCEPT ![t] = m]
    /\ dest' = [dest EXCEPT ![t] = Head]
    /\ lock' = [lock EXCEPT ![t] = next[ProcOf[t]][Head]]
    /\ UNCHANGED <<next, cell, record, holds, value>>

\* !lock || lock->startindex > index
Missing(t) == lock[t] = Null \/ (lock[t] # Null /\ lock[t] > index[t])

\* lockindex > 127
Past(s, i) == i - s > Span - 1

\* Mutant: the new node is stored without comparing.
MutSwappable(t) == TRUE

\* The pointer at dest is still the one the thread has loaded.
Swappable(t) == next[ProcOf[t]][dest[t]] = lock[t]

\* The compare-and-swap that publishes a new node succeeds.
Insert(t) ==
    LET p == ProcOf[t] IN
    /\ pc[t] = "walk"
    /\ Missing(t)
    /\ Swappable(t)
    /\ next' = [next EXCEPT ![p][dest[t]] = index[t],
                            ![p][index[t]] = lock[t]]
    /\ cell' = [cell EXCEPT ![p][index[t]] = [i \in Index |-> 0]]
    /\ lock' = [lock EXCEPT ![t] = index[t]]
    /\ UNCHANGED <<record, holds, pc, locals, dest, value>>

\* Mutant: the failed swap does not load the new value.
MutInsertFails(t) ==
    /\ pc[t] = "walk"
    /\ Missing(t)
    /\ ~Swappable(t)
    /\ UNCHANGED vars

\* It fails: the new node is freed and lock is what dest points to by now.
InsertFails(t) ==
    /\ pc[t] = "walk"
    /\ Missing(t)
    /\ ~Swappable(t)
    /\ lock' = [lock EXCEPT ![t] = next[ProcOf[t]][dest[t]]]
    /\ UNCHANGED <<next, cell, record, holds, pc, locals, dest, value>>

\* The entry lies past this node: dest = &lock->next; lock = atomic_load (dest)
Advance(t) ==
    /\ pc[t] = "walk"
    /\ ~Missing(t)
    /\ Past(lock[t], index[t])
    /\ dest' = [dest EXCEPT ![t] = lock[t]]
    /\ lock' = [lock EXCEPT ![t] = next[ProcOf[t]][lock[t]]]
    /\ UNCHANGED <<next, cell, record, holds, pc, locals, value>>

\* value = lock->locks[lockindex]; dest is not used from here on.
LoadCell(t) ==
    /\ pc[t] = "walk"
    /\ ~Missing(t)
    /\ ~Past(lock[t], index[t])
    /\ value' = [value EXCEPT ![t] = cell[ProcOf[t]][lock[t]][index[t]]]
    /\ dest' = [dest EXCEPT ![t] = Head]
    /\ Goto(t, "cas")
    /\ UNCHANGED <<next, cell, record, holds, locals, lock>>

\* Mutant: the branch for a writer does not look at the value.
MutOpen(t) == value[t] >= -1

\* The value seen allows the lock.
Open(t) == IF mode[t] = "read" THEN value[t] >= 0 ELSE value[t] = 0

\* return -2: "We can't take any lock".
Refuse(t) ==
    /\ pc[t] = "cas"
    /\ ~Open(t)
    /\ Return(t)
    /\ UNCHANGED <<next, cell, record, holds>>

\* atomic_compare_exchange_weak on the counter: swapped, after which value is
\* not used, or value reloaded.
CasCell(t) ==
    LET p == ProcOf[t]
        now == cell[p][lock[t]][index[t]] IN
    /\ pc[t] = "cas"
    /\ Open(t)
    /\ \/ /\ now = value[t]
          /\ cell' = [cell EXCEPT ![p][lock[t]][index[t]] =
                        IF mode[t] = "read" THEN @ + 1 ELSE -1]
          /\ value' = [value EXCEPT ![t] = 0]
          /\ Goto(t, "fcntl")
       \/ /\ now # value[t]
          /\ value' = [value EXCEPT ![t] = now]
          /\ UNCHANGED <<cell, pc>>
    /\ UNCHANGED <<next, record, holds, locals, dest, lock>>

\* fcntl (F_SETLK): granted unless another process has a conflicting lock.
Fcntl(t) ==
    LET p == ProcOf[t]
        i == index[t]
        free == \A q \in Procs \ {p} :
                  /\ record[i][q] # "write"
                  /\ mode[t] = "write" => record[i][q] = "none" IN
    /\ pc[t] = "fcntl"
    /\ \/ /\ free
          /\ record' = [record EXCEPT ![i][p] = mode[t]]
          /\ holds' = [holds EXCEPT ![t] = @ \cup {<<i, mode[t]>>}]
          /\ Return(t)
       \/ /\ ~free
          /\ Goto(t, "load")
          /\ UNCHANGED <<record, holds, locals, dest, lock, value>>
    /\ UNCHANGED <<next, cell>>
-----------------------------------------------------------------------------
(***************************************************************************)
(* logdb_log_unlock and logdb_log_inproc_unlock.                           *)
(***************************************************************************)

\* fcntl (F_SETLK) with F_UNLCK.
Unlock(t, i, m) ==
    /\ pc[t] = "idle"
    /\ <<i, m>> \in holds[t]
    /\ record' = [record EXCEPT ![i][ProcOf[t]] = "none"]
    /\ holds' = [holds EXCEPT ![t] = @ \ {<<i, m>>}]
    /\ Goto(t, "load")
    /\ index' = [index EXCEPT ![t] = i]
    /\ mode' = [mode EXCEPT ![t] = m]
    /\ UNCHANGED <<next, cell, dest, lock, value>>

\* lock = log->lock
LoadHead(t) ==
    /\ pc[t] = "load"
    /\ lock' = [lock EXCEPT ![t] = next[ProcOf[t]][Head]]
    /\ Goto(t, "unwalk")
    /\ UNCHANGED <<next, cell, record, holds, locals, dest, value>>

\* while ((lock->startindex + 127) < index) lock = lock->next;
UnlockAdvance(t) ==
    /\ pc[t] = "unwalk"
    /\ lock[t] + Span - 1 < index[t]
    /\ lock' = [lock EXCEPT ![t] = next[ProcOf[t]][lock[t]]]
    /\ UNCHANGED <<next, cell, record, holds, pc, locals, dest, value>>

\* atomic_fetch_sub for a read lock, atomic_fetch_add for a write lock.
Decrement(t) ==
    LET p == ProcOf[t] IN
    /\ pc[t] = "unwalk"
    /\ ~(lock[t] + Span - 1 < index[t])
    /\ cell' = [cell EXCEPT ![p][lock[t]][index[t]] =
                  IF mode[t] = "read" THEN @ - 1 ELSE @ + 1]
    /\ Return(t)
    /\ UNCHANGED <<next, record, holds>>
-----------------------------------------------------------------------------
Step(t) ==
    \/ Insert(t) \/ InsertFails(t) \/ Advance(t) \/ LoadCell(t)
    \/ Refuse(t) \/ CasCell(t) \/ Fcntl(t)
    \/ LoadHead(t) \/ UnlockAdvance(t) \/ Decrement(t)

Next ==
    \E t \in Threads :
        \/ \E i \in Index, m \in Modes : Lock(t, i, m) \/ Unlock(t, i, m)
        \/ Step(t)

Spec == Init /\ [][Next]_vars

\* The scheduler runs every thread that is inside a call.
FairSpec == Spec /\ \A t \in Threads : WF_vars(Step(t))
-----------------------------------------------------------------------------
(***************************************************************************)
(* LockTable, seen through the pointers.  A walk takes effect at the load  *)
(* that reaches its last node; a refusal at the load of the counter.       *)
(***************************************************************************)

At(t) ==
    CASE pc[t] = "walk" /\ ~Missing(t) /\ ~Past(lock[t], index[t]) -> "cell"
      [] pc[t] = "cas" /\ Open(t) -> "cell"
      [] pc[t] = "fcntl" -> "fcntl"
      [] pc[t] = "load" -> "unfind"
      [] pc[t] = "unwalk" ->
            IF lock[t] + Span - 1 < index[t] THEN "unfind" ELSE "uncell"
      [] OTHER -> "none"

\* The call of t, as LockTable has it.
Seen(t) ==
    IF At(t) = "none"
    THEN [at |-> "none", index |-> 0, mode |-> "write", node |-> 0]
    ELSE [at |-> At(t), index |-> index[t], mode |-> mode[t],
          node |-> IF At(t) = "unfind" THEN 0 ELSE lock[t]]

LT == INSTANCE LockTable WITH
        nodes <- [p \in Procs |-> Linked(p)],
        call  <- [t \in Threads |-> Seen(t)]

\* The pointer-level code implements LockTable: whatever the interleaving of
\* loads and compare-and-swaps, a walk behaves as if it were one step.
ImplementsLockTable == LT!LockSpec

\* The list stays in ascending order of startindex, and no node that a thread
\* works on is cut out of it by insertions that race with each other.
ListSorted ==
    /\ \A p \in Procs :
        /\ \A d \in Linked(p) : next[p][d] # Null => d < next[p][d]
        /\ \A d, e \in Index \cup {Head} :
             next[p][d] = next[p][e] /\ next[p][d] # Null => d = e
        /\ \A d \in Index : next[p][d] # Null => d \in Linked(p)
    /\ \A t \in Threads : lock[t] # Null => lock[t] \in Linked(ProcOf[t])

\* Every call of lock or unlock returns, however often its swaps fail.
CallsReturn == \A t \in Threads : pc[t] # "idle" ~> pc[t] = "idle"
=============================================================================
