-------------------------------- MODULE Txn --------------------------------
(***************************************************************************)
(* Transactions and the buffers they are made of: logdb_begin, logdb_put,  *)
(* logdb_commit and logdb_rollback (src/src/logdb_txn.c) on the            *)
(* reference-counted chains of src/src/logdb_buffer.c.                     *)
(*                                                                         *)
(* A buffer is a cell of the heap.  A chain is linked by next, and every   *)
(* cell but its first is a copy: it stands for the buffer orig, and holds  *)
(* a reference to it.  Threads have a stack of open transactions each, and *)
(* share buffers.  Every call is a step, but logdb_put is two, the making  *)
(* of the record and its commit, because other threads may append to or    *)
(* free the key and the value in between.  The model follows a behaviour   *)
(* up to the first use of a freed buffer.                                  *)
(***************************************************************************)
EXTENDS Integers, Sequences, FiniteSets, FiniteSetsExt

CONSTANTS Threads,   \* the threads that use the connection
          Lengths,   \* the lengths of the application's buffers, in units
          Section,   \* LOGDB_SECTION_SIZE, in units
          MaxLen,    \* the largest logdb_size_t, in units
          Faults,    \* whether malloc and the writing of a commit may fail
          MaxCells,  \* bound: buffers in use at a time
          MaxMade,   \* bound: buffers that the application makes
          MaxHeld,   \* bound: references of the application to a buffer
          MaxDepth,  \* bound: nested transactions of a thread
          MaxPuts    \* bound: calls of logdb_put

ASSUME TxnAssumption ==
    /\ IsFiniteSet(Threads)
    /\ Lengths \subseteq Nat
    /\ Section \in Nat
    /\ MaxLen \in Nat \ {0}
    /\ Section <= MaxLen
    /\ Faults \in BOOLEAN
    /\ MaxCells \in Nat
    /\ MaxMade \in Nat
    /\ MaxHeld \in Nat \ {0}
    /\ MaxDepth \in Nat
    /\ MaxPuts \in Nat

VARIABLES heap,      \* heap[c]: the buffer at c; one with no references is free
          held,      \* held[c]: the application's references to c
          stack,     \* stack[t]: open transactions of t, the innermost first
          work,      \* work[t]: the transaction of the logdb_put t is in
          made,      \* buffers the application made so far
          puts,      \* calls of logdb_put so far
          torn,      \* history: a commit returned 0 that wrote something else
                     \* than was put, and nothing had hurt it
          leaked,    \* history: buffers whose last pointer was overwritten
          borrowed   \* history: a transaction got a buffer without a reference

vars == <<heap, held, stack, work, made, puts, torn, leaked, borrowed>>

NULL == 0
Cells == 1..MaxCells

\* A unit of data: a record header, or a unit of the n-th buffer that the
\* application makes.
Header(k, v) == [hdr |-> TRUE, key |-> k, value |-> v]
Byte(n) == [hdr |-> FALSE, key |-> n, value |-> n]

Blank == [data |-> <<>>, orig |-> NULL, next |-> NULL, refcnt |-> 0]

\* A transaction: its buffer, what the calls that made it were given, and
\* whether something happened since by which the two may differ.
Frame(b, w, h) == [buf |-> b, want |-> w, hurt |-> h]
None == Frame(NULL, <<>>, FALSE)

Init ==
    /\ heap = [c \in Cells |-> Blank]
    /\ held = [c \in Cells |-> 0]
    /\ stack = [t \in Threads |-> <<>>]
    /\ work = [t \in Threads |-> <<>>]
    /\ made = 0
    /\ puts = 0
    /\ torn = FALSE
    /\ leaked = {}
    /\ borrowed = FALSE
-----------------------------------------------------------------------------
(***************************************************************************)
(* Buffers, in a heap h.                                                   *)
(***************************************************************************)

Live(h, c) == h[c].refcnt > 0

\* The cells of the chain of c, and everything it stands for.
Chain(h, c) ==
    LET follow[d \in Cells] ==
          {d} \cup IF h[d].next = NULL THEN {} ELSE follow[h[d].next]
    IN follow[c]

Reach(h, c) ==
    LET follow[d \in Cells \cup {NULL}] ==
          IF d = NULL THEN {} ELSE {d} \cup follow[h[d].orig] \cup follow[h[d].next]
    IN follow[c]

Safe(h, c) == \A d \in Reach(h, c) : Live(h, d)

\* What logdb_txn_write_buf writes for c.
Content(h, c) ==
    LET units[d \in Cells \cup {NULL}] ==
          IF d = NULL THEN <<>>
          ELSE (IF h[d].orig # NULL THEN units[h[d].orig] ELSE h[d].data)
               \o units[h[d].next]
    IN units[c]

\* logdb_buffer_length.
Length(h, c) == Len(Content(h, c))

\* A cell for malloc to return: one that nothing points to.
Unused ==
    {c \in Cells : /\ ~Live(heap, c)
                   /\ held[c] = 0
                   /\ \A d \in Cells : c \notin {heap[d].orig, heap[d].next}
                   /\ \A t \in Threads : \A i \in 1..Len(stack[t]) : stack[t][i].buf # c
                   /\ \A t \in Threads : \A i \in 1..Len(work[t]) : work[t][i].buf # c}

Fresh(h) == Min({c \in Unused : ~Live(h, c)})

\* logdb_buffer_new_direct, logdb_buffer_new_copy.
New(h, c, d) == [h EXCEPT ![c] = [Blank EXCEPT !.data = d, !.refcnt = 1]]

\* Mutant: the copy does not retain the buffer it stands for.
MutCopy(h, c, b) == [h EXCEPT ![c] = [Blank EXCEPT !.orig = b, !.refcnt = 1]]

\* logdb_buffer_copy of b, at c.
Copy(h, c, b) ==
    [h EXCEPT ![c] = [Blank EXCEPT !.orig = b, !.refcnt = 1], ![b].refcnt = @ + 1]

Overflows(h, a, b) == MaxLen - Length(h, a) < Length(h, b)

\* Mutant: the second buffer itself is linked, not a copy of it.
MutJoin(h, a, b, ok) ==
    LET last == CHOOSE d \in Chain(h, a) : h[d].next = NULL IN
    IF a = NULL THEN [heap |-> h, buf |-> b]
    ELSE [heap |-> [h EXCEPT ![last].next = b, ![b].refcnt = @ + 1], buf |-> a]

\* logdb_buffer_append (a, b) where both are in use: the heap and the result.
\* When the copy cannot be allocated, nothing is appended and a is returned.
Join(h, a, b, ok) ==
    LET c == Fresh(h)
        last == CHOOSE d \in Chain(h, a) : h[d].next = NULL IN
    CASE a = NULL -> [heap |-> h, buf |-> b]
      [] a # NULL /\ Overflows(h, a, b) -> [heap |-> h, buf |-> NULL]
      [] a # NULL /\ ~Overflows(h, a, b) /\ ~ok -> [heap |-> h, buf |-> a]
      [] OTHER -> [heap |-> [Copy(h, c, b) EXCEPT ![last].next = c], buf |-> a]

Units == [hdr : BOOLEAN, key : Nat, value : Nat]
Buffers == [data : Seq(Units), orig : Cells \cup {NULL}, next : Cells \cup {NULL},
            refcnt : Nat]
Heaps == [Cells -> Buffers]

\* Mutant: a buffer that dies keeps its reference to the next one.
MutDrop(b) == <<b.orig>>

\* The buffers that a buffer gives back when it dies.
Drop(b) == <<b.orig, b.next>>

\* One call of logdb_buffer_free in heap w[1], for the first of the buffers w[2]
\* that are still to be freed.
FreeOne(w) ==
    LET g == w[1]
        d == Head(w[2])
        rest == Tail(w[2]) IN
    CASE d = NULL -> <<g, rest>>
      [] d # NULL /\ g[d].refcnt > 1 -> <<[g EXCEPT ![d].refcnt = @ - 1], rest>>
      [] OTHER -> <<[g EXCEPT ![d] = Blank], Drop(g[d]) \o rest>>

\* logdb_buffer_free, with the calls that it makes.
Free(h, c) ==
    LET free[w \in Heaps \X Seq(Cells \cup {NULL})] ==
          IF w[2] = <<>> THEN w[1] ELSE free[FreeOne(w)]
    IN free[<<h, <<c>>>>]

\* logdb_buffer_data: every chain below c is made one piece, and the cells
\* that followed in it are forgotten.
Flat(h, c) ==
    [d \in Cells |->
        IF d \in Reach(h, c) /\ h[d].orig = NULL /\ h[d].next # NULL
        THEN [h[d] EXCEPT !.data = Content(h, d), !.next = NULL] ELSE h[d]]
-----------------------------------------------------------------------------
(***************************************************************************)
(* Calls on buffers.  The application only uses buffers that it holds, and *)
(* does not append a buffer to one that it contains.                       *)
(***************************************************************************)

Usable(c) == held[c] > 0 /\ Safe(heap, c)

\* The transactions s, of which those that contain a buffer of S are no longer
\* what the calls were given.
Marked(s, S) ==
    [i \in DOMAIN s |-> [s[i] EXCEPT !.hurt = @ \/ Reach(heap, s[i].buf) \cap S # {}]]

NewBuffer(n) ==
    /\ Unused # {}
    /\ made < MaxMade
    /\ made' = made + 1
    /\ LET c == Fresh(heap) IN
        /\ heap' = New(heap, c, [i \in 1..n |-> Byte(made)])
        /\ held' = [held EXCEPT ![c] = 1]
    /\ UNCHANGED <<stack, work, puts, torn, leaked, borrowed>>

Retain(c) ==
    /\ Usable(c)
    /\ held[c] < MaxHeld
    /\ heap' = [heap EXCEPT ![c].refcnt = @ + 1]
    /\ held' = [held EXCEPT ![c] = @ + 1]
    /\ UNCHANGED <<stack, work, made, puts, torn, leaked, borrowed>>

Dispose(c) ==
    /\ Usable(c)
    /\ heap' = Free(heap, c)
    /\ held' = [held EXCEPT ![c] = @ - 1]
    /\ UNCHANGED <<stack, work, made, puts, torn, leaked, borrowed>>

\* logdb_buffer_append; without memory, or past MaxLen, nothing happens.
AppendTo(a, b) ==
    /\ Usable(a) /\ Usable(b)
    /\ a \notin Reach(heap, b)
    /\ Unused # {}
    /\ ~Overflows(heap, a, b)
    /\ heap' = Join(heap, a, b, TRUE).heap
    /\ stack' = [t \in Threads |-> Marked(stack[t], {a})]
    /\ work' = [t \in Threads |-> Marked(work[t], {a})]
    /\ UNCHANGED <<held, made, puts, torn, leaked, borrowed>>

Data(c) ==
    /\ Usable(c)
    /\ heap' = Flat(heap, c)
    /\ leaked' = leaked \cup {heap[d].next : d \in {e \in Cells : heap'[e].next # heap[e].next}}
    /\ UNCHANGED <<held, stack, work, made, puts, torn, borrowed>>
-----------------------------------------------------------------------------
(***************************************************************************)
(* Calls on transactions.                                                  *)
(***************************************************************************)

\* logdb_begin, and logdb_txn_begin_implicit for a thread's own stack.
Begin(t) ==
    /\ work[t] = <<>>
    /\ Len(stack[t]) < MaxDepth
    /\ stack' = [stack EXCEPT ![t] = <<None>> \o @]
    /\ UNCHANGED <<heap, held, work, made, puts, torn, leaked, borrowed>>

\* logdb_put makes the record: a header with the lengths of key and value, to
\* which copies of both are appended.  A header that does not fit with the key
\* is lost, and the value then stands alone; a record that does not fit with
\* the value is lost as a whole.
Put(t, k, v, okk, okv) ==
    LET h == Fresh(heap)
        rec == Header(Length(heap, k), Length(heap, v))
        one == Join(New(heap, h, <<rec>>), h, k, okk)
        two == Join(one.heap, one.buf, v, okv) IN
    /\ work[t] = <<>>
    /\ puts < MaxPuts
    /\ Usable(k) /\ Usable(v)
    /\ Cardinality(Unused) >= 3
    /\ Faults \/ (okk /\ okv)
    /\ puts' = puts + 1
    /\ heap' = two.heap
    /\ work' = [work EXCEPT ![t] =
                 <<Frame(two.buf, <<rec>> \o Content(heap, k) \o Content(heap, v),
                         ~okk \/ ~okv \/ two.buf # h)>>]
    /\ leaked' = leaked \cup IF two.buf = h THEN {} ELSE {h}
    /\ borrowed' = (borrowed \/ two.buf = v)
    /\ UNCHANGED <<held, stack, made, torn>>

\* The buffer of the transaction can be used.
Sound(f) == f.buf # NULL => Safe(heap, f.buf)

Empty(f) == Length(heap, f.buf) = 0
Fits(f) == Length(heap, f.buf) <= Section

\* logdb_txn_close frees the buffer of the transaction.
Closed(h, f) == IF f.buf = NULL THEN h ELSE Free(h, f.buf)

\* Mutant: the last part of the chain is not written.
MutWritten(f) ==
    LET u == Content(heap, f.buf) IN SubSeq(u, 1, Len(u) - 1)

\* What logdb_txn_write_buf writes.
Written(f) == Content(heap, f.buf)

\* logdb_txn_commit of transaction f with outer transactions s.  One without
\* data is closed; an outermost one that a lease can hold is written out.
CommitOut(t, f, s) ==
    /\ Empty(f) \/ (s = <<>> /\ Fits(f))
    /\ heap' = Closed(heap, f)
    /\ stack' = [stack EXCEPT ![t] = s]
    /\ work' = [work EXCEPT ![t] = <<>>]
    /\ torn' = (torn \/ (s = <<>> /\ ~f.hurt /\ Written(f) # f.want))
    /\ UNCHANGED <<leaked, borrowed>>

\* A nested one is appended to the outer one, which takes no reference where
\* the outer one has no data yet, and loses the outer one's where both
\* together are too long.  A buffer that the outer one has without a reference
\* may be part of other transactions too.
CommitIn(t, f, s, ok) ==
    LET o == Head(s)
        h == Join(heap, o.buf, f.buf, ok)
        lost == o.buf # NULL /\ h.buf = NULL
        grown == IF lost \/ ~ok THEN {} ELSE {o.buf}
        new == Frame(h.buf, o.want \o f.want, o.hurt \/ f.hurt \/ lost \/ ~ok) IN
    /\ ~Empty(f)
    /\ s # <<>>
    /\ Sound(o)
    /\ o.buf # NULL => Unused # {} /\ o.buf \notin Reach(heap, f.buf)
    /\ Faults \/ ok
    /\ heap' = Closed(h.heap, f)
    /\ stack' = [u \in Threads |-> IF u = t THEN <<new>> \o Marked(Tail(s), grown)
                                   ELSE Marked(stack[u], grown)]
    /\ work' = [u \in Threads |-> IF u = t THEN <<>> ELSE Marked(work[u], grown)]
    /\ leaked' = leaked \cup IF lost THEN {o.buf} ELSE {}
    /\ borrowed' = (borrowed \/ o.buf = NULL)
    /\ UNCHANGED torn

TxnCommit(t, f, s) ==
    /\ Sound(f)
    /\ CommitOut(t, f, s) \/ \E ok \in BOOLEAN : CommitIn(t, f, s, ok)

\* The lease cannot be had, or a write or fsync fails.
Refused(f, s) ==
    /\ Sound(f)
    /\ s = <<>>
    /\ ~Empty(f)
    /\ Faults \/ ~Fits(f)

\* The end of logdb_put: logdb_txn_commit_implicit, which closes its
\* transaction even if the commit fails.
PutCommit(t) ==
    /\ work[t] # <<>>
    /\ TxnCommit(t, Head(work[t]), stack[t])
    /\ UNCHANGED <<held, made, puts>>

PutFails(t) ==
    /\ work[t] # <<>>
    /\ Refused(Head(work[t]), stack[t])
    /\ heap' = Closed(heap, Head(work[t]))
    /\ work' = [work EXCEPT ![t] = <<>>]
    /\ UNCHANGED <<held, stack, made, puts, torn, leaked, borrowed>>

\* logdb_commit; where the commit fails, the transaction stays as it is.
Commit(t) ==
    /\ work[t] = <<>>
    /\ stack[t] # <<>>
    /\ TxnCommit(t, Head(stack[t]), Tail(stack[t]))
    /\ UNCHANGED <<held, made, puts>>

\* logdb_rollback.
Rollback(t) ==
    /\ work[t] = <<>>
    /\ stack[t] # <<>>
    /\ Sound(Head(stack[t]))
    /\ heap' = Closed(heap, Head(stack[t]))
    /\ stack' = [stack EXCEPT ![t] = Tail(@)]
    /\ UNCHANGED <<held, work, made, puts, torn, leaked, borrowed>>

\* All of the transactions s, the outermost first.
ClosedAll(h, s) ==
    LET close[n \in 0..Len(s)] ==
          IF n = Len(s) THEN h ELSE Closed(close[n + 1], s[n + 1])
    IN close[0]

\* The thread ends or closes the connection: logdb_txn_destruct closes all its
\* transactions.
RollbackAll(t) ==
    /\ work[t] = <<>>
    /\ stack[t] # <<>>
    /\ \A i \in 1..Len(stack[t]) : Sound(stack[t][i])
    /\ heap' = ClosedAll(heap, stack[t])
    /\ stack' = [stack EXCEPT ![t] = <<>>]
    /\ UNCHANGED <<held, work, made, puts, torn, leaked, borrowed>>
-----------------------------------------------------------------------------
Next ==
    \/ \E n \in Lengths : NewBuffer(n)
    \/ \E c \in Cells : Retain(c) \/ Dispose(c) \/ Data(c)
    \/ \E a, b \in Cells : AppendTo(a, b)
    \/ \E t \in Threads :
        \/ Begin(t)
        \/ \E k, v \in Cells, okk, okv \in BOOLEAN : Put(t, k, v, okk, okv)
        \/ PutCommit(t) \/ PutFails(t)
        \/ Commit(t) \/ Rollback(t) \/ RollbackAll(t)

Spec == Init /\ [][Next]_vars
-----------------------------------------------------------------------------
(***************************************************************************)
(* Properties.                                                             *)
(***************************************************************************)

Frames == [buf : Cells \cup {NULL}, want : Seq(Units), hurt : BOOLEAN]

\* Every variable has its type, and in every chain that lives only copies
\* follow the first buffer.
TxnTypeOK ==
    /\ heap \in Heaps
    /\ held \in [Cells -> 0..MaxHeld]
    /\ stack \in [Threads -> Seq(Frames)]
    /\ work \in [Threads -> Seq(Frames)]
    /\ made \in 0..MaxMade
    /\ puts \in 0..MaxPuts
    /\ torn \in BOOLEAN
    /\ leaked \subseteq Cells
    /\ borrowed \in BOOLEAN
    /\ \A t \in Threads : Len(work[t]) <= 1
    /\ ~borrowed =>
        \A c \in Cells : heap[c].next # NULL => heap[heap[c].next].orig # NULL

\* The pointers to c: those of the application, of other buffers, of
\* transactions (which are counted from the outermost one), and those that were
\* overwritten.
Pointers(c) ==
    held[c]
    + Cardinality({d \in Cells : heap[d].orig = c})
    + Cardinality({d \in Cells : heap[d].next = c})
    + Cardinality({t \in Threads : work[t] # <<>> /\ Head(work[t]).buf = c})
    + Cardinality({x \in Threads \X (1..MaxDepth) :
                    LET s == stack[x[1]] IN
                    x[2] <= Len(s) /\ s[Len(s) + 1 - x[2]].buf = c})
    + (IF c \in leaked THEN 1 ELSE 0)

\* However calls of several threads on shared buffers and on transactions
\* follow each other, the count of a buffer is the number of pointers to it,
\* so that logdb_buffer_free frees it with the last one and not before: as
\* long as no transaction was given a buffer without a reference, and counting
\* the pointers that logdb_buffer_data and an overflow in logdb_put forget.
CountsExact ==
    ~borrowed => \A c \in Cells : heap[c].refcnt = Pointers(c)

\* Every buffer that the application holds, or that an open transaction has,
\* can be used, under the same condition.
UsableUnlessBorrowed ==
    ~borrowed =>
        /\ \A c \in Cells : held[c] > 0 => Safe(heap, c)
        /\ \A t \in Threads : \A i \in 1..Len(stack[t]) : Sound(stack[t][i])
        /\ \A t \in Threads : work[t] # <<>> => Sound(Head(work[t]))

\* A commit that returned 0 has written what its calls of logdb_put were
\* given, in that order, although the records only refer to the application's
\* buffers: unless memory ran out, lengths overflowed, or one of its buffers was
\* appended to before the commit, by the application or by a nested commit.
AckedAsPut == ~torn

\* An open transaction can be committed or rolled back: logdb_rollback fails
\* only without a transaction, its "only failure mode" (logdb.h:216-217).
OpenTxnsUsable ==
    \A t \in Threads : stack[t] # <<>> => Sound(Head(stack[t]))
=============================================================================
