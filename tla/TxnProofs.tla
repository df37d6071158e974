------------------------------ MODULE TxnProofs ------------------------------
(***************************************************************************)
(* Proofs about Txn, for any number of threads, buffers, nested            *)
(* transactions and calls.  The walks over chains of buffers are recursive *)
(* functions on the heap; as no buffer contains itself, what they compute  *)
(* follows by induction, in the form that a set of buffers which has each  *)
(* buffer whose pointers lead into it has all of them.                     *)
(***************************************************************************)
EXTENDS Txn, FiniteSetTheorems, WellFoundedInduction, TLAPS

-----------------------------------------------------------------------------
(***************************************************************************)
(* Induction.                                                              *)
(***************************************************************************)

\* A set of numbers has a least one.
LEMMA Least ==
  ASSUME NEW T \in SUBSET Nat, T # {}
  PROVE  \E x \in T : \A y \in T : x <= y
<1> DEFINE R == OpToRel(<, Nat)
<1>1. IsWellFoundedOn(R, Nat)
  BY NatLessThanWellFounded
<1> HIDE DEF R
<1>2. PICK x \in T : \A y \in T : ~(<<y, x>> \in R)
  BY <1>1, WFMin
<1>3. \A y \in T : y < x => <<y, x>> \in R
  BY DEF R, OpToRel
<1>4. \A y \in T : ~(y < x) /\ y \in Nat /\ x \in Nat
  BY <1>2, <1>3
<1>5. \A y \in T : x <= y
  BY <1>4
<1> QED
  BY <1>5

\* A set that has 0 and with a number its successor has all numbers.
LEMMA Induction ==
  ASSUME NEW S, 0 \in S, \A n \in Nat : n \in S => n + 1 \in S
  PROVE  \A n \in Nat : n \in S
<1> SUFFICES ASSUME Nat \ S # {} PROVE FALSE
  OBVIOUS
<1>1. PICK x \in Nat \ S : \A y \in Nat \ S : x <= y
  BY Least
<1>2. x # 0 /\ x - 1 \in Nat /\ x = (x - 1) + 1
  OBVIOUS
<1>3. x - 1 \in S
  BY <1>1, <1>2
<1> QED
  BY <1>2, <1>3
-----------------------------------------------------------------------------
(***************************************************************************)
(* Heaps without cycles.                                                   *)
(***************************************************************************)

\* The buffers and NULL.
Places == Cells \cup {NULL}

\* Every pointer leads to a lower place, and NULL is the lowest.
Falls(h, r) == r[NULL] = 0 /\ \A d \in Cells : r[h[d].orig] < r[d] /\ r[h[d].next] < r[d]

\* Following the pointers of the heap ends.
Acyclic(h) == \E N \in Nat : \E r \in [Places -> 0..N] : Falls(h, r)

\* What Cells and NULL are.
LEMMA CellsAre ==
  /\ NULL \notin Cells
  /\ IsFiniteSet(Cells)
  /\ Cells \subseteq Nat
  /\ NULL \in Places
  /\ Cells \subseteq Places
<1>1. MaxCells \in Nat
  BY TxnAssumption DEF TxnAssumption
<1>2. IsFiniteSet(1..MaxCells)
  BY <1>1, FS_Interval
<1> QED
  BY <1>1, <1>2 DEF Cells, NULL, Places

\* The fields of a buffer.
LEMMA CellType ==
  ASSUME NEW h \in Heaps, NEW c \in Cells
  PROVE  /\ h[c] \in Buffers
         /\ h[c].data \in Seq(Units)
         /\ h[c].orig \in Places
         /\ h[c].next \in Places
         /\ h[c].refcnt \in Nat
  BY DEF Heaps, Buffers, Places

\* The buffers that logdb_buffer_copy and logdb_buffer_new_direct make.
LEMMA Made ==
  ASSUME NEW b, NEW d
  PROVE  /\ [Blank EXCEPT !.orig = b, !.refcnt = 1]
             = [data |-> <<>>, orig |-> b, next |-> NULL, refcnt |-> 1]
         /\ [Blank EXCEPT !.data = d, !.refcnt = 1]
             = [data |-> d, orig |-> NULL, next |-> NULL, refcnt |-> 1]
<1> DEFINE F == {"data", "orig", "next", "refcnt"}
<1>1. Blank = [x \in F |-> Blank[x]]
  BY DEF Blank
<1>2. Blank.data = <<>> /\ Blank.orig = NULL /\ Blank.next = NULL
  BY DEF Blank
<1>3. [Blank EXCEPT !.orig = b, !.refcnt = 1]
        = [x \in F |-> IF x = "refcnt" THEN 1 ELSE IF x = "orig" THEN b ELSE Blank[x]]
  BY <1>1
<1>4. [Blank EXCEPT !.data = d, !.refcnt = 1]
        = [x \in F |-> IF x = "refcnt" THEN 1 ELSE IF x = "data" THEN d ELSE Blank[x]]
  BY <1>1
<1>5. [Blank EXCEPT !.orig = b, !.refcnt = 1]
        = [data |-> <<>>, orig |-> b, next |-> NULL, refcnt |-> 1]
  BY <1>2, <1>3
<1>6. [Blank EXCEPT !.data = d, !.refcnt = 1]
        = [data |-> d, orig |-> NULL, next |-> NULL, refcnt |-> 1]
  BY <1>2, <1>4
<1> QED
  BY <1>5, <1>6

\* Induction over the pointers of a heap.
LEMMA HeapInduction ==
  ASSUME NEW h \in Heaps, Acyclic(h), NEW T, NULL \in T,
         \A d \in Cells : h[d].orig \in T /\ h[d].next \in T => d \in T
  PROVE  \A d \in Places : d \in T
<1>0. PICK N \in Nat : \E r \in [Places -> 0..N] : Falls(h, r)
  BY DEF Acyclic
<1>1. PICK r \in [Places -> 0..N] : Falls(h, r)
  BY <1>0
<1> DEFINE S == {n \in Nat : \A d \in Places : r[d] < n => d \in T}
<1>2. 0 \in S
  BY <1>1
<1>3. ASSUME NEW n \in Nat, n \in S PROVE n + 1 \in S
  <2> SUFFICES ASSUME NEW d \in Places, r[d] < n + 1 PROVE d \in T
    OBVIOUS
  <2>1. CASE d = NULL
    BY <2>1
  <2>2. CASE d \in Cells
    <3>1. h[d].orig \in Places /\ h[d].next \in Places
      BY <2>2, CellType
    <3>2. r[h[d].orig] < r[d] /\ r[h[d].next] < r[d]
      BY <1>1, <2>2 DEF Falls
    <3>3. r[h[d].orig] < n /\ r[h[d].next] < n
      BY <3>1, <3>2
    <3>4. h[d].orig \in T /\ h[d].next \in T
      BY <1>3, <3>1, <3>3
    <3> QED
      BY <2>2, <3>4
  <2> QED
    BY <2>1, <2>2 DEF Places
<1> HIDE DEF S
<1>4. \A n \in Nat : n \in S
  BY <1>2, <1>3, Induction
<1>5. N + 1 \in S
  BY <1>4
<1>6. \A d \in Places : r[d] < N + 1
  BY <1>1
<1> QED
  BY <1>5, <1>6 DEF S
-----------------------------------------------------------------------------
(***************************************************************************)
(* What the walks over the heap compute.                                   *)
(***************************************************************************)

\* The values of a step of Reach, given those of the pointers.
ReachStep(h, f, d) == IF d = NULL THEN {} ELSE {d} \cup f[h[d].orig] \cup f[h[d].next]

\* There is a function that solves the equation of Reach.
LEMMA ReachExists ==
  ASSUME NEW h \in Heaps, Acyclic(h)
  PROVE  \E f : f = [d \in Places |-> ReachStep(h, f, d)]
<1>0. PICK N \in Nat : \E r \in [Places -> 0..N] : Falls(h, r)
  BY DEF Acyclic
<1>1. PICK r \in [Places -> 0..N] : Falls(h, r)
  BY <1>0
<1> DEFINE Q(n, f) == \A d \in Places : r[d] < n => f[d] = ReachStep(h, f, d)
           S == {n \in Nat : \E f : Q(n, f)}
<1>2. 0 \in S
  BY <1>1
<1>3. ASSUME NEW n \in Nat, n \in S PROVE n + 1 \in S
  <2>1. PICK f : Q(n, f)
    BY <1>3
  <2> DEFINE g == [d \in Places |-> ReachStep(h, f, d)]
  <2>2. ASSUME NEW d \in Places, r[d] < n + 1 PROVE g[d] = ReachStep(h, g, d)
    <3>1. CASE d = NULL
      BY <3>1 DEF ReachStep
    <3>2. CASE d \in Cells
      <4>1. h[d].orig \in Places /\ h[d].next \in Places
        BY <3>2, CellType
      <4>2. r[h[d].orig] < r[d] /\ r[h[d].next] < r[d]
        BY <1>1, <3>2 DEF Falls
      <4>3. r[h[d].orig] < n /\ r[h[d].next] < n
        BY <2>2, <4>1, <4>2
      <4>4. f[h[d].orig] = g[h[d].orig] /\ f[h[d].next] = g[h[d].next]
        BY <2>1, <4>1, <4>3
      <4>5. g[d] = ReachStep(h, f, d)
        OBVIOUS
      <4> HIDE DEF g
      <4> QED
        BY <4>4, <4>5 DEF ReachStep
    <3> QED
      BY <3>1, <3>2 DEF Places
  <2> HIDE DEF g
  <2> QED
    BY <2>2
<1> HIDE DEF S
<1>4. \A n \in Nat : n \in S
  BY <1>2, <1>3, Induction
<1>5. PICK f : Q(N + 1, f)
  BY <1>4 DEF S
<1>6. \A d \in Places : r[d] < N + 1
  BY <1>1
<1>7. \A d \in Places : f[d] = ReachStep(h, f, d)
  BY <1>5, <1>6
<1> DEFINE g == [d \in Places |-> f[d]]
<1>8. ASSUME NEW d \in Places PROVE g[d] = ReachStep(h, g, d)
  <2>1. d # NULL => h[d].orig \in Places /\ h[d].next \in Places
    BY CellType DEF Places
  <2>2. d # NULL => g[h[d].orig] = f[h[d].orig] /\ g[h[d].next] = f[h[d].next]
    BY <2>1
  <2>3. g[d] = ReachStep(h, f, d)
    BY <1>7
  <2> HIDE DEF g
  <2> QED
    BY <2>2, <2>3 DEF ReachStep
<1>9. g = [d \in Places |-> g[d]]
  OBVIOUS
<1> HIDE DEF g
<1>10. g = [d \in Places |-> ReachStep(h, g, d)]
  BY <1>8, <1>9
<1> QED
  BY <1>10

\* A buffer reaches itself and what its pointers reach.
LEMMA ReachIs ==
  ASSUME NEW h \in Heaps, Acyclic(h)
  PROVE  /\ Reach(h, NULL) = {}
         /\ \A d \in Cells : Reach(h, d) = {d} \cup Reach(h, h[d].orig) \cup Reach(h, h[d].next)
<1> DEFINE f == CHOOSE f : f = [d \in Places |-> ReachStep(h, f, d)]
<1>1. f = [d \in Places |-> ReachStep(h, f, d)]
  BY ReachExists
<1>2. \A c : Reach(h, c) = f[c]
  BY DEF Reach, ReachStep, Places
<1> HIDE DEF f
<1>3. f[NULL] = {}
  BY <1>1, CellsAre DEF ReachStep
<1>4. ASSUME NEW d \in Cells PROVE f[d] = {d} \cup f[h[d].orig] \cup f[h[d].next]
  BY <1>1, CellsAre DEF ReachStep
<1> QED
  BY <1>2, <1>3, <1>4

\* The values of a step of Content.
ContentStep(h, f, d) ==
    IF d = NULL THEN <<>>
    ELSE (IF h[d].orig # NULL THEN f[h[d].orig] ELSE h[d].data) \o f[h[d].next]

\* There is a function that solves the equation of Content.
LEMMA ContentExists ==
  ASSUME NEW h \in Heaps, Acyclic(h)
  PROVE  \E f : f = [d \in Places |-> ContentStep(h, f, d)]
<1>0. PICK N \in Nat : \E r \in [Places -> 0..N] : Falls(h, r)
  BY DEF Acyclic
<1>1. PICK r \in [Places -> 0..N] : Falls(h, r)
  BY <1>0
<1> DEFINE Q(n, f) == \A d \in Places : r[d] < n => f[d] = ContentStep(h, f, d)
           S == {n \in Nat : \E f : Q(n, f)}
<1>2. 0 \in S
  BY <1>1
<1>3. ASSUME NEW n \in Nat, n \in S PROVE n + 1 \in S
  <2>1. PICK f : Q(n, f)
    BY <1>3
  <2> DEFINE g == [d \in Places |-> ContentStep(h, f, d)]
  <2>2. ASSUME NEW d \in Places, r[d] < n + 1 PROVE g[d] = ContentStep(h, g, d)
    <3>1. CASE d = NULL
      BY <3>1 DEF ContentStep
    <3>2. CASE d \in Cells
      <4>1. h[d].orig \in Places /\ h[d].next \in Places
        BY <3>2, CellType
      <4>2. r[h[d].orig] < r[d] /\ r[h[d].next] < r[d]
        BY <1>1, <3>2 DEF Falls
      <4>3. r[h[d].orig] < n /\ r[h[d].next] < n
        BY <2>2, <4>1, <4>2
      <4>4. f[h[d].orig] = g[h[d].orig] /\ f[h[d].next] = g[h[d].next]
        BY <2>1, <4>1, <4>3
      <4>5. g[d] = ContentStep(h, f, d)
        OBVIOUS
      <4> HIDE DEF g
      <4> QED
        BY <4>4, <4>5 DEF ContentStep
    <3> QED
      BY <3>1, <3>2 DEF Places
  <2> HIDE DEF g
  <2> QED
    BY <2>2
<1> HIDE DEF S
<1>4. \A n \in Nat : n \in S
  BY <1>2, <1>3, Induction
<1>5. PICK f : Q(N + 1, f)
  BY <1>4 DEF S
<1>6. \A d \in Places : r[d] < N + 1
  BY <1>1
<1>7. \A d \in Places : f[d] = ContentStep(h, f, d)
  BY <1>5, <1>6
<1> DEFINE g == [d \in Places |-> f[d]]
<1>8. ASSUME NEW d \in Places PROVE g[d] = ContentStep(h, g, d)
  <2>1. d # NULL => h[d].orig \in Places /\ h[d].next \in Places
    BY CellType DEF Places
  <2>2. d # NULL => g[h[d].orig] = f[h[d].orig] /\ g[h[d].next] = f[h[d].next]
    BY <2>1
  <2>3. g[d] = ContentStep(h, f, d)
    BY <1>7
  <2> HIDE DEF g
  <2> QED
    BY <2>2, <2>3 DEF ContentStep
<1>9. g = [d \in Places |-> g[d]]
  OBVIOUS
<1> HIDE DEF g
<1>10. g = [d \in Places |-> ContentStep(h, g, d)]
  BY <1>8, <1>9
<1> QED
  BY <1>10

\* The content of a buffer is that of the buffer it stands for, or its own data,
\* and then that of the next one.
LEMMA ContentIs ==
  ASSUME NEW h \in Heaps, Acyclic(h)
  PROVE  /\ Content(h, NULL) = <<>>
         /\ \A d \in Cells :
             Content(h, d) = (IF h[d].orig # NULL THEN Content(h, h[d].orig) ELSE h[d].data)
                             \o Content(h, h[d].next)
<1> DEFINE f == CHOOSE f : f = [d \in Places |-> ContentStep(h, f, d)]
<1>1. f = [d \in Places |-> ContentStep(h, f, d)]
  BY ContentExists
<1>2. \A c : Content(h, c) = f[c]
  BY DEF Content, ContentStep, Places
<1> HIDE DEF f
<1>3. f[NULL] = <<>>
  BY <1>1, CellsAre DEF ContentStep
<1>4. ASSUME NEW d \in Cells
      PROVE  f[d] = (IF h[d].orig # NULL THEN f[h[d].orig] ELSE h[d].data) \o f[h[d].next]
  BY <1>1, CellsAre DEF ContentStep
<1> QED
  BY <1>2, <1>3, <1>4

\* The values of a step of Chain.
ChainStep(h, f, d) == {d} \cup IF h[d].next = NULL THEN {} ELSE f[h[d].next]

\* There is a function that solves the equation of Chain.
LEMMA ChainExists ==
  ASSUME NEW h \in Heaps, Acyclic(h)
  PROVE  \E f : f = [d \in Cells |-> ChainStep(h, f, d)]
<1>0. PICK N \in Nat : \E r \in [Places -> 0..N] : Falls(h, r)
  BY DEF Acyclic
<1>1. PICK r \in [Places -> 0..N] : Falls(h, r)
  BY <1>0
<1> DEFINE Q(n, f) == \A d \in Cells : r[d] < n => f[d] = ChainStep(h, f, d)
           S == {n \in Nat : \E f : Q(n, f)}
<1>2. 0 \in S
  BY <1>1, CellsAre
<1>3. ASSUME NEW n \in Nat, n \in S PROVE n + 1 \in S
  <2>1. PICK f : Q(n, f)
    BY <1>3
  <2> DEFINE g == [d \in Cells |-> ChainStep(h, f, d)]
  <2>2. ASSUME NEW d \in Cells, r[d] < n + 1 PROVE g[d] = ChainStep(h, g, d)
    <3>1. h[d].next \in Places /\ r[h[d].next] < r[d]
      BY <1>1, CellType DEF Falls
    <3>2. h[d].next # NULL => h[d].next \in Cells /\ r[h[d].next] < n
      BY <2>2, <3>1 DEF Places
    <3>3. h[d].next # NULL => f[h[d].next] = g[h[d].next]
      BY <2>1, <3>2
    <3>4. g[d] = ChainStep(h, f, d)
      OBVIOUS
    <3> HIDE DEF g
    <3> QED
      BY <3>3, <3>4 DEF ChainStep
  <2> HIDE DEF g
  <2> QED
    BY <2>2
<1> HIDE DEF S
<1>4. \A n \in Nat : n \in S
  BY <1>2, <1>3, Induction
<1>5. PICK f : Q(N + 1, f)
  BY <1>4 DEF S
<1>6. \A d \in Cells : r[d] < N + 1
  BY <1>1, CellsAre
<1>7. \A d \in Cells : f[d] = ChainStep(h, f, d)
  BY <1>5, <1>6
<1> DEFINE g == [d \in Cells |-> f[d]]
<1>8. ASSUME NEW d \in Cells PROVE g[d] = ChainStep(h, g, d)
  <2>1. h[d].next # NULL => h[d].next \in Cells
    BY CellType DEF Places
  <2>2. h[d].next # NULL => g[h[d].next] = f[h[d].next]
    BY <2>1
  <2>3. g[d] = ChainStep(h, f, d)
    BY <1>7
  <2> HIDE DEF g
  <2> QED
    BY <2>2, <2>3 DEF ChainStep
<1>9. g = [d \in Cells |-> g[d]]
  OBVIOUS
<1> HIDE DEF g
<1>10. g = [d \in Cells |-> ChainStep(h, g, d)]
  BY <1>8, <1>9
<1> QED
  BY <1>10

\* The chain of a buffer is the buffer and the chain of the next one.
LEMMA ChainIs ==
  ASSUME NEW h \in Heaps, Acyclic(h), NEW d \in Cells
  PROVE  Chain(h, d) = {d} \cup IF h[d].next = NULL THEN {} ELSE Chain(h, h[d].next)
<1> DEFINE f == CHOOSE f : f = [e \in Cells |-> ChainStep(h, f, e)]
<1>1. f = [e \in Cells |-> ChainStep(h, f, e)]
  BY ChainExists
<1>2. \A c : Chain(h, c) = f[c]
  BY DEF Chain, ChainStep
<1> HIDE DEF f
<1>3. f[d] = {d} \cup IF h[d].next = NULL THEN {} ELSE f[h[d].next]
  BY <1>1 DEF ChainStep
<1> QED
  BY <1>2, <1>3
-----------------------------------------------------------------------------
(***************************************************************************)
(* What a buffer reaches.                                                  *)
(***************************************************************************)

\* S has with a buffer also what its pointers lead to.
Closure(h, S) == \A d \in S : h[d].orig \in S \cup {NULL} /\ h[d].next \in S \cup {NULL}

\* A buffer reaches nothing that a closed set with it does not have.
LEMMA ReachLeast ==
  ASSUME NEW h \in Heaps, Acyclic(h), NEW S \in SUBSET Cells, Closure(h, S)
  PROVE  \A c \in S \cup {NULL} : Reach(h, c) \subseteq S
<1> DEFINE T == {c \in Places : c \in S \cup {NULL} => Reach(h, c) \subseteq S}
<1>1. NULL \in T
  BY ReachIs, CellsAre
<1>2. ASSUME NEW d \in Cells, h[d].orig \in T, h[d].next \in T PROVE d \in T
  <2> SUFFICES ASSUME d \in S PROVE Reach(h, d) \subseteq S
    BY CellsAre
  <2>1. h[d].orig \in S \cup {NULL} /\ h[d].next \in S \cup {NULL}
    BY DEF Closure
  <2>2. Reach(h, h[d].orig) \subseteq S /\ Reach(h, h[d].next) \subseteq S
    BY <1>2, <2>1
  <2> QED
    BY <2>2, ReachIs
<1> HIDE DEF T
<1>3. \A d \in Places : d \in T
  BY <1>1, <1>2, HeapInduction
<1> QED
  BY <1>3 DEF T, Places

\* A buffer reaches buffers, itself among them, and all that they point to.
LEMMA ReachClosed ==
  ASSUME NEW h \in Heaps, Acyclic(h)
  PROVE  \A c \in Places : /\ Reach(h, c) \subseteq Cells
                           /\ c # NULL => c \in Reach(h, c)
                           /\ Closure(h, Reach(h, c))
<1> DEFINE T == {c \in Places : Reach(h, c) \subseteq Cells /\ Closure(h, Reach(h, c))}
<1>1. \A c \in Cells : c \in Reach(h, c)
  BY ReachIs
<1>2. NULL \in T
  BY ReachIs, CellsAre DEF Closure
<1>3. ASSUME NEW d \in Cells, h[d].orig \in T, h[d].next \in T PROVE d \in T
  <2> DEFINE A == Reach(h, h[d].orig)
             B == Reach(h, h[d].next)
  <2>1. Reach(h, d) = {d} \cup A \cup B
    BY ReachIs
  <2>2. A \subseteq Cells /\ B \subseteq Cells /\ Closure(h, A) /\ Closure(h, B)
    BY <1>3
  <2>3. h[d].orig \in A \cup {NULL} /\ h[d].next \in B \cup {NULL}
    BY <1>1, CellType DEF Places
  <2> HIDE DEF A, B
  <2>4. Closure(h, {d} \cup A \cup B)
    BY <2>2, <2>3 DEF Closure
  <2> QED
    BY <2>1, <2>2, <2>4, CellsAre
<1> HIDE DEF T
<1>4. \A d \in Places : d \in T
  BY <1>2, <1>3, HeapInduction
<1> QED
  BY <1>1, <1>4 DEF T, Places

\* What a reached buffer reaches is reached.
LEMMA ReachTransitive ==
  ASSUME NEW h \in Heaps, Acyclic(h), NEW c \in Places, NEW d \in Reach(h, c)
  PROVE  Reach(h, d) \subseteq Reach(h, c)
<1>1. Reach(h, c) \in SUBSET Cells /\ Closure(h, Reach(h, c))
  BY ReachClosed
<1> QED
  BY <1>1, ReachLeast

\* A buffer is not reached from what it points to.
LEMMA ReachBelow ==
  ASSUME NEW h \in Heaps, Acyclic(h), NEW d \in Cells
  PROVE  d \notin Reach(h, h[d].orig) /\ d \notin Reach(h, h[d].next)
<1>0. PICK N \in Nat : \E r \in [Places -> 0..N] : Falls(h, r)
  BY DEF Acyclic
<1>1. PICK r \in [Places -> 0..N] : Falls(h, r)
  BY <1>0
<1> DEFINE S == {e \in Cells : r[e] < r[d]}
<1>2. \A e \in Places : r[e] \in Int
  BY <1>1
<1>3. Closure(h, S)
  <2> SUFFICES ASSUME NEW e \in S
               PROVE  h[e].orig \in S \cup {NULL} /\ h[e].next \in S \cup {NULL}
    BY DEF Closure
  <2>1. h[e].orig \in Places /\ h[e].next \in Places
    BY CellType
  <2>2. r[h[e].orig] < r[e] /\ r[h[e].next] < r[e] /\ r[e] < r[d]
    BY <1>1 DEF Falls
  <2>a. e \in Places /\ d \in Places
    BY CellsAre
  <2>b. r[h[e].orig] \in Int /\ r[h[e].next] \in Int /\ r[e] \in Int /\ r[d] \in Int
    BY <1>2, <2>1, <2>a
  <2> HIDE DEF S
  <2>3. r[h[e].orig] < r[d] /\ r[h[e].next] < r[d]
    BY <2>2, <2>b
  <2> QED
    BY <2>1, <2>3 DEF Places, S
<1>4. h[d].orig \in S \cup {NULL} /\ h[d].next \in S \cup {NULL}
  <2>1. h[d].orig \in Places /\ h[d].next \in Places
    BY CellType
  <2>2. r[h[d].orig] < r[d] /\ r[h[d].next] < r[d]
    BY <1>1 DEF Falls
  <2> QED
    BY <2>1, <2>2 DEF Places
<1>5. d \notin S
  BY <1>2, CellsAre
<1> HIDE DEF S
<1>6. S \in SUBSET Cells
  BY DEF S
<1>7. Reach(h, h[d].orig) \subseteq S /\ Reach(h, h[d].next) \subseteq S
  BY <1>3, <1>4, <1>6, ReachLeast
<1> QED
  BY <1>5, <1>7

\* The pointers of d are the same in both heaps.
SamePointers(g, h, d) == g[d].orig = h[d].orig /\ g[d].next = h[d].next

\* What a buffer reaches depends on the pointers of what it reaches.
LEMMA ReachSame ==
  ASSUME NEW g \in Heaps, Acyclic(g), NEW h \in Heaps, Acyclic(h), NEW c \in Places,
         \A d \in Reach(h, c) : SamePointers(g, h, d)
  PROVE  Reach(g, c) = Reach(h, c)
<1>1. CASE c = NULL
  BY <1>1, ReachIs
<1>2. CASE c # NULL
  <2>1. /\ Reach(h, c) \in SUBSET Cells /\ c \in Reach(h, c) /\ Closure(h, Reach(h, c))
        /\ Reach(g, c) \in SUBSET Cells /\ c \in Reach(g, c) /\ Closure(g, Reach(g, c))
    BY <1>2, ReachClosed
  <2>2. Closure(g, Reach(h, c))
    BY <2>1 DEF Closure, SamePointers
  <2>3. Reach(g, c) \subseteq Reach(h, c)
    BY <2>1, <2>2, ReachLeast
  <2>4. Closure(h, Reach(g, c))
    BY <2>1, <2>3 DEF Closure, SamePointers
  <2>5. Reach(h, c) \subseteq Reach(g, c)
    BY <2>1, <2>4, ReachLeast
  <2> QED
    BY <2>3, <2>5
<1> QED
  BY <1>1, <1>2

\* A heap with fewer pointers has no cycles either, and reaches less.
Fewer(g, h) ==
    \A d \in Cells : g[d].orig \in {h[d].orig, NULL} /\ g[d].next \in {h[d].next, NULL}

\* The pointers that were taken away only took away paths.
LEMMA FewerPointers ==
  ASSUME NEW g \in Heaps, NEW h \in Heaps, Acyclic(h), Fewer(g, h)
  PROVE  /\ Acyclic(g)
         /\ \A c \in Places : Reach(g, c) \subseteq Reach(h, c)
<1>0. PICK N \in Nat : \E r \in [Places -> 0..N] : Falls(h, r)
  BY DEF Acyclic
<1>1. PICK r \in [Places -> 0..N] : Falls(h, r)
  BY <1>0
<1>2. ASSUME NEW d \in Cells PROVE r[g[d].orig] < r[d] /\ r[g[d].next] < r[d]
  <2>1. h[d].orig \in Places /\ h[d].next \in Places /\ d \in Places
    BY CellType, CellsAre
  <2>2. r[h[d].orig] < r[d] /\ r[h[d].next] < r[d] /\ r[NULL] = 0
    BY <1>1 DEF Falls
  <2>3. r[NULL] < r[d]
    BY <2>1, <2>2
  <2>4. g[d].orig \in {h[d].orig, NULL} /\ g[d].next \in {h[d].next, NULL}
    BY DEF Fewer
  <2> QED
    BY <2>2, <2>3, <2>4
<1>3. Acyclic(g)
  BY <1>1, <1>2 DEF Acyclic, Falls
<1>4. ASSUME NEW c \in Places PROVE Reach(g, c) \subseteq Reach(h, c)
  <2>1. Reach(h, c) \in SUBSET Cells /\ c \in Reach(h, c) \cup {NULL} /\ Closure(h, Reach(h, c))
    BY ReachClosed
  <2>2. Closure(g, Reach(h, c))
    BY <2>1 DEF Closure, Fewer
  <2> QED
    BY <1>3, <2>1, <2>2, ReachLeast
<1> QED
  BY <1>3, <1>4

\* The content of a buffer is a sequence of units.
LEMMA ContentType ==
  ASSUME NEW h \in Heaps, Acyclic(h)
  PROVE  \A c \in Places : Content(h, c) \in Seq(Units)
<1> DEFINE T == {c \in Places : Content(h, c) \in Seq(Units)}
<1>1. NULL \in T
  <2>1. <<>> \in Seq(Units)
    OBVIOUS
  <2> QED
    BY <2>1, ContentIs, CellsAre
<1>2. ASSUME NEW d \in Cells, h[d].orig \in T, h[d].next \in T PROVE d \in T
  <2> DEFINE a == IF h[d].orig # NULL THEN Content(h, h[d].orig) ELSE h[d].data
             b == Content(h, h[d].next)
  <2>1. a \in Seq(Units) /\ b \in Seq(Units)
    BY <1>2, CellType
  <2>2. Content(h, d) = a \o b
    BY ContentIs
  <2> HIDE DEF a, b
  <2>3. a \o b \in Seq(Units)
    BY <2>1
  <2> QED
    BY <2>2, <2>3, CellsAre
<1> HIDE DEF T
<1>3. \A d \in Places : d \in T
  BY <1>1, <1>2, HeapInduction
<1> QED
  BY <1>3 DEF T

\* It depends on the data and the pointers of what the buffer reaches.
LEMMA ContentSame ==
  ASSUME NEW g \in Heaps, Acyclic(g), NEW h \in Heaps, Acyclic(h), NEW c \in Places,
         \A d \in Reach(h, c) : SamePointers(g, h, d) /\ g[d].data = h[d].data
  PROVE  Content(g, c) = Content(h, c)
<1> DEFINE T == {d \in Places : d \in Reach(h, c) \cup {NULL} => Content(g, d) = Content(h, d)}
<1>1. Reach(h, c) \subseteq Cells /\ c \in Reach(h, c) \cup {NULL} /\ Closure(h, Reach(h, c))
  BY ReachClosed
<1>2. NULL \in T
  BY ContentIs, CellsAre
<1>3. ASSUME NEW d \in Cells, h[d].orig \in T, h[d].next \in T PROVE d \in T
  <2> SUFFICES ASSUME d \in Reach(h, c) PROVE Content(g, d) = Content(h, d)
    BY CellsAre
  <2>1. h[d].orig \in Reach(h, c) \cup {NULL} /\ h[d].next \in Reach(h, c) \cup {NULL}
    BY <1>1 DEF Closure
  <2>2. Content(g, h[d].orig) = Content(h, h[d].orig) /\ Content(g, h[d].next) = Content(h, h[d].next)
    BY <1>3, <2>1
  <2>3. g[d].orig = h[d].orig /\ g[d].next = h[d].next /\ g[d].data = h[d].data
    BY DEF SamePointers
  <2>4. /\ Content(h, d) = (IF h[d].orig # NULL THEN Content(h, h[d].orig) ELSE h[d].data)
                          \o Content(h, h[d].next)
        /\ Content(g, d) = (IF g[d].orig # NULL THEN Content(g, g[d].orig) ELSE g[d].data)
                          \o Content(g, g[d].next)
    BY ContentIs
  <2> QED
    BY <2>2, <2>3, <2>4
<1> HIDE DEF T
<1>4. \A d \in Places : d \in T
  BY <1>2, <1>3, HeapInduction
<1> QED
  BY <1>1, <1>4 DEF T
-----------------------------------------------------------------------------
(***************************************************************************)
(* Chains.                                                                 *)
(***************************************************************************)

\* x is not in a chain, or is the first buffer of it.
First(h, x) == \A d \in Cells : h[d].next # x

\* A buffer in a chain has one predecessor, and no copy stands for it.
Linked(h) ==
    \A d \in Cells : h[d].next # NULL =>
        \A e \in Cells : h[e].orig # h[d].next /\ (h[e].next = h[d].next => e = d)

\* The chain of c as a set: it begins with c, every other one of its buffers
\* follows one of them, and there is one at the end.
ChainSound(h, c, C) ==
    /\ c \in C /\ C \subseteq Reach(h, c)
    /\ \A y \in C : h[y].next \in C \cup {NULL}
    /\ \A y \in C : y # c => \E p \in C : h[p].next = y
    /\ \E y \in C : h[y].next = NULL
    /\ \A x, y \in C : h[x].next = NULL /\ h[y].next = NULL => x = y

\* Chain is such a set.
LEMMA ChainIsSound ==
  ASSUME NEW h \in Heaps, Acyclic(h)
  PROVE  \A c \in Cells : ChainSound(h, c, Chain(h, c))
<1> DEFINE T == {c \in Places : c # NULL => ChainSound(h, c, Chain(h, c))}
<1>1. NULL \in T
  BY CellsAre
<1>2. ASSUME NEW c \in Cells, h[c].next \in T PROVE c \in T
  <2>1. CASE h[c].next = NULL
    <3>1. Chain(h, c) = {c}
      BY <2>1, ChainIs
    <3>2. c \in Reach(h, c)
      BY ReachClosed, CellsAre
    <3>3. ChainSound(h, c, {c})
      BY <2>1, <3>2 DEF ChainSound
    <3> QED
      BY <3>1, <3>3, CellsAre
  <2>2. CASE h[c].next # NULL
    <3> DEFINE n == h[c].next
               C == Chain(h, n)
    <3>1. Chain(h, c) = {c} \cup C
      BY <2>2, ChainIs
    <3>2. ChainSound(h, n, C)
      BY <1>2, <2>2
    <3>3. c \in Reach(h, c) /\ Reach(h, n) \subseteq Reach(h, c) /\ c \notin Reach(h, n)
      BY ReachIs, ReachBelow
    <3> HIDE DEF C
    <3>4. n \in C /\ C \subseteq Reach(h, n)
      BY <3>2 DEF ChainSound
    <3>5. c \in {c} \cup C /\ {c} \cup C \subseteq Reach(h, c)
      BY <3>3, <3>4
    <3>6. \A y \in {c} \cup C : h[y].next \in {c} \cup C \cup {NULL}
      BY <3>2, <3>4 DEF ChainSound
    <3>7. ASSUME NEW y \in {c} \cup C, y # c PROVE \E p \in {c} \cup C : h[p].next = y
      <4>1. CASE y = n
        BY <4>1
      <4>2. CASE y # n
        BY <3>2, <3>7, <4>2 DEF ChainSound
      <4> QED
        BY <4>1, <4>2
    <3>8. \E y \in {c} \cup C : h[y].next = NULL
      BY <3>2 DEF ChainSound
    <3>9. \A x, y \in {c} \cup C : h[x].next = NULL /\ h[y].next = NULL => x = y
      BY <2>2, <3>2 DEF ChainSound
    <3>10. ChainSound(h, c, {c} \cup C)
      BY <3>5, <3>6, <3>7, <3>8, <3>9 DEF ChainSound
    <3> QED
      BY <3>1, <3>10, CellsAre
  <2> QED
    BY <2>1, <2>2
<1> HIDE DEF T
<1>3. \A d \in Places : d \in T
  BY <1>1, <1>2, HeapInduction
<1> QED
  BY <1>3, CellsAre DEF T

\* Whoever comes into a chain comes through its first buffer.
LEMMA Entry ==
  ASSUME NEW h \in Heaps, Acyclic(h), Linked(h), NEW a \in Cells, First(h, a),
         NEW x \in Places, x # NULL => First(h, x), a \notin Reach(h, x)
  PROVE  Reach(h, x) \cap Chain(h, a) = {}
<1> DEFINE C == Chain(h, a)
           S == Reach(h, x) \ C
<1>1. CASE x = NULL
  BY <1>1, ReachIs
<1>2. CASE x # NULL
  <2>1. Reach(h, x) \subseteq Cells /\ x \in Reach(h, x) /\ Closure(h, Reach(h, x))
    BY <1>2, ReachClosed
  <2>2. ChainSound(h, a, C)
    BY ChainIsSound
  <2>3. ChainSound(h, a, C) => C \subseteq Cells
    BY ReachClosed, CellsAre DEF ChainSound
  <2> HIDE DEF C
  <2>4. \A y \in C : y # a => ~First(h, y) /\ \A e \in Cells : h[e].orig # y
    <3> SUFFICES ASSUME NEW y \in C, y # a
                 PROVE  ~First(h, y) /\ \A e \in Cells : h[e].orig # y
      OBVIOUS
    <3>1. PICK p \in C : h[p].next = y
      BY <2>2 DEF ChainSound
    <3>2. p \in Cells /\ y # NULL
      BY <2>2, <2>3, CellsAre
    <3> QED
      BY <3>1, <3>2 DEF First, Linked
  <2>5. x \in S
    BY <1>2, <2>1, <2>4
  <2>6. ASSUME NEW d \in S PROVE h[d].orig \in S \cup {NULL} /\ h[d].next \in S \cup {NULL}
    <3>1. /\ d \in Cells /\ d \notin C
          /\ h[d].orig \in Reach(h, x) \cup {NULL} /\ h[d].next \in Reach(h, x) \cup {NULL}
      BY <2>1 DEF Closure
    <3>2. h[d].orig \notin C
      BY <2>4, <3>1, <2>2, <2>3, CellsAre
    <3>3. ASSUME h[d].next \in C PROVE FALSE
      <4>1. h[d].next # a
        BY <3>1 DEF First
      <4>2. PICK p \in C : h[p].next = h[d].next
        BY <2>2, <3>3, <4>1 DEF ChainSound
      <4>3. p \in Cells /\ h[d].next # NULL
        BY <2>2, <2>3, <3>3, CellsAre
      <4>4. p = d
        BY <3>1, <4>2, <4>3 DEF Linked
      <4> QED
        BY <3>1, <4>4
    <3> QED
      BY <3>1, <3>2, <3>3
  <2>7. Closure(h, S) /\ S \in SUBSET Cells
    BY <2>1, <2>6 DEF Closure
  <2> HIDE DEF S
  <2>8. Reach(h, x) \subseteq S
    BY <2>5, <2>7, ReachLeast
  <2> QED
    BY <2>8 DEF S, C
<1> QED
  BY <1>1, <1>2
-----------------------------------------------------------------------------
(***************************************************************************)
(* A copy of b at c is appended to the chain of a, as logdb_buffer_append  *)
(* does.                                                                   *)
(***************************************************************************)

\* Nothing in the heap points to c.
Unpointed(h, c) == \A d \in Cells : h[d].orig # c /\ h[d].next # c

\* What the caller of logdb_buffer_append and malloc provide.
Appendable(h, a, b, c) ==
    /\ h \in Heaps /\ Acyclic(h) /\ Linked(h)
    /\ a \in Cells /\ First(h, a)
    /\ b \in Cells /\ First(h, b)
    /\ a \notin Reach(h, b)
    /\ c \in Cells /\ c # a /\ c # b /\ Unpointed(h, c)

\* The last buffer of the chain of a.
Last(h, a) == CHOOSE d \in Chain(h, a) : h[d].next = NULL

\* The heap after logdb_buffer_append, with the copy at c.
Graft(h, a, b, c) == [Copy(h, c, b) EXCEPT ![Last(h, a)].next = c]

\* Where the parts are.
LEMMA AppendApart ==
  ASSUME NEW h, NEW a, NEW b, NEW c, Appendable(h, a, b, c)
  PROVE  /\ ChainSound(h, a, Chain(h, a)) /\ Chain(h, a) \subseteq Cells
         /\ Last(h, a) \in Chain(h, a) /\ h[Last(h, a)].next = NULL
         /\ Last(h, a) \in Cells
         /\ Last(h, a) \notin Reach(h, b)
         /\ Last(h, a) # b /\ Last(h, a) # c
         /\ \A x \in Places : x # c => c \notin Reach(h, x)
<1> USE DEF Appendable
<1>1. ChainSound(h, a, Chain(h, a))
  BY ChainIsSound
<1>2. Chain(h, a) \subseteq Reach(h, a) /\ Reach(h, a) \subseteq Cells
  BY <1>1, ReachClosed, CellsAre DEF ChainSound
<1>3. \E d \in Chain(h, a) : h[d].next = NULL
  BY <1>1 DEF ChainSound
<1>4. Last(h, a) \in Chain(h, a) /\ h[Last(h, a)].next = NULL
  BY <1>3 DEF Last
<1>5. Reach(h, b) \cap Chain(h, a) = {}
  BY Entry, CellsAre
<1>6. b \in Reach(h, b)
  BY ReachClosed, CellsAre
<1>7. ASSUME NEW x \in Places, x # c PROVE c \notin Reach(h, x)
  <2> DEFINE S == Cells \ {c}
  <2>1. Closure(h, S)
    BY CellType DEF Closure, Unpointed, Places
  <2>2. x \in S \cup {NULL} /\ S \in SUBSET Cells
    BY <1>7 DEF Places
  <2> HIDE DEF S
  <2>3. Reach(h, x) \subseteq S
    BY <2>1, <2>2, ReachLeast
  <2> QED
    BY <2>3 DEF S
<1>8. c \notin Reach(h, a)
  BY <1>7, CellsAre
<1> QED
  BY <1>1, <1>2, <1>4, <1>5, <1>6, <1>7, <1>8

\* The heap then, field by field.
LEMMA GraftIs ==
  ASSUME NEW h, NEW a, NEW b, NEW c, Appendable(h, a, b, c), NEW j, j = Graft(h, a, b, c)
  PROVE  /\ j \in Heaps
         /\ j[c].data = <<>> /\ j[c].orig = b /\ j[c].next = NULL /\ j[c].refcnt = 1
         /\ \A d \in Cells : d # c =>
             /\ j[d].data = h[d].data /\ j[d].orig = h[d].orig
             /\ j[d].next = (IF d = Last(h, a) THEN c ELSE h[d].next)
             /\ j[d].refcnt = (IF d = b THEN h[d].refcnt + 1 ELSE h[d].refcnt)
<1> DEFINE z == Last(h, a)
           new == [data |-> <<>>, orig |-> b, next |-> NULL, refcnt |-> 1]
           k == Copy(h, c, b)
<1>1. z \in Cells /\ z # b /\ z # c
  BY AppendApart
<1>2. h \in [Cells -> Buffers] /\ b \in Cells /\ c \in Cells /\ b # c
  BY DEF Appendable, Heaps
<1>3. [Blank EXCEPT !.orig = b, !.refcnt = 1] = new
  BY Made
<1>4. k = [h EXCEPT ![c] = new, ![b].refcnt = @ + 1]
  BY <1>3 DEF Copy
<1>5. j = [k EXCEPT ![z].next = c]
  BY DEF Graft
<1>6. new \in Buffers
  BY <1>2 DEF Buffers
<1> HIDE DEF z, k, new
<1>7. k = [d \in Cells |-> IF d = c THEN new ELSE IF d = b THEN [h[d] EXCEPT !.refcnt = @ + 1]
                           ELSE h[d]]
  BY <1>2, <1>4
<1>8. j = [d \in Cells |-> IF d = z THEN [k[d] EXCEPT !.next = c] ELSE k[d]]
  BY <1>1, <1>5, <1>7
<1>9. j[c] = new
  BY <1>1, <1>2, <1>7, <1>8
<1>10. ASSUME NEW d \in Cells, d # c
       PROVE  /\ j[d] \in Buffers
              /\ j[d].data = h[d].data /\ j[d].orig = h[d].orig
              /\ j[d].next = (IF d = z THEN c ELSE h[d].next)
              /\ j[d].refcnt = (IF d = b THEN h[d].refcnt + 1 ELSE h[d].refcnt)
  <2>0. h[d] \in Buffers
    BY <1>2
  <2>1. CASE d = z
    <3>1. j[d] = [h[d] EXCEPT !.next = c]
      BY <1>1, <1>7, <1>8, <1>10, <2>1
    <3> QED
      BY <1>1, <1>2, <2>0, <2>1, <3>1 DEF Buffers
  <2>2. CASE d = b
    <3>1. j[d] = [h[d] EXCEPT !.refcnt = @ + 1]
      BY <1>1, <1>7, <1>8, <1>10, <2>2
    <3> QED
      BY <1>1, <1>2, <2>0, <2>2, <3>1 DEF Buffers
  <2>3. CASE d # z /\ d # b
    <3>1. j[d] = h[d]
      BY <1>7, <1>8, <1>10, <2>3
    <3> QED
      BY <2>0, <2>3, <3>1 DEF Buffers
  <2> QED
    BY <2>1, <2>2, <2>3
<1>11. j \in Heaps
  <2>1. \A d \in Cells : j[d] \in Buffers
    BY <1>6, <1>9, <1>10
  <2>2. j = [d \in Cells |-> j[d]]
    BY <1>8
  <2> QED
    BY <2>1, <2>2 DEF Heaps
<1> QED
  BY <1>9, <1>10, <1>11 DEF z, new

\* No buffer contains itself then: c goes above b and below what reaches the end
\* of the chain of a.
LEMMA GraftAcyclic ==
  ASSUME NEW h, NEW a, NEW b, NEW c, Appendable(h, a, b, c), NEW j, j = Graft(h, a, b, c)
  PROVE  Acyclic(j)
<1> DEFINE z == Last(h, a)
<1>0. h \in Heaps /\ Acyclic(h) /\ b \in Cells /\ c \in Cells /\ Unpointed(h, c)
  BY DEF Appendable
<1>1. PICK N \in Nat : \E r \in [Places -> 0..N] : Falls(h, r)
  BY <1>0 DEF Acyclic
<1>2. PICK r \in [Places -> 0..N] : Falls(h, r)
  BY <1>1
<1>3. z \in Cells /\ z # c /\ z \notin Reach(h, b) /\ b # c
  BY AppendApart DEF Appendable
<1>4. Reach(h, NULL) = {}
  BY <1>0, ReachIs
<1>5. \A d \in Cells : j[d].orig \in Places /\ j[d].next \in Places
  BY GraftIs, CellType
<1>6. /\ j[c].orig = b /\ j[c].next = NULL
      /\ \A d \in Cells : d # c =>
          j[d].orig = h[d].orig /\ j[d].next = (IF d = z THEN c ELSE h[d].next)
  BY GraftIs
<1> HIDE DEF z
<1> DEFINE q == [x \in Places |-> IF x = c THEN N + 1
                                  ELSE IF z \in Reach(h, x) THEN r[x] + N + 2 ELSE r[x]]
<1>7. \A x \in Places : r[x] \in 0..N
  BY <1>2
<1>8. q \in [Places -> 0..(2 * N + 2)]
  <2> SUFFICES ASSUME NEW x \in Places PROVE q[x] \in 0..(2 * N + 2)
    OBVIOUS
  <2> QED
    BY <1>7
<1>9. q[NULL] = 0
  BY <1>0, <1>2, <1>4, CellsAre DEF Falls
<1>10. ASSUME NEW d \in Cells PROVE q[j[d].orig] < q[d] /\ q[j[d].next] < q[d]
  <2>0. d \in Places /\ c \in Places /\ b \in Places
    BY <1>0, CellsAre
  <2>1. CASE d = c
    <3>1. q[d] = N + 1
      BY <2>0, <2>1
    <3>2. q[b] = r[b] /\ r[b] <= N /\ r[b] \in Nat
      BY <1>3, <1>7, <2>0
    <3> QED
      BY <1>6, <1>9, <2>1, <3>1, <3>2
  <2>2. CASE d # c
    <3> DEFINE o == h[d].orig
               n == h[d].next
    <3>1. o \in Places /\ n \in Places /\ o # c /\ n # c
      BY <1>0, CellType DEF Unpointed
    <3>2. r[o] < r[d] /\ r[n] < r[d] /\ r[o] \in 0..N /\ r[n] \in 0..N /\ r[d] \in 0..N
      BY <1>2, <1>7, <2>0, <3>1 DEF Falls
    <3>3. Reach(h, d) = {d} \cup Reach(h, o) \cup Reach(h, n)
      BY <1>0, ReachIs
    <3>4. j[d].orig = o /\ j[d].next = IF d = z THEN c ELSE n
      BY <1>6, <2>2
    <3> HIDE DEF o, n
    <3>5. CASE z \in Reach(h, d)
      <4>1. q[d] = r[d] + N + 2
        BY <2>0, <2>2, <3>5
      <4>2. q[o] <= r[o] + N + 2 /\ q[n] <= r[n] + N + 2 /\ q[c] = N + 1 /\ q[o] \in Nat /\ q[n] \in Nat
        BY <2>0, <3>1, <3>2
      <4> QED
        BY <3>2, <3>4, <4>1, <4>2
    <3>6. CASE z \notin Reach(h, d)
      <4>1. d # z /\ z \notin Reach(h, o) /\ z \notin Reach(h, n)
        BY <3>3, <3>6
      <4>2. q[d] = r[d] /\ q[o] = r[o] /\ q[n] = r[n]
        BY <2>0, <2>2, <3>1, <3>6, <4>1
      <4> QED
        BY <3>2, <3>4, <4>1, <4>2
    <3> QED
      BY <3>5, <3>6
  <2> QED
    BY <2>1, <2>2
<1>11. Falls(j, q)
  BY <1>9, <1>10 DEF Falls
<1> HIDE DEF q
<1> QED
  BY <1>8, <1>11 DEF Acyclic

\* The chains stay apart, and what was first in a chain stays so.
LEMMA GraftLinked ==
  ASSUME NEW h, NEW a, NEW b, NEW c, Appendable(h, a, b, c), NEW j, j = Graft(h, a, b, c)
  PROVE  /\ Linked(j)
         /\ \A x \in Cells : x # c /\ First(h, x) => First(j, x)
<1> DEFINE z == Last(h, a)
<1>0. h \in Heaps /\ Linked(h) /\ First(h, b) /\ b \in Cells /\ c \in Cells /\ Unpointed(h, c)
  BY DEF Appendable
<1>3. z \in Cells /\ z # c /\ b # c /\ c # NULL
  BY AppendApart, CellsAre DEF Appendable
<1>6. /\ j[c].orig = b /\ j[c].next = NULL
      /\ \A d \in Cells : d # c =>
          j[d].orig = h[d].orig /\ j[d].next = (IF d = z THEN c ELSE h[d].next)
  BY GraftIs
<1> HIDE DEF z
<1>7. ASSUME NEW d \in Cells, j[d].next # NULL, NEW e \in Cells
      PROVE  j[e].orig # j[d].next /\ (j[e].next = j[d].next => e = d)
  <2>1. CASE d = z
    BY <1>0, <1>3, <1>6, <1>7, <2>1 DEF Unpointed
  <2>2. CASE d # z
    <3>1. d # c /\ j[d].next = h[d].next /\ h[d].next # NULL /\ h[d].next # c
      BY <1>0, <1>6, <1>7, <2>2 DEF Unpointed
    <3>2. h[e].orig # h[d].next /\ (h[e].next = h[d].next => e = d)
      BY <1>0, <3>1 DEF Linked
    <3>3. h[d].next # b
      BY <1>0 DEF First
    <3> QED
      BY <1>6, <1>7, <3>1, <3>2, <3>3
  <2> QED
    BY <2>1, <2>2
<1>8. ASSUME NEW x \in Cells, x # c, First(h, x) PROVE First(j, x)
  BY <1>6, <1>8, CellsAre DEF First
<1> QED
  BY <1>7, <1>8 DEF Linked

\* What contains a's chain not at all stays as it was.
LEMMA GraftSame ==
  ASSUME NEW h, NEW a, NEW b, NEW c, Appendable(h, a, b, c), NEW j, j = Graft(h, a, b, c),
         NEW x \in Places, x # c, x # NULL => First(h, x), a \notin Reach(h, x)
  PROVE  /\ Reach(j, x) = Reach(h, x)
         /\ Content(j, x) = Content(h, x)
         /\ c \notin Reach(h, x)
<1>1. h \in Heaps /\ Acyclic(h) /\ Linked(h) /\ a \in Cells /\ First(h, a)
  BY DEF Appendable
<1>2. j \in Heaps /\ Acyclic(j)
  BY GraftIs, GraftAcyclic
<1>3. c \notin Reach(h, x) /\ Reach(h, x) \subseteq Cells
  BY <1>1, AppendApart, ReachClosed
<1>4. Last(h, a) \notin Reach(h, x)
  BY <1>1, AppendApart, Entry
<1>5. \A d \in Reach(h, x) : SamePointers(j, h, d) /\ j[d].data = h[d].data
  BY <1>3, <1>4, GraftIs DEF SamePointers
<1> QED
  BY <1>1, <1>2, <1>3, <1>5, ReachSame, ContentSame

\* Concatenation of sequences.
LEMMA Concat ==
  ASSUME NEW S, NEW s \in Seq(S), NEW t \in Seq(S), NEW u \in Seq(S)
  PROVE  /\ s \o <<>> = s /\ <<>> \o s = s
         /\ (s \o t) \o u = s \o (t \o u)
         /\ s \o t \in Seq(S)
  OBVIOUS

\* The content of a is then that of both.
LEMMA GraftContent ==
  ASSUME NEW h, NEW a, NEW b, NEW c, Appendable(h, a, b, c), NEW j, j = Graft(h, a, b, c)
  PROVE  Content(j, a) = Content(h, a) \o Content(h, b)
<1> DEFINE z == Last(h, a)
           C == Chain(h, a)
<1>1. /\ h \in Heaps /\ Acyclic(h) /\ Linked(h) /\ a \in Cells /\ First(h, a)
      /\ b \in Cells /\ First(h, b) /\ a \notin Reach(h, b) /\ b # c /\ c \in Cells
      /\ Unpointed(h, c)
  BY DEF Appendable
<1>2. j \in Heaps /\ Acyclic(j)
  BY GraftIs, GraftAcyclic
<1>3. ChainSound(h, a, C) /\ C \subseteq Cells /\ z \in C /\ h[z].next = NULL /\ z # c
  BY AppendApart
<1>4. \A x \in Places : Content(h, x) \in Seq(Units) /\ Content(j, x) \in Seq(Units)
  BY <1>1, <1>2, ContentType
<1>5. b \in Places /\ NULL \in Places /\ a \in Places
  BY <1>1, CellsAre
<1>6. Content(j, b) = Content(h, b)
  BY <1>1, <1>5, GraftSame
<1>7. /\ j[c].orig = b /\ j[c].next = NULL
      /\ \A d \in Cells : d # c =>
          /\ j[d].orig = h[d].orig /\ j[d].next = (IF d = z THEN c ELSE h[d].next)
          /\ j[d].data = h[d].data
  BY GraftIs
<1>8. Content(j, NULL) = <<>> /\ Content(h, NULL) = <<>>
  BY <1>1, <1>2, ContentIs
<1>9. Content(j, c) = Content(h, b)
  <2>0. Content(j, c) = (IF j[c].orig # NULL THEN Content(j, j[c].orig) ELSE j[c].data)
                        \o Content(j, j[c].next)
    BY <1>1, <1>2, ContentIs
  <2>1. Content(j, c) = Content(j, b) \o Content(j, NULL)
    BY <1>1, <1>7, <2>0, CellsAre
  <2> QED
    BY <1>4, <1>5, <1>6, <1>8, <2>1, Concat
<1> DEFINE T == {d \in Places : d \in C => Content(j, d) = Content(h, d) \o Content(h, b)}
<1>10. NULL \in T
  BY <1>3, CellsAre
<1>11. ASSUME NEW d \in Cells, h[d].next \in T PROVE d \in T
  <2> SUFFICES ASSUME d \in C PROVE Content(j, d) = Content(h, d) \o Content(h, b)
    BY CellsAre
  <2> DEFINE o == h[d].orig
             n == h[d].next
             X == IF o # NULL THEN Content(h, o) ELSE h[d].data
  <2>1. o \in Places /\ n \in Places /\ h[d].data \in Seq(Units)
    BY <1>1, CellType
  <2>2. d \in Reach(h, a) /\ d # c
    <3>1. d \in Reach(h, a)
      BY <1>3 DEF ChainSound
    <3>2. c \notin Reach(h, a)
      BY <1>5, AppendApart DEF Appendable
    <3> QED
      BY <3>1, <3>2
  <2>3. o # NULL => Content(j, o) = Content(h, o)
    <3> SUFFICES ASSUME o # NULL PROVE Content(j, o) = Content(h, o)
      OBVIOUS
    <3>1. First(h, o)
      BY <1>1 DEF Linked, First
    <3>2. a \notin Reach(h, o)
      <4>1. SUFFICES ASSUME a \in Reach(h, o) PROVE FALSE
        OBVIOUS
      <4>2. Reach(h, a) \subseteq Reach(h, o)
        BY <1>1, <2>1, <4>1, ReachTransitive
      <4> QED
        BY <1>1, <2>2, <4>2, ReachBelow
    <3>3. o # c
      BY <1>1 DEF Unpointed
    <3> QED
      BY <2>1, <3>1, <3>2, <3>3, GraftSame
  <2>4. j[d].orig = o /\ j[d].data = h[d].data /\ j[d].next = IF d = z THEN c ELSE n
    BY <1>7, <2>2
  <2>5. Content(j, d) = X \o Content(j, j[d].next)
    BY <1>2, <2>3, <2>4, ContentIs
  <2>6. Content(h, d) = X \o Content(h, n)
    BY <1>1, ContentIs
  <2>7. X \in Seq(Units) /\ Content(h, n) \in Seq(Units) /\ Content(h, b) \in Seq(Units)
    BY <1>4, <1>5, <2>1
  <2>8. CASE d = z
    <3>1. Content(h, d) = X
      BY <1>3, <1>8, <2>6, <2>7, <2>8, Concat
    <3> QED
      BY <1>9, <2>4, <2>5, <2>8, <3>1
  <2>9. CASE d # z
    <3>1. n \in C
      BY <1>3, <2>9 DEF ChainSound
    <3>2. Content(j, n) = Content(h, n) \o Content(h, b)
      BY <1>11, <3>1
    <3> HIDE DEF X, n, o
    <3>3. Content(j, d) = X \o (Content(h, n) \o Content(h, b))
      BY <2>4, <2>5, <2>9, <3>2
    <3> QED
      BY <2>6, <2>7, <3>3, Concat
  <2> QED
    BY <2>8, <2>9
<1> HIDE DEF T
<1>12. \A d \in Places : d \in T
  BY <1>1, <1>10, <1>11, HeapInduction
<1>13. a \in C
  BY <1>3 DEF ChainSound
<1> QED
  BY <1>5, <1>12, <1>13 DEF T
-----------------------------------------------------------------------------
(***************************************************************************)
(* What the calls on buffers keep.  R are the buffers that the application *)
(* or a transaction points to, and E counts the pointers to a buffer that  *)
(* are not in the heap.                                                    *)
(***************************************************************************)

\* No buffer contains itself, chains are apart and begin with the buffers of R,
\* and a freed buffer is empty.
Good(h, R) ==
    /\ h \in Heaps /\ Acyclic(h) /\ Linked(h)
    /\ R \subseteq Cells /\ \A x \in R : First(h, x)
    /\ \A d \in Cells : h[d].refcnt = 0 => h[d] = Blank

\* c can be allocated.
Available(h, R, c) == c \in Cells /\ c \notin R /\ ~Live(h, c) /\ Unpointed(h, c)

\* The pointers of the heap to x, by kind.
Origs(h, x) == Cardinality({d \in Cells : h[d].orig = x})
Nexts(h, x) == Cardinality({d \in Cells : h[d].next = x})

\* Every count is the number of pointers.
Counted(h, E) == \A x \in Cells : h[x].refcnt = E[x] + Origs(h, x) + Nexts(h, x)

\* If x can be used afterwards, it could be before, and has the same content.
Keeps(h, j, x) == Safe(j, x) => Safe(h, x) /\ Content(j, x) = Content(h, x)

\* One element more.
LEMMA OneMore ==
  ASSUME NEW S, IsFiniteSet(S), NEW x, x \notin S
  PROVE  Cardinality(S \cup {x}) = Cardinality(S) + 1
  BY FS_AddElement

\* The number of cells at which f is x, and how it differs from that of a function g
\* that is different at c only.
CountOf(f, x) == Cardinality({d \in Cells : f[d] = x})

Moves(f, g, c, x) ==
    /\ CountOf(f, x) \in Nat /\ CountOf(g, x) \in Nat
    /\ CountOf(g, x) + (IF f[c] = x THEN 1 ELSE 0) = CountOf(f, x) + (IF g[c] = x THEN 1 ELSE 0)

\* When a function on the cells changes at one of them, the number of cells with
\* a value changes by one at most.
LEMMA CountChange ==
  ASSUME NEW f, NEW g, NEW c \in Cells, \A d \in Cells : d # c => f[d] = g[d], NEW x
  PROVE  Moves(f, g, c, x)
<1> DEFINE A == {d \in Cells : f[d] = x}
           B == {d \in Cells : g[d] = x}
           K == {d \in Cells : d # c /\ f[d] = x}
<1>1. IsFiniteSet(A) /\ IsFiniteSet(B) /\ IsFiniteSet(K)
  BY CellsAre, FS_Subset, Zenon
<1>2. Cardinality(A) \in Nat /\ Cardinality(B) \in Nat /\ Cardinality(K) \in Nat
  BY <1>1, FS_CardinalityType
<1>3. Cardinality(K \cup {c}) = Cardinality(K) + 1
  BY <1>1, OneMore
<1>4. A = IF f[c] = x THEN K \cup {c} ELSE K
  OBVIOUS
<1>5. B = IF g[c] = x THEN K \cup {c} ELSE K
  OBVIOUS
<1> HIDE DEF A, B, K
<1>6. Cardinality(B) + (IF f[c] = x THEN 1 ELSE 0) = Cardinality(A) + (IF g[c] = x THEN 1 ELSE 0)
  BY <1>2, <1>3, <1>4, <1>5
<1> QED
  BY <1>2, <1>6 DEF A, B, CountOf, Moves

\* The same for the pointers of a heap.
OrigsMove(h, g, c, x) ==
    /\ Origs(g, x) \in Nat /\ Origs(h, x) \in Nat
    /\ Origs(g, x) + (IF h[c].orig = x THEN 1 ELSE 0) = Origs(h, x) + (IF g[c].orig = x THEN 1 ELSE 0)

NextsMove(h, g, c, x) ==
    /\ Nexts(g, x) \in Nat /\ Nexts(h, x) \in Nat
    /\ Nexts(g, x) + (IF h[c].next = x THEN 1 ELSE 0) = Nexts(h, x) + (IF g[c].next = x THEN 1 ELSE 0)

\* A change of one buffer changes the number of copies of x by that buffer.
LEMMA OrigsChange ==
  ASSUME NEW h, NEW g, NEW c \in Cells, \A d \in Cells : d # c => g[d].orig = h[d].orig, NEW x
  PROVE  OrigsMove(h, g, c, x)
<1> DEFINE f == [d \in Cells |-> h[d].orig]
           k == [d \in Cells |-> g[d].orig]
<1>1. \A d \in Cells : d # c => f[d] = k[d]
  OBVIOUS
<1>2. Origs(h, x) = CountOf(f, x)
  <2>1. {d \in Cells : f[d] = x} = {d \in Cells : h[d].orig = x}
    OBVIOUS
  <2> QED
    BY <2>1 DEF Origs, CountOf
<1>3. Origs(g, x) = CountOf(k, x)
  <2>1. {d \in Cells : k[d] = x} = {d \in Cells : g[d].orig = x}
    OBVIOUS
  <2> QED
    BY <2>1 DEF Origs, CountOf
<1>4. f[c] = h[c].orig /\ k[c] = g[c].orig
  OBVIOUS
<1> HIDE DEF f, k
<1>5. Moves(f, k, c, x)
  BY <1>1, CountChange
<1> QED
  BY <1>2, <1>3, <1>4, <1>5 DEF Moves, OrigsMove

\* And the number of buffers before x.
LEMMA NextsChange ==
  ASSUME NEW h, NEW g, NEW c \in Cells, \A d \in Cells : d # c => g[d].next = h[d].next, NEW x
  PROVE  NextsMove(h, g, c, x)
<1> DEFINE f == [d \in Cells |-> h[d].next]
           k == [d \in Cells |-> g[d].next]
<1>1. \A d \in Cells : d # c => f[d] = k[d]
  OBVIOUS
<1>2. Nexts(h, x) = CountOf(f, x)
  <2>1. {d \in Cells : f[d] = x} = {d \in Cells : h[d].next = x}
    OBVIOUS
  <2> QED
    BY <2>1 DEF Nexts, CountOf
<1>3. Nexts(g, x) = CountOf(k, x)
  <2>1. {d \in Cells : k[d] = x} = {d \in Cells : g[d].next = x}
    OBVIOUS
  <2> QED
    BY <2>1 DEF Nexts, CountOf
<1>4. f[c] = h[c].next /\ k[c] = g[c].next
  OBVIOUS
<1> HIDE DEF f, k
<1>5. Moves(f, k, c, x)
  BY <1>1, CountChange
<1> QED
  BY <1>2, <1>3, <1>4, <1>5 DEF Moves, NextsMove

\* There are as many as there are pointers: none, or a natural number.
LEMMA PointerCounts ==
  ASSUME NEW h, NEW x
  PROVE  /\ Origs(h, x) \in Nat /\ Nexts(h, x) \in Nat
         /\ (\E d \in Cells : h[d].orig = x) => Origs(h, x) >= 1
         /\ (\E d \in Cells : h[d].next = x) => Nexts(h, x) >= 1
         /\ (\A d \in Cells : h[d].orig # x) => Origs(h, x) = 0
         /\ (\A d \in Cells : h[d].next # x) => Nexts(h, x) = 0
<1> DEFINE A == {d \in Cells : h[d].orig = x}
           B == {d \in Cells : h[d].next = x}
<1>1. IsFiniteSet(A) /\ IsFiniteSet(B)
  BY CellsAre, FS_Subset, Zenon
<1>2. Cardinality(A) \in Nat /\ Cardinality(B) \in Nat
  BY <1>1, FS_CardinalityType
<1>3. (Cardinality(A) = 0 <=> A = {}) /\ (Cardinality(B) = 0 <=> B = {})
  BY <1>1, FS_EmptySet
<1>4. Origs(h, x) = Cardinality(A) /\ Nexts(h, x) = Cardinality(B)
  BY DEF Origs, Nexts
<1>5. ((\E d \in Cells : h[d].orig = x) <=> A # {}) /\ ((\E d \in Cells : h[d].next = x) <=> B # {})
  OBVIOUS
<1>6. ((\A d \in Cells : h[d].orig # x) <=> A = {}) /\ ((\A d \in Cells : h[d].next # x) <=> B = {})
  OBVIOUS
<1> HIDE DEF A, B
<1> QED
  BY <1>2, <1>3, <1>4, <1>5, <1>6

\* A heap in which nothing but counts is different.
LEMMA SameBuffers ==
  ASSUME NEW h, NEW R, Good(h, R), NEW j \in Heaps,
         \A d \in Cells : /\ SamePointers(j, h, d) /\ j[d].data = h[d].data
                          /\ j[d].refcnt = 0 <=> h[d].refcnt = 0
  PROVE  /\ Good(j, R)
         /\ \A x \in Places : Keeps(h, j, x) /\ Reach(j, x) = Reach(h, x)
         /\ \A x : Origs(j, x) = Origs(h, x) /\ Nexts(j, x) = Nexts(h, x)
<1>1. h \in Heaps /\ Acyclic(h) /\ Linked(h)
  BY DEF Good
<1>2. Acyclic(j)
  BY <1>1, FewerPointers DEF Fewer, SamePointers
<1>3. Linked(j) /\ \A x \in R : First(j, x)
  <2>1. \A d \in Cells : j[d].orig = h[d].orig /\ j[d].next = h[d].next
    BY DEF SamePointers
  <2> QED
    BY <1>1, <2>1 DEF Good, Linked, First
<1>4. ASSUME NEW d \in Cells, j[d].refcnt = 0 PROVE j[d] = Blank
  <2>1. h[d] = Blank /\ h[d].refcnt = 0
    BY <1>4 DEF Good
  <2>2. j[d].data = h[d].data /\ j[d].orig = h[d].orig /\ j[d].next = h[d].next /\ j[d].refcnt = h[d].refcnt
    BY <1>4, <2>1 DEF SamePointers
  <2>3. j[d] \in Buffers /\ h[d] \in Buffers
    BY <1>1, CellType
  <2>4. j[d] = h[d]
    BY <2>2, <2>3 DEF Buffers
  <2> QED
    BY <2>1, <2>4
<1>5. ASSUME NEW x \in Places PROVE Keeps(h, j, x) /\ Reach(j, x) = Reach(h, x)
  <2>1. Reach(h, x) \subseteq Cells
    BY <1>1, ReachClosed
  <2>2. Reach(j, x) = Reach(h, x)
    BY <1>1, <1>2, <2>1, ReachSame
  <2>3. Content(j, x) = Content(h, x)
    BY <1>1, <1>2, <2>1, ContentSame
  <2>4. \A d \in Reach(h, x) : Live(j, d) => Live(h, d)
    BY <1>1, <2>1, CellType DEF Live
  <2> QED
    BY <2>2, <2>3, <2>4 DEF Keeps, Safe
<1>6. ASSUME NEW x PROVE Origs(j, x) = Origs(h, x) /\ Nexts(j, x) = Nexts(h, x)
  <2>1. {d \in Cells : j[d].orig = x} = {d \in Cells : h[d].orig = x}
    BY DEF SamePointers
  <2>2. {d \in Cells : j[d].next = x} = {d \in Cells : h[d].next = x}
    BY DEF SamePointers
  <2> QED
    BY <2>1, <2>2 DEF Origs, Nexts
<1>7. Good(j, R)
  BY <1>2, <1>3, <1>4 DEF Good
<1> QED
  BY <1>5, <1>6, <1>7

\* What logdb_buffer_retain keeps.
RetainSound(h, R, c, j) ==
    /\ Good(j, R)
    /\ \A x \in Places : Keeps(h, j, x) /\ Reach(j, x) = Reach(h, x)
    /\ \A d \in Cells : j[d].refcnt = IF d = c THEN h[d].refcnt + 1 ELSE h[d].refcnt
    /\ \A d \in Cells : SamePointers(j, h, d)
    /\ \A E \in [Cells -> Nat] : Counted(h, E) => Counted(j, [E EXCEPT ![c] = @ + 1])

\* logdb_buffer_retain.
LEMMA RetainGood ==
  ASSUME NEW h, NEW R, Good(h, R), NEW c \in Cells, Live(h, c),
         NEW j, j = [h EXCEPT ![c].refcnt = @ + 1]
  PROVE  RetainSound(h, R, c, j)
<1>1. h \in Heaps
  BY DEF Good
<1>2. ASSUME NEW d \in Cells
      PROVE  /\ j[d] \in Buffers /\ SamePointers(j, h, d) /\ j[d].data = h[d].data
             /\ j[d].refcnt = IF d = c THEN h[d].refcnt + 1 ELSE h[d].refcnt
  <2>1. h[d] \in Buffers /\ h[d].refcnt \in Nat
    BY <1>1, CellType
  <2>2. CASE d = c
    <3>1. j[d] = [h[d] EXCEPT !.refcnt = @ + 1]
      BY <1>1, <2>2 DEF Heaps
    <3> QED
      BY <2>1, <2>2, <3>1 DEF Buffers, SamePointers
  <2>3. CASE d # c
    <3>1. j[d] = h[d]
      BY <1>1, <2>3 DEF Heaps
    <3> QED
      BY <2>1, <2>3, <3>1 DEF SamePointers
  <2> QED
    BY <2>2, <2>3
<1>3. j \in Heaps
  BY <1>1, <1>2 DEF Heaps
<1>4. \A d \in Cells : j[d].refcnt = 0 <=> h[d].refcnt = 0
  BY <1>1, <1>2, CellType DEF Live
<1>5. /\ Good(j, R)
      /\ \A x \in Places : Keeps(h, j, x) /\ Reach(j, x) = Reach(h, x)
      /\ \A x : Origs(j, x) = Origs(h, x) /\ Nexts(j, x) = Nexts(h, x)
  BY <1>2, <1>3, <1>4, SameBuffers
<1>6. ASSUME NEW E \in [Cells -> Nat], Counted(h, E) PROVE Counted(j, [E EXCEPT ![c] = @ + 1])
  <2> SUFFICES ASSUME NEW x \in Cells
               PROVE  j[x].refcnt = [E EXCEPT ![c] = @ + 1][x] + Origs(j, x) + Nexts(j, x)
    BY DEF Counted
  <2>1. h[x].refcnt = E[x] + Origs(h, x) + Nexts(h, x)
    BY <1>6 DEF Counted
  <2>2. Origs(h, x) \in Nat /\ Nexts(h, x) \in Nat /\ E[x] \in Nat
    BY PointerCounts
  <2>3. [E EXCEPT ![c] = @ + 1][x] = IF x = c THEN E[x] + 1 ELSE E[x]
    OBVIOUS
  <2>4. Origs(j, x) = Origs(h, x) /\ Nexts(j, x) = Nexts(h, x)
    BY <1>5
  <2>5. j[x].refcnt = IF x = c THEN h[x].refcnt + 1 ELSE h[x].refcnt
    BY <1>2
  <2> QED
    BY <2>1, <2>2, <2>3, <2>4, <2>5
<1> QED
  BY <1>2, <1>5, <1>6 DEF RetainSound

\* A buffer that can be allocated is empty, and no other one contains it.
LEMMA AvailableIs ==
  ASSUME NEW h, NEW R, Good(h, R), NEW c, Available(h, R, c)
  PROVE  /\ h[c] = Blank /\ h[c].refcnt = 0 /\ h[c].orig = NULL /\ h[c].next = NULL
         /\ \A x \in Places : x # c => c \notin Reach(h, x)
<1>1. h \in Heaps /\ Acyclic(h) /\ c \in Cells /\ Unpointed(h, c) /\ ~Live(h, c)
  BY DEF Good, Available
<1>2. h[c].refcnt = 0
  BY <1>1, CellType DEF Live
<1>3. h[c] = Blank
  BY <1>1, <1>2 DEF Good
<1>4. ASSUME NEW x \in Places, x # c PROVE c \notin Reach(h, x)
  <2> DEFINE S == Cells \ {c}
  <2>1. Closure(h, S)
    BY <1>1, CellType DEF Closure, Unpointed, Places
  <2>2. x \in S \cup {NULL} /\ S \in SUBSET Cells
    BY <1>4 DEF Places
  <2> HIDE DEF S
  <2>3. Reach(h, x) \subseteq S
    BY <1>1, <2>1, <2>2, ReachLeast
  <2> QED
    BY <2>3 DEF S
<1>5. h[c].orig = NULL /\ h[c].next = NULL
  BY <1>3 DEF Blank
<1> QED
  BY <1>2, <1>3, <1>4, <1>5

\* What logdb_buffer_new_direct keeps.
NewSound(h, R, c, u, j) ==
    /\ Good(j, R \cup {c})
    /\ \A x \in Places : x # c => Keeps(h, j, x) /\ Reach(j, x) = Reach(h, x)
    /\ Content(j, c) = u /\ Reach(j, c) = {c}
    /\ \A x \in Places : x # c => Content(j, x) = Content(h, x)
    /\ \A d \in Cells : j[d].refcnt = IF d = c THEN 1 ELSE h[d].refcnt
    /\ \A d \in Cells : SamePointers(j, h, d)
    /\ \A e : e # c /\ Available(h, R, e) => Available(j, R \cup {c}, e)
    /\ \A E \in [Cells -> Nat] : Counted(h, E) => Counted(j, [E EXCEPT ![c] = @ + 1])

\* logdb_buffer_new_direct.
LEMMA NewGood ==
  ASSUME NEW h, NEW R, Good(h, R), NEW c, Available(h, R, c), NEW u \in Seq(Units),
         NEW j, j = New(h, c, u)
  PROVE  NewSound(h, R, c, u, j)
<1>1. /\ h \in Heaps /\ Acyclic(h) /\ Linked(h) /\ c \in Cells /\ Unpointed(h, c)
      /\ R \subseteq Cells /\ c \notin R
  BY DEF Good, Available
<1> DEFINE new == [data |-> u, orig |-> NULL, next |-> NULL, refcnt |-> 1]
<1>2. j = [h EXCEPT ![c] = new]
  BY Made DEF New
<1>3. new \in Buffers /\ new.orig = NULL /\ new.next = NULL /\ new.refcnt = 1 /\ new.data = u
  BY DEF Buffers
<1> HIDE DEF new
<1>4. j \in Heaps /\ j[c] = new /\ \A d \in Cells : d # c => j[d] = h[d]
  BY <1>1, <1>2, <1>3 DEF Heaps
<1>5. h[c].refcnt = 0 /\ h[c].orig = NULL /\ h[c].next = NULL
  BY AvailableIs
<1>6. \A d \in Cells : j[d].orig = h[d].orig /\ j[d].next = h[d].next
  BY <1>3, <1>4, <1>5
<1>7. Acyclic(j)
  BY <1>1, <1>4, <1>6, FewerPointers DEF Fewer
<1>8. Good(j, R \cup {c})
  <2>1. Linked(j)
    BY <1>1, <1>6 DEF Linked
  <2>2. \A x \in R \cup {c} : First(j, x)
    BY <1>1, <1>6 DEF First, Good, Unpointed
  <2>3. \A d \in Cells : j[d].refcnt = 0 => j[d] = Blank
    BY <1>3, <1>4 DEF Good
  <2> QED
    BY <1>1, <1>4, <1>7, <2>1, <2>2, <2>3 DEF Good
<1>9. ASSUME NEW x \in Places, x # c
      PROVE  Keeps(h, j, x) /\ Reach(j, x) = Reach(h, x) /\ Content(j, x) = Content(h, x)
  <2>1. Reach(h, x) \subseteq Cells /\ c \notin Reach(h, x)
    BY <1>1, <1>9, ReachClosed, AvailableIs
  <2>2. \A d \in Reach(h, x) : SamePointers(j, h, d) /\ j[d].data = h[d].data
    BY <1>4, <2>1 DEF SamePointers
  <2>3. Reach(j, x) = Reach(h, x) /\ Content(j, x) = Content(h, x)
    BY <1>1, <1>4, <1>7, <2>2, ReachSame, ContentSame
  <2>4. \A d \in Reach(h, x) : Live(j, d) => Live(h, d)
    BY <1>4, <2>1 DEF Live
  <2> QED
    BY <2>3, <2>4 DEF Keeps, Safe
<1>10. Content(j, c) = u /\ Reach(j, c) = {c}
  <2>1. Reach(j, c) = {c} \cup Reach(j, NULL) \cup Reach(j, NULL)
    BY <1>1, <1>3, <1>4, <1>7, ReachIs
  <2>2. Reach(j, NULL) = {} /\ Content(j, NULL) = <<>>
    BY <1>4, <1>7, ReachIs, ContentIs
  <2>3. Content(j, c) = (IF j[c].orig # NULL THEN Content(j, j[c].orig) ELSE j[c].data)
                        \o Content(j, j[c].next)
    BY <1>1, <1>4, <1>7, ContentIs
  <2>4. Content(j, c) = u \o <<>>
    BY <1>3, <1>4, <2>2, <2>3
  <2> QED
    BY <2>1, <2>2, <2>4, Concat
<1>11. \A d \in Cells : j[d].refcnt = IF d = c THEN 1 ELSE h[d].refcnt
  BY <1>3, <1>4
<1>12. ASSUME NEW e, e # c, Available(h, R, e) PROVE Available(j, R \cup {c}, e)
  BY <1>4, <1>6, <1>12 DEF Available, Live, Unpointed
<1>13. ASSUME NEW E \in [Cells -> Nat], Counted(h, E) PROVE Counted(j, [E EXCEPT ![c] = @ + 1])
  <2> SUFFICES ASSUME NEW x \in Cells
               PROVE  j[x].refcnt = [E EXCEPT ![c] = @ + 1][x] + Origs(j, x) + Nexts(j, x)
    BY DEF Counted
  <2>1. h[x].refcnt = E[x] + Origs(h, x) + Nexts(h, x)
    BY <1>13 DEF Counted
  <2>2. Origs(h, x) \in Nat /\ Nexts(h, x) \in Nat /\ E[x] \in Nat
    BY PointerCounts
  <2>3. [E EXCEPT ![c] = @ + 1][x] = IF x = c THEN E[x] + 1 ELSE E[x]
    OBVIOUS
  <2>4. {d \in Cells : j[d].orig = x} = {d \in Cells : h[d].orig = x}
    BY <1>6
  <2>5. {d \in Cells : j[d].next = x} = {d \in Cells : h[d].next = x}
    BY <1>6
  <2>6. Origs(j, x) = Origs(h, x) /\ Nexts(j, x) = Nexts(h, x)
    BY <2>4, <2>5 DEF Origs, Nexts
  <2> QED
    BY <1>5, <1>11, <2>1, <2>2, <2>3, <2>6
<1> QED
  BY <1>6, <1>8, <1>9, <1>10, <1>11, <1>12, <1>13 DEF SamePointers, NewSound

\* What logdb_buffer_append keeps.
GraftSound(h, R, a, b, c, j) ==
    /\ Good(j, R)
    /\ \A x \in Places : (x = NULL \/ x \in R) /\ a \notin Reach(h, x) =>
        Keeps(h, j, x) /\ Reach(j, x) = Reach(h, x) /\ Content(j, x) = Content(h, x)
    /\ Content(j, a) = Content(h, a) \o Content(h, b)
    /\ \A d \in Cells : j[d].refcnt = IF d = c THEN 1
                                      ELSE IF d = b THEN h[d].refcnt + 1 ELSE h[d].refcnt
    /\ \A d \in Cells : j[d].next # NULL => j[d].next \in {c, h[d].next}
    /\ \A d \in Cells : d # c => j[d].orig = h[d].orig
    /\ j[c].orig = b
    /\ \A e : e # c /\ Available(h, R, e) => Available(j, R, e)
    /\ \A E \in [Cells -> Nat] : Counted(h, E) => Counted(j, E)

\* logdb_buffer_append, where there is memory for the copy.
LEMMA GraftGood ==
  ASSUME NEW h, NEW R, Good(h, R), NEW a \in R, NEW b \in R, Safe(h, a), Live(h, b),
         a \notin Reach(h, b), NEW c, Available(h, R, c), NEW j, j = Graft(h, a, b, c)
  PROVE  GraftSound(h, R, a, b, c, j)
<1> DEFINE z == Last(h, a)
<1>1. /\ h \in Heaps /\ Acyclic(h) /\ Linked(h) /\ c \in Cells /\ Unpointed(h, c)
      /\ R \subseteq Cells /\ c \notin R /\ a \in Cells /\ b \in Cells /\ c # a /\ c # b
  BY DEF Good, Available
<1>2. Appendable(h, a, b, c)
  BY <1>1 DEF Appendable, Good
<1>3. h[c].refcnt = 0 /\ h[c].orig = NULL /\ h[c].next = NULL /\ h[c] = Blank
  BY AvailableIs
<1>4. /\ j \in Heaps
      /\ j[c].data = <<>> /\ j[c].orig = b /\ j[c].next = NULL /\ j[c].refcnt = 1
      /\ \A d \in Cells : d # c =>
          /\ j[d].data = h[d].data /\ j[d].orig = h[d].orig
          /\ j[d].next = (IF d = z THEN c ELSE h[d].next)
          /\ j[d].refcnt = (IF d = b THEN h[d].refcnt + 1 ELSE h[d].refcnt)
  BY <1>2, GraftIs
<1>5. Acyclic(j) /\ Linked(j) /\ \A x \in Cells : x # c /\ First(h, x) => First(j, x)
  BY <1>2, GraftAcyclic, GraftLinked
<1>6. z \in Cells /\ z # b /\ z # c /\ h[z].next = NULL /\ z \in Reach(h, a)
  BY <1>2, AppendApart DEF ChainSound
<1>7. Live(h, z)
  BY <1>6 DEF Safe
<1> HIDE DEF z
<1>8. Good(j, R)
  <2>1. ASSUME NEW d \in Cells, j[d].refcnt = 0 PROVE j[d] = Blank
    <3>1. d # c /\ d # b /\ d # z /\ h[d].refcnt = 0
      BY <1>1, <1>4, <1>7, <2>1, CellType DEF Live
    <3>2. h[d] = Blank
      BY <3>1 DEF Good
    <3>3. j[d] \in Buffers /\ h[d] \in Buffers
      BY <1>1, <1>4, CellType
    <3>4. j[d].data = h[d].data /\ j[d].orig = h[d].orig /\ j[d].next = h[d].next /\ j[d].refcnt = h[d].refcnt
      BY <1>4, <3>1
    <3> QED
      BY <3>2, <3>3, <3>4 DEF Buffers
  <2>2. \A x \in R : First(j, x)
    BY <1>1, <1>5 DEF Good
  <2> QED
    BY <1>1, <1>4, <1>5, <2>1, <2>2 DEF Good
<1>9. ASSUME NEW x \in Places, x = NULL \/ x \in R, a \notin Reach(h, x)
      PROVE  Keeps(h, j, x) /\ Reach(j, x) = Reach(h, x) /\ Content(j, x) = Content(h, x)
  <2>1. x # c /\ (x # NULL => First(h, x))
    BY <1>1, <1>9, CellsAre DEF Good
  <2>2. Reach(j, x) = Reach(h, x) /\ Content(j, x) = Content(h, x) /\ c \notin Reach(h, x)
    BY <1>2, <1>9, <2>1, GraftSame
  <2>3. Reach(h, x) \subseteq Cells
    BY <1>1, ReachClosed
  <2>4. \A d \in Reach(h, x) : Live(j, d) => Live(h, d)
    BY <1>4, <2>2, <2>3 DEF Live
  <2> QED
    BY <2>2, <2>4 DEF Keeps, Safe
<1>10. Content(j, a) = Content(h, a) \o Content(h, b)
  BY <1>2, GraftContent
<1>11. ASSUME NEW e, e # c, Available(h, R, e) PROVE Available(j, R, e)
  <2>1. e # b
    BY <1>1, <1>11 DEF Available
  <2> QED
    BY <1>4, <1>11, <2>1, CellsAre DEF Available, Live, Unpointed
<1>12. ASSUME NEW E \in [Cells -> Nat], Counted(h, E) PROVE Counted(j, E)
  <2> SUFFICES ASSUME NEW x \in Cells PROVE j[x].refcnt = E[x] + Origs(j, x) + Nexts(j, x)
    BY DEF Counted
  <2>1. h[x].refcnt = E[x] + Origs(h, x) + Nexts(h, x)
    BY <1>12 DEF Counted
  <2>2. Origs(h, x) \in Nat /\ Nexts(h, x) \in Nat /\ E[x] \in Nat
    BY PointerCounts
  <2>3. OrigsMove(h, j, c, x)
    BY <1>1, <1>4, OrigsChange
  <2>4. NextsMove(h, j, z, x)
    <3>1. \A d \in Cells : d # z => j[d].next = h[d].next
      BY <1>3, <1>4
    <3> QED
      BY <1>6, <3>1, NextsChange
  <2>5. Origs(j, x) \in Nat /\ Nexts(j, x) \in Nat /\ x # NULL
    BY PointerCounts, CellsAre
  <2>6. Origs(j, x) = Origs(h, x) + IF x = b THEN 1 ELSE 0
    BY <1>3, <1>4, <2>2, <2>3, <2>5 DEF OrigsMove
  <2>7. Nexts(j, x) = Nexts(h, x) + IF x = c THEN 1 ELSE 0
    BY <1>3, <1>4, <1>6, <2>2, <2>4, <2>5 DEF NextsMove
  <2>8. j[x].refcnt = IF x = c THEN 1 ELSE IF x = b THEN h[x].refcnt + 1 ELSE h[x].refcnt
    BY <1>4
  <2> QED
    BY <1>1, <1>3, <2>1, <2>2, <2>6, <2>7, <2>8
<1>13. \A d \in Cells : j[d].next # NULL => j[d].next \in {c, h[d].next}
  BY <1>4
<1>14. \A d \in Cells : j[d].refcnt = IF d = c THEN 1
                                      ELSE IF d = b THEN h[d].refcnt + 1 ELSE h[d].refcnt
  BY <1>4
<1> QED
  BY <1>4, <1>8, <1>9, <1>10, <1>11, <1>12, <1>13, <1>14 DEF GraftSound

\* A heap with fewer pointers keeps its chains apart.
LEMMA FewerLinked ==
  ASSUME NEW h \in Heaps, Linked(h), NEW g, Fewer(g, h)
  PROVE  /\ Linked(g)
         /\ \A x \in Cells : First(h, x) => First(g, x)
<1>1. \A d \in Cells : (g[d].orig = NULL \/ g[d].orig = h[d].orig)
                       /\ (g[d].next = NULL \/ g[d].next = h[d].next)
  BY DEF Fewer
<1>2. ASSUME NEW d \in Cells, g[d].next # NULL, NEW e \in Cells
      PROVE  g[e].orig # g[d].next /\ (g[e].next = g[d].next => e = d)
  <2>1. g[d].next = h[d].next /\ h[d].next # NULL
    BY <1>1, <1>2
  <2>2. h[e].orig # h[d].next /\ (h[e].next = h[d].next => e = d)
    BY <2>1 DEF Linked
  <2> QED
    BY <1>1, <1>2, <2>1, <2>2
<1> QED
  BY <1>1, <1>2, CellsAre DEF Linked, First

\* The next buffers that are no longer pointed to.
Cut(h, j) == {h[d].next : d \in {e \in Cells : j[e].next # h[e].next}}

\* What logdb_buffer_data keeps.
FlatSound(h, R, j) ==
    /\ Good(j, R)
    /\ \A x \in Places : Keeps(h, j, x)
    /\ \A d \in Cells : /\ j[d].refcnt = h[d].refcnt /\ j[d].orig = h[d].orig
                        /\ j[d].next \in {h[d].next, NULL}
    /\ Cut(h, j) \subseteq Cells
    /\ \A x \in Cells : /\ Nexts(h, x) = Nexts(j, x) + IF x \in Cut(h, j) THEN 1 ELSE 0
                        /\ Origs(h, x) = Origs(j, x)

\* logdb_buffer_data.
LEMMA FlatGood ==
  ASSUME NEW h, NEW R, Good(h, R), NEW c \in Cells, Safe(h, c), NEW j, j = Flat(h, c)
  PROVE  FlatSound(h, R, j)
<1>1. h \in Heaps /\ Acyclic(h) /\ Linked(h) /\ R \subseteq Cells
  BY DEF Good
<1>2. Reach(h, c) \subseteq Cells /\ \A d \in Reach(h, c) : Live(h, d)
  BY <1>1, ReachClosed, CellsAre DEF Safe
<1> DEFINE D == {d \in Cells : d \in Reach(h, c) /\ h[d].orig = NULL /\ h[d].next # NULL}
<1>3. ASSUME NEW d \in Cells
      PROVE  /\ j[d] \in Buffers /\ j[d].refcnt = h[d].refcnt /\ j[d].orig = h[d].orig
             /\ d \in D => j[d].data = Content(h, d) /\ j[d].next = NULL
             /\ d \notin D => j[d] = h[d]
  <2>1. h[d] \in Buffers /\ Content(h, d) \in Seq(Units) /\ NULL \in Places
    BY <1>1, CellType, ContentType, CellsAre
  <2>2. CASE d \in D
    <3>1. j[d] = [h[d] EXCEPT !.data = Content(h, d), !.next = NULL]
      BY <2>2 DEF Flat
    <3> QED
      BY <2>1, <2>2, <3>1 DEF Buffers, Places
  <2>3. CASE d \notin D
    <3>1. j[d] = h[d]
      BY <2>3 DEF Flat
    <3> QED
      BY <2>1, <2>3, <3>1
  <2> QED
    BY <2>2, <2>3
<1>4. j \in Heaps
  <2>1. j = [d \in Cells |-> j[d]]
    BY DEF Flat
  <2> QED
    BY <1>3, <2>1 DEF Heaps
<1>5. \A d \in Cells : j[d].next \in {h[d].next, NULL}
  BY <1>3
<1>6. Fewer(j, h)
  BY <1>3, <1>5 DEF Fewer
<1>7. Acyclic(j) /\ \A x \in Places : Reach(j, x) \subseteq Reach(h, x)
  BY <1>1, <1>4, <1>6, FewerPointers
<1>8. Good(j, R)
  <2>1. Linked(j) /\ \A x \in R : First(j, x)
    BY <1>1, <1>6, FewerLinked DEF Good
  <2>2. ASSUME NEW d \in Cells, j[d].refcnt = 0 PROVE j[d] = Blank
    <3>1. h[d] = Blank
      BY <1>3, <2>2 DEF Good
    <3>2. d \notin D
      BY <3>1 DEF Blank
    <3> QED
      BY <1>3, <3>1, <3>2
  <2> QED
    BY <1>1, <1>4, <1>7, <2>1, <2>2 DEF Good
<1> DEFINE T == {x \in Places : Content(j, x) = Content(h, x) /\ (Safe(j, x) => Safe(h, x))}
<1>9. NULL \in T
  <2>1. Reach(h, NULL) = {} /\ Content(h, NULL) = <<>> /\ Content(j, NULL) = <<>>
    BY <1>1, <1>4, <1>7, ReachIs, ContentIs
  <2> QED
    BY <2>1, CellsAre DEF Safe
<1>10. ASSUME NEW d \in Cells, h[d].orig \in T, h[d].next \in T PROVE d \in T
  <2> DEFINE o == h[d].orig
             n == h[d].next
  <2>1. /\ Content(h, d) = (IF o # NULL THEN Content(h, o) ELSE h[d].data) \o Content(h, n)
        /\ Content(j, d) = (IF j[d].orig # NULL THEN Content(j, j[d].orig) ELSE j[d].data)
                           \o Content(j, j[d].next)
    BY <1>1, <1>4, <1>7, ContentIs
  <2>2. /\ Reach(h, d) = {d} \cup Reach(h, o) \cup Reach(h, n)
        /\ Reach(j, d) = {d} \cup Reach(j, j[d].orig) \cup Reach(j, j[d].next)
    BY <1>1, <1>4, <1>7, ReachIs
  <2>3. CASE d \in D
    <3>1. Content(j, NULL) = <<>>
      BY <1>4, <1>7, ContentIs
    <3>2. Content(j, d) = Content(h, d) \o <<>>
      BY <1>3, <2>1, <2>3, <3>1
    <3>3. Content(h, d) \in Seq(Units)
      BY <1>1, ContentType, CellsAre
    <3>4. Content(j, d) = Content(h, d)
      BY <3>2, <3>3, Concat
    <3>5. Reach(h, d) \subseteq Reach(h, c)
      BY <1>1, <2>3, ReachTransitive, CellsAre
    <3>6. Safe(h, d)
      BY <1>2, <3>5 DEF Safe
    <3> QED
      BY <3>4, <3>6, CellsAre
  <2>4. CASE d \notin D
    <3>1. j[d] = h[d]
      BY <1>3, <2>4
    <3>2. Content(j, d) = Content(h, d)
      BY <1>10, <2>1, <3>1
    <3>3. ASSUME Safe(j, d) PROVE Safe(h, d)
      <4>1. Safe(j, o) /\ Safe(j, n) /\ Live(j, d)
        BY <2>2, <3>1, <3>3 DEF Safe
      <4>2. Safe(h, o) /\ Safe(h, n) /\ Live(h, d)
        BY <1>10, <3>1, <4>1 DEF Live
      <4> QED
        BY <2>2, <4>2 DEF Safe
    <3> QED
      BY <3>2, <3>3, CellsAre
  <2> QED
    BY <2>3, <2>4
<1>11. \A x \in Places : x \in T
  <2> HIDE DEF T
  <2> QED
    BY <1>1, <1>9, <1>10, HeapInduction
<1>12. Cut(h, j) = {h[d].next : d \in D}
  <2>1. {e \in Cells : j[e].next # h[e].next} = D
    BY <1>3
  <2> QED
    BY <2>1 DEF Cut
<1>13. Cut(h, j) \subseteq Cells
  BY <1>1, <1>12, CellType DEF Places
<1>14. ASSUME NEW x \in Cells
       PROVE  /\ Nexts(h, x) = Nexts(j, x) + IF x \in Cut(h, j) THEN 1 ELSE 0
              /\ Origs(h, x) = Origs(j, x)
  <2>1. {d \in Cells : j[d].orig = x} = {d \in Cells : h[d].orig = x}
    BY <1>3
  <2>2. Origs(h, x) = Origs(j, x)
    BY <2>1 DEF Origs
  <2>3. CASE x \in Cut(h, j)
    <3>1. PICK d \in D : h[d].next = x
      BY <1>12, <2>3
    <3>2. \A e \in Cells : h[e].next = x => e = d
      BY <1>1, <3>1 DEF Linked
    <3>3. \A e \in Cells : e # d => j[e].next # x
      BY <1>5, <3>2, CellsAre
    <3>4. j[d].next # x
      BY <1>3, <3>1, CellsAre
    <3>5. {e \in Cells : h[e].next = x} = {d}
      BY <3>1, <3>2
    <3>6. {e \in Cells : j[e].next = x} = {}
      BY <3>3, <3>4
    <3>7. Cardinality({d}) = 1 /\ Cardinality({}) = 0
      BY FS_Singleton, FS_EmptySet
    <3>8. Nexts(h, x) = 1 /\ Nexts(j, x) = 0
      BY <3>5, <3>6, <3>7 DEF Nexts
    <3> QED
      BY <2>2, <2>3, <3>8
  <2>4. CASE x \notin Cut(h, j)
    <3>1. \A d \in Cells : j[d].next = x <=> h[d].next = x
      BY <1>3, <1>12, <2>4, CellsAre
    <3>2. {d \in Cells : j[d].next = x} = {d \in Cells : h[d].next = x}
      BY <3>1
    <3>3. Nexts(h, x) = Nexts(j, x) /\ Nexts(h, x) \in Nat
      BY <3>2, PointerCounts DEF Nexts
    <3> QED
      BY <2>2, <2>4, <3>3
  <2> QED
    BY <2>3, <2>4
<1>15. \A x \in Places : Keeps(h, j, x)
  BY <1>11 DEF Keeps
<1> QED
  BY <1>3, <1>5, <1>8, <1>13, <1>14, <1>15 DEF FlatSound
-----------------------------------------------------------------------------
(***************************************************************************)
(* logdb_buffer_free.  It ends: every call takes one buffer from those to  *)
(* be freed, and adds some only when it empties a buffer.  What one call   *)
(* keeps is kept by all.                                                   *)
(***************************************************************************)

\* A heap and the buffers still to be freed in it.
Todo == Heaps \X Seq(Cells \cup {NULL})

\* The number of places in s where there is an element of P, counted from the end.
Occ(s, P) == Cardinality({k \in 0..(Len(s) - 1) : s[Len(s) - k] \in P})

\* There are none in an empty sequence.
LEMMA OccEmpty ==
  ASSUME NEW P
  PROVE  Occ(<<>>, P) = 0
<1>1. {k \in 0..(Len(<<>>) - 1) : <<>>[Len(<<>>) - k] \in P} = {}
  OBVIOUS
<1> QED
  BY <1>1, FS_EmptySet DEF Occ

\* Without its first element there is one place less or not.
LEMMA OccPop ==
  ASSUME NEW s \in Seq(Places), s # <<>>, NEW P
  PROVE  /\ Occ(s, P) \in Nat /\ Occ(Tail(s), P) \in Nat
         /\ Occ(s, P) = Occ(Tail(s), P) + IF Head(s) \in P THEN 1 ELSE 0
<1> DEFINE L == Len(s)
           A == {k \in 0..(L - 1) : s[L - k] \in P}
           r == Tail(s)
           B == {k \in 0..(Len(r) - 1) : r[Len(r) - k] \in P}
<1>1. L \in Nat /\ L > 0 /\ Len(r) = L - 1 /\ \A i \in 1..(L - 1) : r[i] = s[i + 1]
  OBVIOUS
<1>2. Head(s) = s[1]
  OBVIOUS
<1> HIDE DEF L, r
<1>3. \A k \in 0..(L - 2) : r[Len(r) - k] = s[L - k]
  <2> SUFFICES ASSUME NEW k \in 0..(L - 2) PROVE r[Len(r) - k] = s[L - k]
    OBVIOUS
  <2>1. Len(r) - k \in 1..(L - 1) /\ Len(r) - k + 1 = L - k
    BY <1>1
  <2> QED
    BY <1>1, <2>1
<1>4. A = IF s[1] \in P THEN B \cup {L - 1} ELSE B
  <2>1. \A k \in 0..(L - 1) : k \in 0..(L - 2) \/ k = L - 1
    BY <1>1
  <2>2. L - (L - 1) = 1 /\ L - 1 \in 0..(L - 1) /\ 0..(L - 2) \subseteq 0..(L - 1) /\ Len(r) - 1 = L - 2
    BY <1>1
  <2>3. B = {k \in 0..(L - 2) : s[L - k] \in P}
    BY <1>3, <2>2
  <2> QED
    BY <2>1, <2>2, <2>3
<1>5. L - 1 \notin B
  BY <1>1
<1>6. IsFiniteSet(A) /\ IsFiniteSet(B)
  <2>0. L - 1 \in Int /\ Len(r) - 1 \in Int /\ 0 \in Int
    BY <1>1
  <2>1. IsFiniteSet(0..(L - 1)) /\ IsFiniteSet(0..(Len(r) - 1))
    BY <2>0, FS_Interval
  <2>2. A \subseteq 0..(L - 1) /\ B \subseteq 0..(Len(r) - 1)
    OBVIOUS
  <2> QED
    BY <2>1, <2>2, FS_Subset
<1>7. Cardinality(A) \in Nat /\ Cardinality(B) \in Nat
  BY <1>6, FS_CardinalityType
<1>8. Cardinality(B \cup {L - 1}) = Cardinality(B) + 1
  BY <1>5, <1>6, OneMore
<1>9. Occ(s, P) = Cardinality(A) /\ Occ(r, P) = Cardinality(B)
  BY DEF Occ, L
<1> HIDE DEF A, B
<1> QED
  BY <1>2, <1>4, <1>7, <1>8, <1>9 DEF r

\* With an element before it, there is one more or not.
LEMMA OccPush ==
  ASSUME NEW s \in Seq(Places), NEW x \in Places, NEW P
  PROVE  /\ <<x>> \o s \in Seq(Places) /\ Len(<<x>> \o s) = Len(s) + 1
         /\ Occ(<<x>> \o s, P) \in Nat /\ Occ(s, P) \in Nat
         /\ Occ(<<x>> \o s, P) = Occ(s, P) + IF x \in P THEN 1 ELSE 0
<1> DEFINE q == <<x>> \o s
<1>1. q \in Seq(Places) /\ q # <<>> /\ Len(q) = Len(s) + 1 /\ Head(q) = x
  OBVIOUS
<1>2. Tail(q) = s
  <2>1. Tail(q) \in Seq(Places) /\ Len(Tail(q)) = Len(s)
    OBVIOUS
  <2>2. \A i \in 1..Len(s) : Tail(q)[i] = s[i]
    OBVIOUS
  <2> QED
    BY <2>1, <2>2
<1> HIDE DEF q
<1>3. /\ Occ(q, P) \in Nat /\ Occ(Tail(q), P) \in Nat
      /\ Occ(q, P) = Occ(Tail(q), P) + IF Head(q) \in P THEN 1 ELSE 0
  BY <1>1, OccPop
<1> QED
  BY <1>1, <1>2, <1>3 DEF q

\* What one call does.
Decremented(g, d) == [g EXCEPT ![d].refcnt = @ - 1]
Emptied(g, d) == [g EXCEPT ![d] = Blank]

\* The three cases of logdb_buffer_free: no buffer, not the last reference, the last.
LEMMA FreeOneIs ==
  ASSUME NEW w \in Todo, w[2] # <<>>
  PROVE  LET g == w[1]
             d == Head(w[2])
             rest == Tail(w[2]) IN
         /\ g \in Heaps /\ w[2] \in Seq(Places) /\ d \in Places /\ rest \in Seq(Places)
         /\ Len(w[2]) = Len(rest) + 1
         /\ d = NULL => FreeOne(w) = <<g, rest>>
         /\ d # NULL /\ g[d].refcnt > 1 => FreeOne(w) = <<Decremented(g, d), rest>>
         /\ d # NULL /\ ~(g[d].refcnt > 1) =>
             FreeOne(w) = <<Emptied(g, d), <<g[d].orig>> \o (<<g[d].next>> \o rest)>>
<1> DEFINE g == w[1]
           d == Head(w[2])
           rest == Tail(w[2])
<1>1. g \in Heaps /\ w[2] \in Seq(Places)
  BY DEF Todo, Places
<1>2. d \in Places /\ rest \in Seq(Places) /\ Len(w[2]) = Len(rest) + 1
  BY <1>1
<1>3. d = NULL => FreeOne(w) = <<g, rest>>
  BY DEF FreeOne
<1>4. d # NULL /\ g[d].refcnt > 1 => FreeOne(w) = <<Decremented(g, d), rest>>
  BY DEF FreeOne, Decremented
<1>5. ASSUME d # NULL, ~(g[d].refcnt > 1)
      PROVE  FreeOne(w) = <<Emptied(g, d), <<g[d].orig>> \o (<<g[d].next>> \o rest)>>
  <2>1. FreeOne(w) = <<Emptied(g, d), Drop(g[d]) \o rest>>
    BY <1>5 DEF FreeOne, Emptied
  <2>2. d \in Cells
    BY <1>2, <1>5 DEF Places
  <2>3. g[d].orig \in Places /\ g[d].next \in Places
    BY <1>1, <2>2, CellType
  <2> HIDE DEF g, d, rest
  <2>4. <<g[d].orig, g[d].next>> \o rest = <<g[d].orig>> \o (<<g[d].next>> \o rest)
    BY <1>2, <2>3
  <2> QED
    BY <2>1, <2>4 DEF Drop
<1> QED
  BY <1>1, <1>2, <1>3, <1>4, <1>5

\* Blank is a buffer, and what it holds.
LEMMA BlankIs == /\ Blank \in Buffers
                 /\ Blank.orig = NULL /\ Blank.next = NULL /\ Blank.refcnt = 0
  BY CellsAre DEF Blank, Buffers, Places

\* The heap after one call for a buffer d that others still point to.
LEMMA FreeOneLess ==
  ASSUME NEW g \in Heaps, NEW d \in Cells, g[d].refcnt > 1,
         NEW k, k = Decremented(g, d)
  PROVE  /\ k \in Heaps
         /\ \A e \in Cells : /\ k[e].data = g[e].data /\ k[e].orig = g[e].orig
                             /\ k[e].next = g[e].next
                             /\ k[e].refcnt = IF e = d THEN g[e].refcnt - 1 ELSE g[e].refcnt
         /\ \A e \in Cells : e # d => k[e] = g[e]
<1>1. g[d].refcnt - 1 \in Nat /\ \A e \in Cells : g[e] \in Buffers
  BY CellType
<1>2. \A e \in Cells : e # d => k[e] = g[e]
  BY DEF Heaps, Decremented
<1>3. k[d] = [g[d] EXCEPT !.refcnt = @ - 1]
  BY DEF Heaps, Decremented
<1>4. /\ k[d] \in Buffers /\ k[d].data = g[d].data /\ k[d].orig = g[d].orig
      /\ k[d].next = g[d].next /\ k[d].refcnt = g[d].refcnt - 1
  BY <1>1, <1>3 DEF Buffers
<1>5. k \in Heaps
  BY <1>1, <1>2, <1>4 DEF Heaps, Decremented
<1> QED
  BY <1>2, <1>4, <1>5

\* The heap after the last one.
LEMMA FreeOneLast ==
  ASSUME NEW g \in Heaps, NEW d \in Cells, NEW k, k = Emptied(g, d)
  PROVE  k \in Heaps /\ k[d] = Blank /\ \A e \in Cells : e # d => k[e] = g[e]
  BY BlankIs DEF Heaps, Emptied

\* What decreases.
Filled(g) == {d \in Cells : g[d] # Blank}
Measure(w) == 4 * Cardinality(Filled(w[1])) + Len(w[2]) + 2 * Occ(w[2], Cells)

\* The number of cells in use is a natural number, and less where fewer are in use.
LEMMA FilledType ==
  ASSUME NEW g, NEW k, Filled(k) \subseteq Filled(g)
  PROVE  /\ IsFiniteSet(Filled(g)) /\ Cardinality(Filled(g)) \in Nat
         /\ IsFiniteSet(Filled(k)) /\ Cardinality(Filled(k)) \in Nat
         /\ Cardinality(Filled(k)) <= Cardinality(Filled(g))
<1>1. IsFiniteSet(Filled(g))
  BY CellsAre, FS_Subset DEF Filled
<1>2. IsFiniteSet(Filled(k)) /\ Cardinality(Filled(k)) <= Cardinality(Filled(g))
  BY <1>1, FS_Subset
<1> QED
  BY <1>1, <1>2, FS_CardinalityType

\* The number of places is a natural number.
LEMMA OccType ==
  ASSUME NEW s \in Seq(Places), NEW P
  PROVE  Occ(s, P) \in Nat
<1>1. CASE s = <<>>
  BY <1>1, OccEmpty
<1>2. CASE s # <<>>
  BY <1>2, OccPop
<1> QED
  BY <1>1, <1>2

\* Every call decreases the measure: a buffer is emptied, or one thing less is to be
\* freed.
LEMMA FreeOneEnds ==
  ASSUME NEW w \in Todo, w[2] # <<>>
  PROVE  /\ FreeOne(w) \in Todo
         /\ Measure(w) \in Nat /\ Measure(FreeOne(w)) \in Nat
         /\ Measure(FreeOne(w)) < Measure(w)
<1> DEFINE g == w[1]
           d == Head(w[2])
           rest == Tail(w[2])
<1>1. /\ g \in Heaps /\ w[2] \in Seq(Places) /\ d \in Places /\ rest \in Seq(Places)
      /\ Len(w[2]) = Len(rest) + 1
      /\ d = NULL => FreeOne(w) = <<g, rest>>
      /\ d # NULL /\ g[d].refcnt > 1 => FreeOne(w) = <<Decremented(g, d), rest>>
      /\ d # NULL /\ ~(g[d].refcnt > 1) =>
          FreeOne(w) = <<Emptied(g, d), <<g[d].orig>> \o (<<g[d].next>> \o rest)>>
  BY FreeOneIs
<1>0. g \in Heaps /\ w[2] \in Seq(Places) /\ d \in Places /\ rest \in Seq(Places)
  BY <1>1
<1> HIDE DEF g, d, rest
<1> DEFINE n == Cardinality(Filled(g))
           l == Len(rest)
           o == Occ(rest, Cells)
<1>2. /\ n \in Nat /\ IsFiniteSet(Filled(g))
      /\ l \in Nat /\ o \in Nat
  <2>1. Filled(g) \subseteq Filled(g)
    OBVIOUS
  <2>2. n \in Nat /\ IsFiniteSet(Filled(g))
    BY <2>1, FilledType
  <2>3. l \in Nat /\ o \in Nat
    BY <1>0, OccType
  <2> QED
    BY <2>2, <2>3
<1>3. Occ(w[2], Cells) = o + IF d \in Cells THEN 1 ELSE 0
  BY <1>0, OccPop DEF d, rest
<1>4. Measure(w) = 4 * n + (l + 1) + 2 * (o + IF d \in Cells THEN 1 ELSE 0)
  BY <1>1, <1>3 DEF Measure, g
<1>5. \A k, s : Measure(<<k, s>>) = 4 * Cardinality(Filled(k)) + Len(s) + 2 * Occ(s, Cells)
  BY DEF Measure
<1>6. \A k \in Heaps, s \in Seq(Places) : <<k, s>> \in Todo
  BY DEF Todo, Places
<1>7. CASE d = NULL
  <2>1. FreeOne(w) = <<g, rest>>
    BY <1>1, <1>7
  <2>2. Measure(FreeOne(w)) = 4 * n + l + 2 * o
    BY <1>5, <2>1
  <2>3. Measure(w) = 4 * n + (l + 1) + 2 * o
    BY <1>2, <1>4, <1>7, CellsAre
  <2>4. FreeOne(w) \in Todo
    BY <1>1, <1>6, <2>1
  <2> HIDE DEF n, l, o
  <2> QED
    BY <1>2, <2>2, <2>3, <2>4
<1>8. CASE d # NULL /\ g[d].refcnt > 1
  <2> DEFINE k == Decremented(g, d)
             m == Cardinality(Filled(k))
  <2>0. d \in Cells
    BY <1>1, <1>8 DEF Places
  <2>1. FreeOne(w) = <<k, rest>>
    BY <1>1, <1>8
  <2>2. k \in Heaps /\ \A e \in Cells : e # d => k[e] = g[e]
    BY <1>0, <1>8, <2>0, FreeOneLess
  <2>3. g[d] # Blank
    BY <1>8, BlankIs
  <2>4. Filled(k) \subseteq Filled(g)
    BY <2>2, <2>3 DEF Filled
  <2>5. m \in Nat /\ m <= n
    BY <2>4, FilledType
  <2>6. Measure(FreeOne(w)) = 4 * m + l + 2 * o
    BY <1>5, <2>1
  <2>7. Measure(w) = 4 * n + (l + 1) + 2 * (o + 1)
    BY <1>4, <2>0
  <2>8. FreeOne(w) \in Todo
    BY <1>1, <1>6, <2>1, <2>2
  <2> HIDE DEF n, l, o, k, m
  <2> QED
    BY <1>2, <2>5, <2>6, <2>7, <2>8
<1>9. CASE d # NULL /\ ~(g[d].refcnt > 1)
  <2> DEFINE k == Emptied(g, d)
             m == Cardinality(Filled(k))
             a == g[d].orig
             b == g[d].next
             p == <<b>> \o rest
             q == <<a>> \o p
  <2>0. d \in Cells
    BY <1>1, <1>9 DEF Places
  <2>1. FreeOne(w) = <<k, q>>
    BY <1>1, <1>9
  <2>2. k \in Heaps /\ k[d] = Blank /\ \A e \in Cells : e # d => k[e] = g[e]
    BY <1>0, <2>0, FreeOneLast
  <2>3. a \in Places /\ b \in Places
    BY <1>0, <2>0, CellType
  <2>4. p \in Seq(Places) /\ Len(p) = l + 1 /\ Occ(p, Cells) = o + (IF b \in Cells THEN 1 ELSE 0)
    BY <1>0, <2>3, OccPush
  <2> HIDE DEF p
  <2>5. /\ q \in Seq(Places) /\ Len(q) = Len(p) + 1
        /\ Occ(q, Cells) = Occ(p, Cells) + (IF a \in Cells THEN 1 ELSE 0)
    BY <2>3, <2>4, OccPush
  <2>6. Measure(FreeOne(w)) = 4 * m + Len(q) + 2 * Occ(q, Cells)
    BY <1>5, <2>1
  <2>7. Measure(w) = 4 * n + (l + 1) + 2 * (o + 1)
    BY <1>4, <2>0
  <2>8. FreeOne(w) \in Todo
    BY <1>6, <2>1, <2>2, <2>5
  <2>9. CASE g[d] = Blank
    <3>1. a = NULL /\ b = NULL
      BY <2>9, BlankIs
    <3>2. Filled(k) = Filled(g)
      BY <2>2, <2>9 DEF Filled
    <3>3. Occ(q, Cells) = o /\ Len(q) = l + 2 /\ m = n
      BY <1>2, <2>4, <2>5, <3>1, <3>2, CellsAre
    <3> HIDE DEF n, l, o, k, m, q
    <3> QED
      BY <1>2, <2>6, <2>7, <2>8, <3>3
  <2>10. CASE g[d] # Blank
    <3>1. Filled(g) = Filled(k) \cup {d} /\ d \notin Filled(k)
      BY <2>0, <2>2, <2>10 DEF Filled
    <3>2. IsFiniteSet(Filled(k)) /\ m \in Nat
      BY <3>1, FilledType
    <3>3. n = m + 1
      BY <3>1, <3>2, OneMore
    <3>4. Occ(q, Cells) <= o + 2 /\ Occ(q, Cells) \in Nat /\ Len(q) = l + 2
      BY <1>2, <2>4, <2>5
    <3> HIDE DEF n, l, o, k, m, q
    <3> QED
      BY <1>2, <2>6, <2>7, <2>8, <3>2, <3>3, <3>4
  <2> QED
    BY <2>9, <2>10
<1> QED
  BY <1>7, <1>8, <1>9

\* The measure is a natural number.
LEMMA MeasureType ==
  ASSUME NEW w \in Todo
  PROVE  Measure(w) \in Nat
<1>1. CASE w[2] = <<>>
  <2>1. Filled(w[1]) \subseteq Filled(w[1])
    OBVIOUS
  <2>2. Cardinality(Filled(w[1])) \in Nat
    BY <2>1, FilledType
  <2>3. Occ(w[2], Cells) = 0 /\ Len(w[2]) = 0
    BY <1>1, OccEmpty
  <2> QED
    BY <2>2, <2>3 DEF Measure
<1>2. CASE w[2] # <<>>
  BY <1>2, FreeOneEnds
<1> QED
  BY <1>1, <1>2

\* The values of a step of Free.
FreeStep(f, w) == IF w[2] = <<>> THEN w[1] ELSE f[FreeOne(w)]

\* f solves the equation of Free below n, and there any two solutions agree.
SolvesBelow(n, f) == \A w \in Todo : Measure(w) < n => f[w] = FreeStep(f, w)

\* By induction on the measure.
LEMMA FreeAgree ==
  ASSUME NEW n \in Nat, NEW f, NEW g, SolvesBelow(n, f), SolvesBelow(n, g)
  PROVE  \A w \in Todo : Measure(w) < n => f[w] = g[w]
<1> DEFINE S == {m \in Nat : \A w \in Todo : Measure(w) < m /\ Measure(w) < n => f[w] = g[w]}
<1>1. 0 \in S
  <2> SUFFICES ASSUME NEW w \in Todo PROVE ~(Measure(w) < 0)
    OBVIOUS
  <2>1. Measure(w) \in Nat
    BY MeasureType
  <2> QED
    BY <2>1
<1>2. ASSUME NEW m \in Nat, m \in S PROVE m + 1 \in S
  <2> SUFFICES ASSUME NEW w \in Todo, Measure(w) < m + 1, Measure(w) < n PROVE f[w] = g[w]
    OBVIOUS
  <2>1. f[w] = FreeStep(f, w) /\ g[w] = FreeStep(g, w)
    BY DEF SolvesBelow
  <2>2. CASE w[2] = <<>>
    BY <2>1, <2>2 DEF FreeStep
  <2>3. CASE w[2] # <<>>
    <3>1. /\ FreeOne(w) \in Todo /\ Measure(FreeOne(w)) \in Nat /\ Measure(w) \in Nat
          /\ Measure(FreeOne(w)) < Measure(w)
      BY <2>3, FreeOneEnds
    <3>2. Measure(FreeOne(w)) < m /\ Measure(FreeOne(w)) < n
      BY <3>1
    <3>3. f[FreeOne(w)] = g[FreeOne(w)]
      BY <1>2, <3>1, <3>2
    <3> QED
      BY <2>1, <2>3, <3>3 DEF FreeStep
  <2> QED
    BY <2>2, <2>3
<1> HIDE DEF S
<1>3. \A m \in Nat : m \in S
  BY <1>1, <1>2, Induction
<1>4. n \in S
  BY <1>3
<1> QED
  BY <1>4 DEF S

\* There is a solution below any number.
LEMMA FreeBelow ==
  \A n \in Nat : \E f : SolvesBelow(n, f)
<1> DEFINE S == {n \in Nat : \E f : SolvesBelow(n, f)}
<1>1. 0 \in S
  <2>1. \A w \in Todo : ~(Measure(w) < 0)
    <3> SUFFICES ASSUME NEW w \in Todo PROVE ~(Measure(w) < 0)
      OBVIOUS
    <3>1. Measure(w) \in Nat
      BY MeasureType
    <3> QED
      BY <3>1
  <2> QED
    BY <2>1 DEF SolvesBelow
<1>2. ASSUME NEW n \in Nat, n \in S PROVE n + 1 \in S
  <2>1. PICK f : SolvesBelow(n, f)
    BY <1>2
  <2> DEFINE g == [w \in Todo |-> FreeStep(f, w)]
  <2>2. ASSUME NEW w \in Todo, Measure(w) < n + 1 PROVE g[w] = FreeStep(g, w)
    <3>1. g[w] = FreeStep(f, w)
      OBVIOUS
    <3>2. CASE w[2] = <<>>
      BY <3>1, <3>2 DEF FreeStep
    <3>3. CASE w[2] # <<>>
      <4>1. /\ FreeOne(w) \in Todo /\ Measure(FreeOne(w)) \in Nat /\ Measure(w) \in Nat
            /\ Measure(FreeOne(w)) < Measure(w)
        BY <3>3, FreeOneEnds
      <4>2. Measure(FreeOne(w)) < n
        BY <2>2, <4>1
      <4>3. f[FreeOne(w)] = FreeStep(f, FreeOne(w))
        BY <2>1, <4>1, <4>2 DEF SolvesBelow
      <4>4. g[FreeOne(w)] = f[FreeOne(w)]
        BY <4>1, <4>3
      <4> HIDE DEF g
      <4> QED
        BY <3>1, <3>3, <4>4 DEF FreeStep
    <3> QED
      BY <3>2, <3>3
  <2> HIDE DEF g
  <2> QED
    BY <2>2 DEF SolvesBelow
<1> HIDE DEF S
<1>3. \A n \in Nat : n \in S
  BY <1>1, <1>2, Induction
<1> QED
  BY <1>3 DEF S

\* There is a function that solves the equation of Free.
LEMMA FreeExists ==
  \E f : f = [w \in Todo |-> FreeStep(f, w)]
<1> DEFINE F(n) == CHOOSE f : SolvesBelow(n, f)
           G == [w \in Todo |-> F(Measure(w) + 1)[w]]
<1>1. \A n \in Nat : SolvesBelow(n, F(n))
  BY FreeBelow
<1> HIDE DEF F
<1>2. ASSUME NEW w \in Todo PROVE G[w] = FreeStep(G, w)
  <2> DEFINE m == Measure(w) + 1
             v == FreeOne(w)
  <2>1. Measure(w) \in Nat /\ m \in Nat /\ Measure(w) < m
    BY MeasureType
  <2>2. F(m)[w] = FreeStep(F(m), w)
    BY <1>1, <2>1 DEF SolvesBelow
  <2>3. G[w] = F(m)[w]
    OBVIOUS
  <2>4. CASE w[2] = <<>>
    BY <2>2, <2>3, <2>4 DEF FreeStep
  <2>5. CASE w[2] # <<>>
    <3>1. v \in Todo /\ Measure(v) \in Nat /\ Measure(v) < Measure(w)
      BY <2>5, FreeOneEnds
    <3> DEFINE l == Measure(v) + 1
    <3>2. l \in Nat /\ Measure(v) < l /\ \A k \in Int : k < l => k < m
      BY <2>1, <3>1
    <3>3. SolvesBelow(l, F(m))
      <4> SUFFICES ASSUME NEW x \in Todo, Measure(x) < l PROVE F(m)[x] = FreeStep(F(m), x)
        BY DEF SolvesBelow
      <4>1. Measure(x) \in Int
        BY MeasureType
      <4>2. Measure(x) < m
        BY <3>2, <4>1
      <4> QED
        BY <1>1, <2>1, <4>2 DEF SolvesBelow
    <3>4. SolvesBelow(l, F(l))
      BY <1>1, <3>2
    <3>5. F(m)[v] = F(l)[v]
      <4> HIDE DEF m, v, l
      <4> QED
        BY <3>1, <3>2, <3>3, <3>4, FreeAgree
    <3>6. G[v] = F(l)[v]
      BY <3>1
    <3> HIDE DEF G
    <3> QED
      BY <2>2, <2>3, <2>5, <3>5, <3>6 DEF FreeStep
  <2> QED
    BY <2>4, <2>5
<1>3. G = [w \in Todo |-> G[w]]
  OBVIOUS
<1> HIDE DEF G
<1>4. G = [w \in Todo |-> FreeStep(G, w)]
  BY <1>2, <1>3
<1> QED
  BY <1>4

\* The rule: what holds before logdb_buffer_free and is kept by every call that it
\* makes holds afterwards.
LEMMA FreeKeeps ==
  ASSUME NEW I \in SUBSET Todo, \A w \in I : w[2] # <<>> => FreeOne(w) \in I,
         NEW h, NEW c, <<h, <<c>>>> \in I
  PROVE  <<Free(h, c), <<>>>> \in I
<1> DEFINE f == CHOOSE f : f = [w \in Todo |-> FreeStep(f, w)]
<1>1. f = [w \in Todo |-> FreeStep(f, w)]
  BY FreeExists
<1>2. Free(h, c) = f[<<h, <<c>>>>]
  BY DEF Free, FreeStep, Todo
<1> HIDE DEF f
<1>3. \A w \in Todo : f[w] = FreeStep(f, w)
  BY <1>1
<1> DEFINE S == {n \in Nat : \A w \in I : Measure(w) < n => <<f[w], <<>>>> \in I}
<1>4. 0 \in S
  <2> SUFFICES ASSUME NEW w \in I PROVE ~(Measure(w) < 0)
    OBVIOUS
  <2>1. Measure(w) \in Nat
    BY MeasureType
  <2> QED
    BY <2>1
<1>5. ASSUME NEW n \in Nat, n \in S PROVE n + 1 \in S
  <2> SUFFICES ASSUME NEW w \in I, Measure(w) < n + 1 PROVE <<f[w], <<>>>> \in I
    OBVIOUS
  <2>0. w \in Todo
    OBVIOUS
  <2>1. CASE w[2] = <<>>
    <3>1. f[w] = w[1]
      BY <1>3, <2>0, <2>1 DEF FreeStep
    <3>2. w = <<w[1], w[2]>>
      BY <2>0 DEF Todo
    <3>3. <<w[1], <<>>>> \in I
      BY <2>1, <3>2
    <3> QED
      BY <3>1, <3>3
  <2>2. CASE w[2] # <<>>
    <3>1. FreeOne(w) \in I
      BY <2>2
    <3>2. Measure(FreeOne(w)) \in Nat /\ Measure(w) \in Nat /\ Measure(FreeOne(w)) < Measure(w)
      BY <2>0, <2>2, FreeOneEnds
    <3>3. Measure(FreeOne(w)) < n
      BY <3>2
    <3>4. f[w] = f[FreeOne(w)]
      BY <1>3, <2>0, <2>2 DEF FreeStep
    <3>5. <<f[FreeOne(w)], <<>>>> \in I
      BY <1>5, <3>1, <3>3
    <3> QED
      BY <3>4, <3>5
  <2> QED
    BY <2>1, <2>2
<1> HIDE DEF S
<1>6. \A n \in Nat : n \in S
  BY <1>4, <1>5, Induction
<1> DEFINE w == <<h, <<c>>>>
<1>7. Measure(w) \in Nat
  BY MeasureType
<1>8. Measure(w) + 1 \in S /\ Measure(w) < Measure(w) + 1
  BY <1>6, <1>7
<1>9. <<f[w], <<>>>> \in I
  BY <1>8 DEF S
<1> QED
  BY <1>2, <1>9

\* What logdb_buffer_free begins with.
LEMMA TodoStart ==
  ASSUME NEW h \in Heaps, NEW c \in Places
  PROVE  <<h, <<c>>>> \in Todo
<1>1. <<c>> \in Seq(Cells \cup {NULL})
  BY DEF Places
<1> QED
  BY <1>1 DEF Todo

\* Every buffer is empty or as it was, but for a count that is not higher.
Shrunk(g, h) ==
    \A d \in Cells : \/ g[d] = Blank
                     \/ /\ SamePointers(g, h, d) /\ g[d].data = h[d].data
                        /\ 0 < g[d].refcnt /\ g[d].refcnt <= h[d].refcnt

\* logdb_buffer_free only lowers counts and empties buffers.
LEMMA FreeShrinks ==
  ASSUME NEW h \in Heaps, \A d \in Cells : h[d].refcnt = 0 => h[d] = Blank,
         NEW c \in Places, NEW j, j = Free(h, c)
  PROVE  j \in Heaps /\ Shrunk(j, h)
<1> DEFINE I == {w \in Todo : Shrunk(w[1], h)}
<1>1. ASSUME NEW w \in I, w[2] # <<>> PROVE FreeOne(w) \in I
  <2> DEFINE g == w[1]
             d == Head(w[2])
             rest == Tail(w[2])
  <2>1. /\ g \in Heaps /\ d \in Places
        /\ d = NULL => FreeOne(w) = <<g, rest>>
        /\ d # NULL /\ g[d].refcnt > 1 => FreeOne(w) = <<Decremented(g, d), rest>>
        /\ d # NULL /\ ~(g[d].refcnt > 1) =>
            FreeOne(w) = <<Emptied(g, d), <<g[d].orig>> \o (<<g[d].next>> \o rest)>>
    BY <1>1, FreeOneIs
  <2>2. FreeOne(w) \in Todo
    BY <1>1, FreeOneEnds
  <2>3. Shrunk(g, h)
    OBVIOUS
  <2> HIDE DEF g, d, rest
  <2>4. Shrunk(FreeOne(w)[1], h)
    <3>1. CASE d = NULL
      BY <2>1, <2>3, <3>1
    <3>2. CASE d # NULL /\ g[d].refcnt > 1
      <4> DEFINE k == Decremented(g, d)
      <4>1. FreeOne(w)[1] = k
        BY <2>1, <3>2
      <4>2. g \in Heaps /\ d \in Cells
        BY <2>1, <3>2 DEF Places
      <4>3. /\ \A e \in Cells : /\ k[e].data = g[e].data /\ k[e].orig = g[e].orig
                                /\ k[e].next = g[e].next
                                /\ k[e].refcnt = IF e = d THEN g[e].refcnt - 1 ELSE g[e].refcnt
            /\ \A e \in Cells : e # d => k[e] = g[e]
        BY <3>2, <4>2, FreeOneLess
      <4> HIDE DEF k
      <4>4. \A e \in Cells : g[e].refcnt \in Nat /\ h[e].refcnt \in Nat
        BY <4>2, CellType
      <4>5. g[d] # Blank
        BY <3>2, BlankIs
      <4>6. ASSUME NEW e \in Cells
            PROVE  \/ k[e] = Blank
                   \/ /\ SamePointers(k, h, e) /\ k[e].data = h[e].data
                      /\ 0 < k[e].refcnt /\ k[e].refcnt <= h[e].refcnt
        <5>1. CASE e = d
          <6>1. /\ SamePointers(g, h, d) /\ g[d].data = h[d].data
                /\ 0 < g[d].refcnt /\ g[d].refcnt <= h[d].refcnt
            BY <2>3, <4>2, <4>5 DEF Shrunk
          <6>2. k[d].refcnt = g[d].refcnt - 1 /\ SamePointers(k, h, d) /\ k[d].data = h[d].data
            BY <4>2, <4>3, <6>1 DEF SamePointers
          <6>3. 0 < k[d].refcnt /\ k[d].refcnt <= h[d].refcnt
            BY <3>2, <4>2, <4>4, <6>1, <6>2
          <6> QED
            BY <5>1, <6>2, <6>3
        <5>2. CASE e # d
          <6>1. k[e] = g[e]
            BY <4>3, <5>2
          <6> QED
            BY <2>3, <6>1 DEF Shrunk, SamePointers
        <5> QED
          BY <5>1, <5>2
      <4> QED
        BY <4>1, <4>6 DEF Shrunk
    <3>3. CASE d # NULL /\ ~(g[d].refcnt > 1)
      <4> DEFINE k == Emptied(g, d)
      <4>1. FreeOne(w)[1] = k
        BY <2>1, <3>3
      <4>2. k[d] = Blank /\ \A e \in Cells : e # d => k[e] = g[e]
        BY <2>1, <3>3, FreeOneLast DEF Places
      <4> HIDE DEF k
      <4> QED
        BY <2>3, <4>1, <4>2 DEF Shrunk, SamePointers
    <3> QED
      BY <3>1, <3>2, <3>3
  <2> QED
    BY <2>2, <2>4
<1>2. <<h, <<c>>>> \in I
  <2>1. <<h, <<c>>>> \in Todo
    BY TodoStart
  <2>2. Shrunk(h, h)
    BY CellType DEF Shrunk, SamePointers
  <2> QED
    BY <2>1, <2>2
<1>3. I \in SUBSET Todo
  OBVIOUS
<1> HIDE DEF I
<1>4. <<j, <<>>>> \in I
  BY <1>1, <1>2, <1>3, FreeKeeps
<1> QED
  BY <1>4 DEF I, Todo

\* The count of every buffer is that of the pointers and of the calls to be made.
LEMMA FreeCounts ==
  ASSUME NEW h \in Heaps, NEW c \in Cells, NEW E \in [Cells -> Nat], E[c] > 0, Counted(h, E),
         NEW j, j = Free(h, c)
  PROVE  Counted(j, [E EXCEPT ![c] = @ - 1])
<1> DEFINE D == [E EXCEPT ![c] = @ - 1]
           Exact(g, s, x) == g[x].refcnt = D[x] + Origs(g, x) + Nexts(g, x) + Occ(s, {x})
           I == {w \in Todo : \A x \in Cells : Exact(w[1], w[2], x)}
<1>0. D \in [Cells -> Nat] /\ \A x \in Cells : D[x] = IF x = c THEN E[x] - 1 ELSE E[x]
  OBVIOUS
<1> HIDE DEF D
<1>1. ASSUME NEW w \in I, w[2] # <<>> PROVE FreeOne(w) \in I
  <2> DEFINE g == w[1]
             d == Head(w[2])
             rest == Tail(w[2])
  <2>1. /\ d = NULL => FreeOne(w) = <<g, rest>>
        /\ d # NULL /\ g[d].refcnt > 1 => FreeOne(w) = <<Decremented(g, d), rest>>
        /\ d # NULL /\ ~(g[d].refcnt > 1) =>
            FreeOne(w) = <<Emptied(g, d), <<g[d].orig>> \o (<<g[d].next>> \o rest)>>
    BY <1>1, FreeOneIs
  <2>2. g \in Heaps /\ d \in Places /\ rest \in Seq(Places) /\ w[2] \in Seq(Places)
    BY <1>1, FreeOneIs
  <2>3. FreeOne(w) \in Todo
    BY <1>1, FreeOneEnds
  <2>4. ASSUME NEW x \in Cells
        PROVE  /\ g[x].refcnt = D[x] + Origs(g, x) + Nexts(g, x)
                                + (Occ(rest, {x}) + IF d = x THEN 1 ELSE 0)
               /\ Occ(rest, {x}) \in Nat /\ Origs(g, x) \in Nat /\ Nexts(g, x) \in Nat
               /\ D[x] \in Nat
    <3>1. Exact(g, w[2], x)
      OBVIOUS
    <3>2. Occ(rest, {x}) \in Nat /\ Occ(w[2], {x}) = Occ(rest, {x}) + IF d \in {x} THEN 1 ELSE 0
      BY <1>1, <2>2, OccPop
    <3>3. d \in {x} <=> d = x
      OBVIOUS
    <3>4. Origs(g, x) \in Nat /\ Nexts(g, x) \in Nat
      BY PointerCounts
    <3> HIDE DEF g, d, rest
    <3> QED
      BY <1>0, <3>1, <3>2, <3>3, <3>4
  <2> HIDE DEF g, d, rest
  <2>5. ASSUME NEW x \in Cells PROVE Exact(FreeOne(w)[1], FreeOne(w)[2], x)
    <3>1. CASE d = NULL
      <4>1. d # x
        BY <3>1, CellsAre
      <4>2. FreeOne(w)[1] = g /\ FreeOne(w)[2] = rest
        BY <2>1, <3>1
      <4> QED
        BY <2>4, <4>1, <4>2
    <3>2. CASE d # NULL /\ g[d].refcnt > 1
      <4> DEFINE k == Decremented(g, d)
      <4>1. FreeOne(w)[1] = k /\ FreeOne(w)[2] = rest
        BY <2>1, <3>2
      <4>2. d \in Cells
        BY <2>2, <3>2 DEF Places
      <4>3. /\ \A e \in Cells : k[e].orig = g[e].orig /\ k[e].next = g[e].next
            /\ k[x].refcnt = IF x = d THEN g[x].refcnt - 1 ELSE g[x].refcnt
        BY <2>2, <3>2, <4>2, FreeOneLess
      <4> HIDE DEF k
      <4>4. {e \in Cells : k[e].orig = x} = {e \in Cells : g[e].orig = x}
        BY <4>3
      <4>5. {e \in Cells : k[e].next = x} = {e \in Cells : g[e].next = x}
        BY <4>3
      <4>6. Origs(k, x) = Origs(g, x) /\ Nexts(k, x) = Nexts(g, x)
        BY <4>4, <4>5 DEF Origs, Nexts
      <4>7. k[x].refcnt = D[x] + Origs(k, x) + Nexts(k, x) + Occ(rest, {x})
        BY <2>4, <4>3, <4>6
      <4> QED
        BY <4>1, <4>7
    <3>3. CASE d # NULL /\ ~(g[d].refcnt > 1)
      <4> DEFINE k == Emptied(g, d)
                 a == g[d].orig
                 b == g[d].next
                 p == <<b>> \o rest
                 q == <<a>> \o p
      <4>1. FreeOne(w)[1] = k /\ FreeOne(w)[2] = q
        <5>1. FreeOne(w) = <<k, q>>
          BY <2>1, <3>3
        <5> HIDE DEF k, q
        <5> QED
          BY <5>1
      <4>2. d \in Cells
        BY <2>2, <3>3 DEF Places
      <4>3. k[d] = Blank /\ \A e \in Cells : e # d => k[e] = g[e]
        BY <2>2, <4>2, FreeOneLast
      <4>4. a \in Places /\ b \in Places
        BY <2>2, <4>2, CellType
      <4>5. p \in Seq(Places) /\ Occ(p, {x}) = Occ(rest, {x}) + (IF b \in {x} THEN 1 ELSE 0)
        BY <2>2, <4>4, OccPush
      <4> HIDE DEF k, p
      <4>6. Occ(q, {x}) = Occ(p, {x}) + (IF a \in {x} THEN 1 ELSE 0)
        BY <4>4, <4>5, OccPush
      <4> HIDE DEF q
      <4>7. (a \in {x} <=> a = x) /\ (b \in {x} <=> b = x)
        OBVIOUS
      <4>8. Occ(q, {x}) = Occ(rest, {x}) + (IF a = x THEN 1 ELSE 0) + (IF b = x THEN 1 ELSE 0)
        BY <2>4, <4>5, <4>6, <4>7
      <4>9. OrigsMove(g, k, d, x) /\ NextsMove(g, k, d, x)
        BY <4>2, <4>3, OrigsChange, NextsChange
      <4>10. k[d].orig = NULL /\ k[d].next = NULL /\ k[d].refcnt = 0 /\ x # NULL
        BY <4>3, BlankIs, CellsAre
      <4>11. /\ Origs(k, x) + (IF a = x THEN 1 ELSE 0) = Origs(g, x) /\ Origs(k, x) \in Nat
             /\ Nexts(k, x) + (IF b = x THEN 1 ELSE 0) = Nexts(g, x) /\ Nexts(k, x) \in Nat
        BY <4>9, <4>10 DEF OrigsMove, NextsMove
      <4>12. k[x].refcnt = D[x] + Origs(k, x) + Nexts(k, x) + Occ(q, {x})
        <5>1. CASE x # d
          <6>1. k[x].refcnt = g[x].refcnt
            BY <4>3, <5>1
          <6> HIDE DEF a, b
          <6> QED
            BY <2>4, <4>8, <4>11, <5>1, <6>1
        <5>2. CASE x = d
          <6>1. g[x].refcnt \in Nat /\ ~(g[x].refcnt > 1)
            BY <2>2, <3>3, <5>2, CellType
          <6>3. /\ g[x].refcnt = D[x] + Origs(g, x) + Nexts(g, x) + (Occ(rest, {x}) + 1)
                /\ Occ(rest, {x}) \in Nat /\ Origs(g, x) \in Nat /\ Nexts(g, x) \in Nat
                /\ D[x] \in Nat
            BY <2>4, <5>2
          <6>2. Origs(g, x) = 0 /\ Nexts(g, x) = 0 /\ Occ(rest, {x}) = 0 /\ D[x] = 0
            BY <6>1, <6>3
          <6> HIDE DEF a, b
          <6> QED
            BY <4>8, <4>10, <4>11, <5>2, <6>2
        <5> QED
          BY <5>1, <5>2
      <4> QED
        BY <4>1, <4>12
    <3> QED
      BY <3>1, <3>2, <3>3
  <2> QED
    BY <2>3, <2>5
<1>2. <<h, <<c>>>> \in I
  <2>1. <<h, <<c>>>> \in Todo
    BY TodoStart, CellsAre
  <2>2. ASSUME NEW x \in Cells PROVE Exact(h, <<c>>, x)
    <3>1. h[x].refcnt = E[x] + Origs(h, x) + Nexts(h, x)
      BY DEF Counted
    <3>2. E[x] \in Nat /\ Origs(h, x) \in Nat /\ Nexts(h, x) \in Nat
      BY PointerCounts
    <3>3. <<c>> \in Seq(Places) /\ <<c>> # <<>> /\ Head(<<c>>) = c /\ Tail(<<c>>) = <<>>
      BY CellsAre
    <3>4. Occ(<<c>>, {x}) = Occ(Tail(<<c>>), {x}) + IF Head(<<c>>) \in {x} THEN 1 ELSE 0
      BY <3>3, OccPop
    <3>5. Occ(<<c>>, {x}) = IF c = x THEN 1 ELSE 0
      BY <3>3, <3>4, OccEmpty
    <3> QED
      BY <1>0, <3>1, <3>2, <3>5
  <2> QED
    BY <2>1, <2>2
<1>3. I \in SUBSET Todo
  OBVIOUS
<1>4. <<j, <<>>>> \in I
  <2> HIDE DEF I
  <2> QED
    BY <1>1, <1>2, <1>3, FreeKeeps
<1>5. ASSUME NEW x \in Cells PROVE j[x].refcnt = D[x] + Origs(j, x) + Nexts(j, x)
  <2>1. Exact(j, <<>>, x)
    BY <1>4
  <2>2. D[x] \in Nat /\ Origs(j, x) \in Nat /\ Nexts(j, x) \in Nat
    BY <1>0, PointerCounts
  <2> QED
    BY <2>1, <2>2, OccEmpty
<1> QED
  BY <1>5 DEF Counted, D

\* logdb_buffer_free as a whole.
LEMMA FreeGood ==
  ASSUME NEW h, NEW R, Good(h, R), NEW c \in Cells, NEW j, j = Free(h, c)
  PROVE  /\ Good(j, R)
         /\ Shrunk(j, h)
         /\ \A x \in Places : Keeps(h, j, x)
         /\ \A E \in [Cells -> Nat] :
             Counted(h, E) /\ E[c] > 0 => Counted(j, [E EXCEPT ![c] = @ - 1])
<1>1. h \in Heaps /\ Acyclic(h) /\ Linked(h) /\ R \subseteq Cells /\ \A x \in R : First(h, x)
  BY DEF Good
<1>2. j \in Heaps /\ Shrunk(j, h)
  BY <1>1, FreeShrinks, CellsAre DEF Good
<1>3. Fewer(j, h)
  <2> SUFFICES ASSUME NEW d \in Cells
               PROVE  j[d].orig \in {h[d].orig, NULL} /\ j[d].next \in {h[d].next, NULL}
    BY DEF Fewer
  <2>1. CASE j[d] = Blank
    BY <2>1, BlankIs
  <2>2. CASE SamePointers(j, h, d)
    BY <2>2 DEF SamePointers
  <2> QED
    BY <1>2, <2>1, <2>2 DEF Shrunk
<1>4. Acyclic(j) /\ Linked(j) /\ \A x \in R : First(j, x)
  BY <1>1, <1>2, <1>3, FewerPointers, FewerLinked
<1>5. \A d \in Cells : j[d].refcnt = 0 => j[d] = Blank
  <2> SUFFICES ASSUME NEW d \in Cells, j[d].refcnt = 0, j[d] # Blank PROVE FALSE
    OBVIOUS
  <2>1. 0 < j[d].refcnt
    BY <1>2 DEF Shrunk
  <2> QED
    BY <2>1
<1>6. Good(j, R)
  BY <1>1, <1>2, <1>4, <1>5 DEF Good
<1>7. ASSUME NEW x \in Places, Safe(j, x)
      PROVE  Safe(h, x) /\ Content(j, x) = Content(h, x)
  <2> DEFINE S == Reach(j, x)
  <2>1. S \in SUBSET Cells /\ (x # NULL => x \in S) /\ Closure(j, S)
    BY <1>2, <1>4, ReachClosed
  <2>2. ASSUME NEW d \in S
        PROVE  SamePointers(j, h, d) /\ j[d].data = h[d].data /\ Live(h, d)
    <3>1. d \in Cells /\ j[d].refcnt > 0
      BY <1>7, <2>1 DEF Safe, Live
    <3>2. j[d] # Blank
      BY <3>1, BlankIs
    <3>3. /\ SamePointers(j, h, d) /\ j[d].data = h[d].data
          /\ 0 < j[d].refcnt /\ j[d].refcnt <= h[d].refcnt
      BY <1>2, <3>1, <3>2 DEF Shrunk
    <3>4. j[d].refcnt \in Nat /\ h[d].refcnt \in Nat
      BY <1>1, <1>2, <3>1, CellType
    <3> QED
      BY <3>3, <3>4 DEF Live
  <2>3. Closure(h, S)
    BY <2>1, <2>2 DEF Closure, SamePointers
  <2>4. x \in S \cup {NULL}
    BY <2>1 DEF Places
  <2> HIDE DEF S
  <2>5. Reach(h, x) \subseteq S
    BY <1>1, <2>1, <2>3, <2>4, ReachLeast
  <2>6. Safe(h, x)
    BY <2>2, <2>5 DEF Safe
  <2>7. Content(j, x) = Content(h, x)
    BY <1>1, <1>2, <1>4, <2>2, <2>5, ContentSame
  <2> QED
    BY <2>6, <2>7
<1>8. \A x \in Places : Keeps(h, j, x)
  BY <1>7 DEF Keeps
<1>9. ASSUME NEW E \in [Cells -> Nat], Counted(h, E), E[c] > 0
      PROVE  Counted(j, [E EXCEPT ![c] = @ - 1])
  BY <1>1, <1>9, FreeCounts
<1> QED
  BY <1>2, <1>6, <1>8, <1>9

\* A buffer that is counted and that something points to is in use, and so are
\* those that it contains.
LEMMA CountedSafe ==
  ASSUME NEW h \in Heaps, Acyclic(h), NEW E \in [Cells -> Nat], Counted(h, E),
         NEW x \in Places, x # NULL => h[x].refcnt > 0
  PROVE  Safe(h, x)
<1> DEFINE S == {d \in Cells : h[d].refcnt > 0}
<1>1. ASSUME NEW y \in Cells, \E d \in Cells : h[d].orig = y \/ h[d].next = y PROVE y \in S
  <2>1. Origs(h, y) \in Nat /\ Nexts(h, y) \in Nat /\ (Origs(h, y) >= 1 \/ Nexts(h, y) >= 1)
    BY <1>1, PointerCounts
  <2>2. h[y].refcnt = E[y] + Origs(h, y) + Nexts(h, y) /\ E[y] \in Nat
    BY DEF Counted
  <2> QED
    BY <2>1, <2>2
<1>2. Closure(h, S)
  <2> SUFFICES ASSUME NEW d \in S PROVE h[d].orig \in S \cup {NULL} /\ h[d].next \in S \cup {NULL}
    BY DEF Closure
  <2>1. h[d].orig \in Places /\ h[d].next \in Places
    BY CellType
  <2> QED
    BY <1>1, <2>1 DEF Places
<1>3. x \in S \cup {NULL} /\ S \in SUBSET Cells
  BY DEF Places
<1> HIDE DEF S
<1>4. Reach(h, x) \subseteq S
  BY <1>2, <1>3, ReachLeast
<1> QED
  BY <1>4 DEF S, Safe, Live

\* A buffer with other references only loses one.
LEMMA FreeMany ==
  ASSUME NEW g \in Heaps, NEW c \in Cells, g[c].refcnt > 1
  PROVE  Free(g, c) = Decremented(g, c)
<1> DEFINE a == <<g, <<c>>>>
           b == <<Decremented(g, c), <<>>>>
           I == {a, b}
<1>1. a \in Todo
  BY TodoStart, CellsAre
<1>2. a[2] # <<>> /\ a[1] = g /\ Head(a[2]) = c /\ Tail(a[2]) = <<>> /\ b[2] = <<>>
  OBVIOUS
<1> HIDE DEF a, b
<1>3. FreeOne(a) = b
  BY <1>1, <1>2, FreeOneIs, CellsAre DEF b
<1>4. I \in SUBSET Todo
  BY <1>1, <1>2, <1>3, FreeOneEnds
<1>5. \A w \in I : w[2] # <<>> => FreeOne(w) \in I
  BY <1>2, <1>3
<1>6. <<g, <<c>>>> \in I
  BY DEF a
<1> HIDE DEF I
<1>7. <<Free(g, c), <<>>>> \in I
  BY <1>4, <1>5, <1>6, FreeKeeps
<1>8. <<Free(g, c), <<>>>> = a \/ <<Free(g, c), <<>>>> = b
  BY <1>7 DEF I
<1>9. <<Free(g, c), <<>>>>[2] = <<>>
  OBVIOUS
<1>10. <<Free(g, c), <<>>>> = b
  BY <1>2, <1>8, <1>9
<1> QED
  BY <1>10 DEF b

\* Whoever is in use and is appended to with what is in use stays in use.
LEMMA GraftSafe ==
  ASSUME NEW h, NEW R, Good(h, R), NEW a \in R, NEW b \in R, Safe(h, a), Safe(h, b),
         a \notin Reach(h, b), NEW c, Available(h, R, c), NEW j, j = Graft(h, a, b, c)
  PROVE  Safe(j, a)
<1> DEFINE S == Reach(h, a) \cup {c} \cup Reach(h, b)
<1>1. h \in Heaps /\ Acyclic(h) /\ R \subseteq Cells /\ a \in Cells /\ b \in Cells /\ c \in Cells
  BY DEF Good, Available
<1>2. /\ Reach(h, a) \subseteq Cells /\ Reach(h, b) \subseteq Cells
      /\ Closure(h, Reach(h, a)) /\ Closure(h, Reach(h, b)) /\ a \in Reach(h, a) /\ b \in Reach(h, b)
  BY <1>1, ReachClosed, CellsAre
<1>3. Live(h, b)
  BY <1>2 DEF Safe
<1>4. /\ Good(j, R)
      /\ \A d \in Cells : j[d].refcnt = IF d = c THEN 1
                                        ELSE IF d = b THEN h[d].refcnt + 1 ELSE h[d].refcnt
      /\ \A d \in Cells : j[d].next # NULL => j[d].next \in {c, h[d].next}
      /\ \A d \in Cells : d # c => j[d].orig = h[d].orig
      /\ j[c].orig = b
  BY <1>3, GraftGood DEF GraftSound
<1>5. j \in Heaps /\ Acyclic(j)
  BY <1>4 DEF Good
<1>6. j[c].next = NULL
  <2>1. Appendable(h, a, b, c)
    BY <1>1 DEF Good, Available, Appendable
  <2> QED
    BY <2>1, GraftIs
<1>7. Closure(j, S)
  <2> SUFFICES ASSUME NEW d \in S PROVE j[d].orig \in S \cup {NULL} /\ j[d].next \in S \cup {NULL}
    BY DEF Closure
  <2>1. CASE d = c
    BY <1>2, <1>4, <1>6, <2>1
  <2>2. CASE d # c
    <3>1. d \in Reach(h, a) \cup Reach(h, b) /\ d \in Cells
      BY <1>2, <2>2
    <3>2. h[d].orig \in S \cup {NULL} /\ h[d].next \in S \cup {NULL}
      BY <1>2, <3>1 DEF Closure
    <3> QED
      BY <1>4, <2>2, <3>1, <3>2
  <2> QED
    BY <2>1, <2>2
<1>8. S \in SUBSET Cells /\ a \in S
  BY <1>1, <1>2
<1>9. \A d \in S : Live(j, d)
  <2> SUFFICES ASSUME NEW d \in S PROVE j[d].refcnt > 0
    BY DEF Live
  <2>1. d # c => h[d].refcnt > 0 /\ h[d].refcnt \in Nat
    BY <1>1, <1>8, CellType DEF Safe, Live
  <2> QED
    BY <1>4, <1>8, <2>1
<1> HIDE DEF S
<1>10. Reach(j, a) \subseteq S
  BY <1>5, <1>7, <1>8, ReachLeast
<1> QED
  BY <1>9, <1>10 DEF Safe

\* Shrinking twice is shrinking.
LEMMA ShrunkTwice ==
  ASSUME NEW h \in Heaps, NEW j \in Heaps, NEW k \in Heaps, Shrunk(k, j), Shrunk(j, h)
  PROVE  Shrunk(k, h)
<1> SUFFICES ASSUME NEW d \in Cells, k[d] # Blank
             PROVE  /\ SamePointers(k, h, d) /\ k[d].data = h[d].data
                    /\ 0 < k[d].refcnt /\ k[d].refcnt <= h[d].refcnt
  BY DEF Shrunk
<1>1. /\ SamePointers(k, j, d) /\ k[d].data = j[d].data
      /\ 0 < k[d].refcnt /\ k[d].refcnt <= j[d].refcnt
  BY DEF Shrunk
<1>2. k[d].refcnt \in Nat /\ j[d].refcnt \in Nat /\ h[d].refcnt \in Nat
  BY CellType
<1>3. j[d] # Blank
  BY <1>1, <1>2, BlankIs
<1>4. /\ SamePointers(j, h, d) /\ j[d].data = h[d].data
      /\ 0 < j[d].refcnt /\ j[d].refcnt <= h[d].refcnt
  BY <1>3 DEF Shrunk
<1> QED
  BY <1>1, <1>2, <1>4 DEF SamePointers
-----------------------------------------------------------------------------
(***************************************************************************)
(* Transactions: the pointers that they, the application and the history   *)
(* hold to buffers.                                                        *)
(***************************************************************************)

\* The transactions in st, which is stack or work.
FramesOf(st) == {f \in Frames : \E t \in Threads : \E i \in 1..Len(st[t]) : st[t][i] = f}

\* The buffers that the application holds or the transactions F have.
Roots(hd, F) == {c \in Cells : hd[c] > 0 \/ \E f \in F : f.buf = c}

\* What nothing hurt and what can be used has the content that was put.
Wanted(h, F) == \A f \in F : ~f.hurt /\ Safe(h, f.buf) => Content(h, f.buf) = f.want

\* The pointers to x from the logdb_puts under way, from the stacks and from the
\* history.
Works(wk, x) == Cardinality({t \in Threads : wk[t] # <<>> /\ Head(wk[t]).buf = x})

Stacked(st, x) == {y \in Threads \X (1..MaxDepth) :
                    LET s == st[y[1]] IN y[2] <= Len(s) /\ s[Len(s) + 1 - y[2]].buf = x}
Stacks(st, x) == Cardinality(Stacked(st, x))

Leaks(lk, x) == IF x \in lk THEN 1 ELSE 0

\* The pointers from outside of the heap.
Ext(hd, wk, st, lk) == [x \in Cells |-> hd[x] + Works(wk, x) + Stacks(st, x) + Leaks(lk, x)]

\* A buffer that was leaked, that a transaction has or that follows another has one
\* reference.
Sole(h, F, lk) ==
    \A d \in Cells : (d \in lk \/ (\E f \in F : f.buf = d) \/ (\E e \in Cells : h[e].next = d))
                     => h[d].refcnt = 1

\* Only copies follow in a chain.
CopiesFollow(h) == \A c \in Cells : h[c].next # NULL => h[h[c].next].orig # NULL

\* The types of what points to buffers.
Typed(hd, st, wk, lk, bo) ==
    /\ hd \in [Cells -> 0..MaxHeld]
    /\ st \in [Threads -> Seq(Frames)] /\ \A t \in Threads : Len(st[t]) <= MaxDepth
    /\ wk \in [Threads -> Seq(Frames)] /\ \A t \in Threads : Len(wk[t]) <= 1
    /\ lk \subseteq Cells
    /\ bo \in BOOLEAN

\* The inductive invariant, in a form that also describes what there is in the
\* middle of a call.
Core(h, hd, st, wk, lk, bo) ==
    LET F == FramesOf(st) \cup FramesOf(wk) IN
    /\ Typed(hd, st, wk, lk, bo)
    /\ Good(h, Roots(hd, F))
    /\ Wanted(h, F)
    /\ ~bo => /\ Counted(h, Ext(hd, wk, st, lk))
              /\ Sole(h, F, lk)
              /\ CopiesFollow(h)

\* The inductive invariant.
TxnInv ==
    /\ Core(heap, held, stack, work, leaked, borrowed)
    /\ made \in 0..MaxMade
    /\ puts \in 0..MaxPuts
    /\ torn = FALSE

\* The parts of a transaction have their types.
LEMMA FrameType ==
  ASSUME NEW f \in Frames
  PROVE  f.buf \in Places /\ f.want \in Seq(Units) /\ f.hurt \in BOOLEAN
  BY DEF Frames, Places

\* And what is made of such parts is a transaction.
LEMMA MakeFrame ==
  ASSUME NEW b \in Places, NEW w \in Seq(Units), NEW u \in BOOLEAN
  PROVE  /\ Frame(b, w, u) \in Frames
         /\ Frame(b, w, u).buf = b /\ Frame(b, w, u).want = w /\ Frame(b, w, u).hurt = u
  BY DEF Frame, Frames, Places

\* The sets that are counted are finite.
LEMMA CountsFinite ==
  ASSUME NEW st, NEW wk, NEW x
  PROVE  /\ IsFiniteSet(Stacked(st, x)) /\ Stacks(st, x) \in Nat
         /\ Works(wk, x) \in Nat
         /\ Stacked(st, x) # {} => Stacks(st, x) >= 1
         /\ (\E t \in Threads : wk[t] # <<>> /\ Head(wk[t]).buf = x) => Works(wk, x) >= 1
<1>1. IsFiniteSet(Threads) /\ MaxDepth \in Nat
  BY TxnAssumption DEF TxnAssumption
<1>2. IsFiniteSet(1..MaxDepth)
  BY <1>1, FS_Interval
<1>3. IsFiniteSet(Threads \X (1..MaxDepth))
  BY <1>1, <1>2, FS_Product
<1>4. IsFiniteSet(Stacked(st, x))
  BY <1>3, FS_Subset DEF Stacked
<1> DEFINE W == {t \in Threads : wk[t] # <<>> /\ Head(wk[t]).buf = x}
<1>5. IsFiniteSet(W)
  BY <1>1, FS_Subset
<1>6. /\ Cardinality(Stacked(st, x)) \in Nat /\ Cardinality(W) \in Nat
      /\ (Cardinality(Stacked(st, x)) = 0 <=> Stacked(st, x) = {})
      /\ (Cardinality(W) = 0 <=> W = {})
  BY <1>4, <1>5, FS_CardinalityType, FS_EmptySet
<1>7. Works(wk, x) = Cardinality(W) /\ Stacks(st, x) = Cardinality(Stacked(st, x))
  BY DEF Works, Stacks
<1>8. (\E t \in Threads : wk[t] # <<>> /\ Head(wk[t]).buf = x) => W # {}
  OBVIOUS
<1> HIDE DEF W
<1> QED
  BY <1>4, <1>6, <1>7, <1>8

\* The pointers from outside are counted by a natural number, to which each kind
\* of pointer adds.
ExtSound(hd, wk, st, lk) ==
    /\ Ext(hd, wk, st, lk) \in [Cells -> Nat]
    /\ \A x \in Cells :
        /\ Ext(hd, wk, st, lk)[x] = hd[x] + Works(wk, x) + Stacks(st, x) + Leaks(lk, x)
        /\ hd[x] \in Nat /\ Works(wk, x) \in Nat /\ Stacks(st, x) \in Nat /\ Leaks(lk, x) \in 0..1
        /\ (\E f \in FramesOf(wk) : f.buf = x) => Works(wk, x) >= 1
        /\ (\E f \in FramesOf(st) : f.buf = x) => Stacks(st, x) >= 1
        /\ x \in lk => Leaks(lk, x) = 1

\* The sums of finite counts.
LEMMA ExtIs ==
  ASSUME NEW hd, NEW st, NEW wk, NEW lk, NEW bo, Typed(hd, st, wk, lk, bo)
  PROVE  ExtSound(hd, wk, st, lk)
<1>1. ASSUME NEW x \in Cells
      PROVE  /\ hd[x] \in Nat /\ Works(wk, x) \in Nat /\ Stacks(st, x) \in Nat /\ Leaks(lk, x) \in 0..1
             /\ (\E f \in FramesOf(wk) : f.buf = x) => Works(wk, x) >= 1
             /\ (\E f \in FramesOf(st) : f.buf = x) => Stacks(st, x) >= 1
             /\ x \in lk => Leaks(lk, x) = 1
  <2>1. hd[x] \in Nat
    BY TxnAssumption DEF Typed, TxnAssumption
  <2>2. Works(wk, x) \in Nat /\ Stacks(st, x) \in Nat
    BY CountsFinite
  <2>3. ASSUME NEW f \in FramesOf(wk), f.buf = x PROVE Works(wk, x) >= 1
    <3>0. PICK t \in Threads : \E i \in 1..Len(wk[t]) : wk[t][i] = f
      BY DEF FramesOf
    <3>1. PICK i \in 1..Len(wk[t]) : wk[t][i] = f
      BY <3>0
    <3>2. wk[t] \in Seq(Frames) /\ Len(wk[t]) <= 1
      BY DEF Typed
    <3>3. wk[t] # <<>> /\ Head(wk[t]) = f
      BY <3>1, <3>2
    <3> QED
      BY <2>3, <3>3, CountsFinite
  <2>4. ASSUME NEW f \in FramesOf(st), f.buf = x PROVE Stacks(st, x) >= 1
    <3>0. PICK t \in Threads : \E i \in 1..Len(st[t]) : st[t][i] = f
      BY DEF FramesOf
    <3>1. PICK i \in 1..Len(st[t]) : st[t][i] = f
      BY <3>0
    <3>2. st[t] \in Seq(Frames) /\ Len(st[t]) <= MaxDepth /\ MaxDepth \in Nat
      BY TxnAssumption DEF Typed, TxnAssumption
    <3> DEFINE p == Len(st[t]) + 1 - i
    <3>3. p \in 1..MaxDepth /\ p <= Len(st[t]) /\ Len(st[t]) + 1 - p = i
      BY <3>2
    <3> HIDE DEF p
    <3>4. <<t, p>> \in Stacked(st, x)
      BY <2>4, <3>1, <3>3 DEF Stacked
    <3> QED
      BY <3>4, CountsFinite
  <2>5. Leaks(lk, x) \in 0..1 /\ (x \in lk => Leaks(lk, x) = 1)
    BY DEF Leaks
  <2> QED
    BY <2>1, <2>2, <2>3, <2>4, <2>5
<1>2. \A x \in Cells : Ext(hd, wk, st, lk)[x] = hd[x] + Works(wk, x) + Stacks(st, x) + Leaks(lk, x)
  BY DEF Ext
<1>3. Ext(hd, wk, st, lk) \in [Cells -> Nat]
  BY <1>1 DEF Ext
<1> QED
  BY <1>1, <1>2, <1>3 DEF ExtSound

\* Two stacks or works that hold the same buffers have the same pointers.
SameBufs(s2, s1) ==
    \A t \in Threads : Len(s2[t]) = Len(s1[t]) /\ \A i \in 1..Len(s1[t]) : s2[t][i].buf = s1[t][i].buf

\* Counting the pointers looks at the buffers only.
LEMMA SameBufsCount ==
  ASSUME NEW s1 \in [Threads -> Seq(Frames)], NEW s2 \in [Threads -> Seq(Frames)],
         SameBufs(s2, s1), NEW x
  PROVE  Stacks(s2, x) = Stacks(s1, x) /\ Works(s2, x) = Works(s1, x)
<1>1. ASSUME NEW y \in Threads \X (1..MaxDepth)
      PROVE  y \in Stacked(s2, x) <=> y \in Stacked(s1, x)
  <2>1. y[1] \in Threads /\ y[2] \in Int /\ 1 <= y[2]
    BY TxnAssumption DEF TxnAssumption
  <2>2. Len(s2[y[1]]) = Len(s1[y[1]]) /\ Len(s1[y[1]]) \in Nat
    BY <2>1 DEF SameBufs
  <2>3. y[2] <= Len(s1[y[1]]) =>
          s2[y[1]][Len(s1[y[1]]) + 1 - y[2]].buf = s1[y[1]][Len(s1[y[1]]) + 1 - y[2]].buf
    BY <2>1, <2>2 DEF SameBufs
  <2> QED
    BY <2>2, <2>3 DEF Stacked
<1>2. Stacked(s2, x) = Stacked(s1, x)
  BY <1>1 DEF Stacked
<1>3. ASSUME NEW t \in Threads
      PROVE  (s2[t] # <<>> /\ Head(s2[t]).buf = x) <=> (s1[t] # <<>> /\ Head(s1[t]).buf = x)
  <2>1. s1[t] \in Seq(Frames) /\ s2[t] \in Seq(Frames) /\ Len(s2[t]) = Len(s1[t])
    BY DEF SameBufs
  <2>2. CASE s1[t] = <<>>
    BY <2>1, <2>2
  <2>3. CASE s1[t] # <<>>
    <3>1. 1 \in 1..Len(s1[t]) /\ s2[t] # <<>> /\ Head(s1[t]) = s1[t][1] /\ Head(s2[t]) = s2[t][1]
      BY <2>1, <2>3
    <3>2. s2[t][1].buf = s1[t][1].buf
      BY <3>1 DEF SameBufs
    <3> QED
      BY <2>3, <3>1, <3>2
  <2> QED
    BY <2>2, <2>3
<1>4. {t \in Threads : s2[t] # <<>> /\ Head(s2[t]).buf = x}
        = {t \in Threads : s1[t] # <<>> /\ Head(s1[t]).buf = x}
  BY <1>3
<1> QED
  BY <1>2, <1>4 DEF Stacks, Works

\* Whether b is x, as a number.
One(b, x) == IF b = x THEN 1 ELSE 0

\* A stack without its first transaction.
Shorter(s1, st, t) ==
    /\ st \in [Threads -> Seq(Frames)]
    /\ t \in Threads /\ st[t] # <<>> /\ Len(st[t]) <= MaxDepth
    /\ s1[t] = Tail(st[t])
    /\ \A u \in Threads : u # t => s1[u] = st[u]

\* A stack without its innermost transaction has one pointer less to its buffer.
LEMMA StacksPop ==
  ASSUME NEW st, NEW t, NEW s1, Shorter(s1, st, t), NEW x
  PROVE  Stacks(st, x) = Stacks(s1, x) + One(Head(st[t]).buf, x)
<1> DEFINE L == Len(st[t])
           p == <<t, L>>
           A == Stacked(st, x)
           B == Stacked(s1, x)
<1>1. /\ t \in Threads /\ st[t] \in Seq(Frames) /\ L \in Nat /\ L >= 1 /\ L \in 1..MaxDepth /\ MaxDepth \in Nat
      /\ Head(st[t]) = st[t][1]
  BY TxnAssumption DEF TxnAssumption, Shorter
<1>2. s1[t] = Tail(st[t]) /\ Len(s1[t]) = L - 1 /\ \A u \in Threads : u # t => s1[u] = st[u]
  BY <1>1 DEF Shorter
<1>3. \A i \in 1..(L - 1) : s1[t][i] = st[t][i + 1]
  BY <1>1, <1>2
<1> HIDE DEF L
<1>4. ASSUME NEW y \in Threads \X (1..MaxDepth), y # p
      PROVE  y \in A <=> y \in B
  <2>1. y = <<y[1], y[2]>> /\ y[1] \in Threads /\ y[2] \in 1..MaxDepth
    OBVIOUS
  <2>2. CASE y[1] # t
    BY <1>2, <2>1, <2>2 DEF Stacked
  <2>3. CASE y[1] = t
    <3>1. y[2] # L
      BY <1>4, <2>1, <2>3
    <3>2. y[2] <= L <=> y[2] <= L - 1
      BY <1>1, <2>1, <3>1
    <3>3. y[2] <= L - 1 => L - y[2] \in 1..(L - 1) /\ L - 1 + 1 - y[2] = L - y[2] /\ L - y[2] + 1 = L + 1 - y[2]
      BY <1>1, <2>1
    <3>4. y[2] <= L - 1 => s1[t][L - 1 + 1 - y[2]] = st[t][L + 1 - y[2]]
      BY <1>3, <3>3
    <3>5. y \in A <=> (y[2] <= L /\ st[t][L + 1 - y[2]].buf = x)
      BY <2>3 DEF Stacked, L
    <3>6. y \in B <=> (y[2] <= L - 1 /\ s1[t][L - 1 + 1 - y[2]].buf = x)
      BY <1>2, <2>3 DEF Stacked
    <3> QED
      BY <3>2, <3>4, <3>5, <3>6
  <2> QED
    BY <2>2, <2>3
<1>5. p \in Threads \X (1..MaxDepth) /\ p[1] = t /\ p[2] = L
  BY <1>1
<1>6. p \in A <=> st[t][1].buf = x
  <2>1. L + 1 - L = 1 /\ L <= L
    BY <1>1
  <2> QED
    BY <1>5, <2>1 DEF Stacked, L
<1>7. p \notin B
  <2>1. ~(L <= L - 1)
    BY <1>1
  <2> QED
    BY <1>2, <1>5, <2>1 DEF Stacked
<1>8. A \subseteq Threads \X (1..MaxDepth) /\ B \subseteq Threads \X (1..MaxDepth)
  BY DEF Stacked
<1> HIDE DEF A, B, p
<1>9. A = IF st[t][1].buf = x THEN B \cup {p} ELSE B
  <2>1. \A y : y \in A /\ y # p => y \in B
    BY <1>4, <1>8
  <2>2. \A y : y \in B => y \in A
    BY <1>4, <1>7, <1>8
  <2>3. p \in A => A = B \cup {p}
    BY <2>1, <2>2
  <2>4. p \notin A => A = B
    BY <2>1, <2>2
  <2> QED
    BY <1>6, <2>3, <2>4
<1>10. IsFiniteSet(B) /\ Stacks(s1, x) \in Nat
  BY CountsFinite DEF B
<1>11. Cardinality(B \cup {p}) = Cardinality(B) + 1
  BY <1>7, <1>10, OneMore
<1>12. Stacks(st, x) = Cardinality(A) /\ Stacks(s1, x) = Cardinality(B)
  BY DEF Stacks, A, B
<1> QED
  BY <1>1, <1>9, <1>10, <1>11, <1>12 DEF One

\* logdb_put's own transaction, when it is there and when not.
LEMMA WorksPop ==
  ASSUME NEW wk \in [Threads -> Seq(Frames)], NEW t \in Threads, wk[t] # <<>>,
         NEW w1, w1 = [wk EXCEPT ![t] = <<>>], NEW x
  PROVE  Works(wk, x) = Works(w1, x) + One(Head(wk[t]).buf, x)
<1> DEFINE A == {u \in Threads : wk[u] # <<>> /\ Head(wk[u]).buf = x}
           B == {u \in Threads : w1[u] # <<>> /\ Head(w1[u]).buf = x}
<1>1. w1[t] = <<>> /\ \A u \in Threads : u # t => w1[u] = wk[u]
  OBVIOUS
<1>2. A = IF Head(wk[t]).buf = x THEN B \cup {t} ELSE B
  BY <1>1
<1>3. t \notin B
  BY <1>1
<1>4. IsFiniteSet(Threads)
  BY TxnAssumption DEF TxnAssumption
<1>5. IsFiniteSet(B)
  BY <1>4, FS_Subset
<1>6. Cardinality(B) \in Nat /\ Cardinality(B \cup {t}) = Cardinality(B) + 1
  BY <1>3, <1>5, FS_CardinalityType, OneMore
<1>7. Works(wk, x) = Cardinality(A) /\ Works(w1, x) = Cardinality(B)
  BY DEF Works
<1> HIDE DEF A, B
<1> QED
  BY <1>2, <1>6, <1>7 DEF One

\* f is t's innermost transaction, that of its logdb_put or one on its stack, and s
\* are the outer ones.
Popped(st, wk, t, f, s) ==
    \/ wk[t] # <<>> /\ f = Head(wk[t]) /\ s = st[t]
    \/ wk[t] = <<>> /\ st[t] # <<>> /\ f = Head(st[t]) /\ s = Tail(st[t])

\* Without f the types are right, there is no new transaction, and the pointers are
\* less by that of f.
PopSound(hd, st, wk, lk, bo, t, f, s, s1, w1) ==
    /\ f \in Frames /\ f \in FramesOf(st) \cup FramesOf(wk)
    /\ s \in Seq(Frames) /\ s1[t] = s
    /\ \A i \in 1..Len(s) : s[i] \in FramesOf(st)
    /\ Typed(hd, s1, w1, lk, bo)
    /\ FramesOf(s1) \subseteq FramesOf(st) /\ FramesOf(w1) \subseteq FramesOf(wk)
    /\ \A x \in Cells : Ext(hd, wk, st, lk)[x] = Ext(hd, w1, s1, lk)[x] + One(f.buf, x)

\* t's innermost transaction is taken away.
LEMMA PopIs ==
  ASSUME NEW hd, NEW st, NEW wk, NEW lk, NEW bo, Typed(hd, st, wk, lk, bo),
         NEW t \in Threads, NEW f, NEW s, Popped(st, wk, t, f, s),
         NEW s1, s1 = [st EXCEPT ![t] = s], NEW w1, w1 = [wk EXCEPT ![t] = <<>>]
  PROVE  PopSound(hd, st, wk, lk, bo, t, f, s, s1, w1)
<1>1. /\ st \in [Threads -> Seq(Frames)] /\ \A u \in Threads : Len(st[u]) <= MaxDepth
      /\ wk \in [Threads -> Seq(Frames)] /\ \A u \in Threads : Len(wk[u]) <= 1
      /\ st[t] \in Seq(Frames) /\ wk[t] \in Seq(Frames) /\ Len(st[t]) <= MaxDepth
      /\ MaxDepth \in Nat
  BY TxnAssumption DEF Typed, TxnAssumption
<1>2. \A v, u, i : v \in {st, wk} /\ u \in Threads /\ i \in 1..Len(v[u]) => v[u][i] \in FramesOf(v)
  <2> SUFFICES ASSUME NEW v \in {st, wk}, NEW u \in Threads, NEW i \in 1..Len(v[u])
               PROVE  v[u][i] \in FramesOf(v)
    OBVIOUS
  <2>1. v[u] \in Seq(Frames)
    BY <1>1
  <2>2. v[u][i] \in Frames
    BY <2>1
  <2> QED
    BY <2>2 DEF FramesOf
<1>3. /\ f \in Frames /\ f \in FramesOf(st) \cup FramesOf(wk)
      /\ s \in Seq(Frames) /\ Len(s) <= MaxDepth
      /\ \A i \in 1..Len(s) : \E k \in 1..Len(st[t]) : s[i] = st[t][k]
  <2>1. CASE wk[t] # <<>> /\ f = Head(wk[t]) /\ s = st[t]
    <3>1. f = wk[t][1] /\ 1 \in 1..Len(wk[t]) /\ f \in Frames
      BY <1>1, <2>1
    <3> QED
      BY <1>1, <1>2, <2>1, <3>1
  <2>2. CASE wk[t] = <<>> /\ st[t] # <<>> /\ f = Head(st[t]) /\ s = Tail(st[t])
    <3>1. f = st[t][1] /\ 1 \in 1..Len(st[t]) /\ f \in Frames
      BY <1>1, <2>2
    <3>2. s \in Seq(Frames) /\ Len(s) = Len(st[t]) - 1 /\ Len(st[t]) \in Nat
      BY <1>1, <2>2
    <3>3. \A i \in 1..Len(s) : s[i] = st[t][i + 1] /\ i + 1 \in 1..Len(st[t])
      BY <1>1, <2>2
    <3>4. Len(s) <= MaxDepth
      BY <1>1, <3>2
    <3>5. f \in FramesOf(st)
      BY <1>2, <3>1
    <3> QED
      BY <3>1, <3>2, <3>3, <3>4, <3>5
  <2> QED
    BY <2>1, <2>2 DEF Popped
<1>4. \A i \in 1..Len(s) : s[i] \in FramesOf(st)
  BY <1>2, <1>3
<1>5. /\ s1 \in [Threads -> Seq(Frames)] /\ s1[t] = s /\ \A u \in Threads : u # t => s1[u] = st[u]
      /\ w1 \in [Threads -> Seq(Frames)] /\ w1[t] = <<>> /\ \A u \in Threads : u # t => w1[u] = wk[u]
  <2>1. <<>> \in Seq(Frames)
    OBVIOUS
  <2> QED
    BY <1>1, <1>3, <2>1
<1>6. Typed(hd, s1, w1, lk, bo)
  <2>1. \A u \in Threads : Len(s1[u]) <= MaxDepth
    BY <1>1, <1>3, <1>5
  <2>2. \A u \in Threads : Len(w1[u]) <= 1
    BY <1>1, <1>5
  <2> QED
    BY <1>5, <2>1, <2>2 DEF Typed
<1>7. FramesOf(s1) \subseteq FramesOf(st)
  <2> SUFFICES ASSUME NEW g \in FramesOf(s1) PROVE g \in FramesOf(st)
    OBVIOUS
  <2>1. PICK u \in Threads : \E i \in 1..Len(s1[u]) : s1[u][i] = g
    BY DEF FramesOf
  <2>2. CASE u = t
    BY <1>4, <1>5, <2>1, <2>2
  <2>3. CASE u # t
    BY <1>5, <2>1, <2>3 DEF FramesOf
  <2> QED
    BY <2>2, <2>3
<1>8. FramesOf(w1) \subseteq FramesOf(wk)
  <2> SUFFICES ASSUME NEW g \in FramesOf(w1) PROVE g \in FramesOf(wk)
    OBVIOUS
  <2>1. PICK u \in Threads : \E i \in 1..Len(w1[u]) : w1[u][i] = g
    BY DEF FramesOf
  <2>2. u # t
    BY <1>5, <2>1
  <2> QED
    BY <1>5, <2>1, <2>2 DEF FramesOf
<1>9. ASSUME NEW x \in Cells
      PROVE  Ext(hd, wk, st, lk)[x] = Ext(hd, w1, s1, lk)[x] + One(f.buf, x)
  <2>1. /\ Ext(hd, wk, st, lk)[x] = hd[x] + Works(wk, x) + Stacks(st, x) + Leaks(lk, x)
        /\ hd[x] \in Nat /\ Works(wk, x) \in Nat /\ Stacks(st, x) \in Nat /\ Leaks(lk, x) \in 0..1
    BY ExtIs DEF ExtSound
  <2>2. /\ Ext(hd, w1, s1, lk)[x] = hd[x] + Works(w1, x) + Stacks(s1, x) + Leaks(lk, x)
        /\ Works(w1, x) \in Nat /\ Stacks(s1, x) \in Nat
    BY <1>6, ExtIs DEF ExtSound
  <2>3. CASE wk[t] # <<>> /\ f = Head(wk[t]) /\ s = st[t]
    <3>1. s1 = st
      BY <1>1, <2>3
    <3>2. Works(wk, x) = Works(w1, x) + One(f.buf, x)
      BY <1>1, <2>3, WorksPop
    <3>3. Stacks(s1, x) = Stacks(st, x) /\ One(f.buf, x) \in Nat
      BY <3>1 DEF One
    <3> QED
      BY <2>1, <2>2, <3>2, <3>3
  <2>4. CASE wk[t] = <<>> /\ st[t] # <<>> /\ f = Head(st[t]) /\ s = Tail(st[t])
    <3>1. w1 = wk
      BY <1>1, <2>4
    <3>2. s1[t] = Tail(st[t]) /\ \A u \in Threads : u # t => s1[u] = st[u]
      BY <1>5, <2>4
    <3>3. Stacks(st, x) = Stacks(s1, x) + One(f.buf, x)
      <4>1. Stacks(st, x) = Stacks(s1, x) + One(Head(st[t]).buf, x)
        <5>1. Shorter(s1, st, t)
          BY <1>1, <2>4, <3>2 DEF Shorter
        <5> QED
          BY <5>1, StacksPop
      <4> QED
        BY <2>4, <4>1
    <3>4. Works(w1, x) = Works(wk, x) /\ One(f.buf, x) \in Nat
      BY <3>1 DEF One
    <3> QED
      BY <2>1, <2>2, <3>3, <3>4
  <2> QED
    BY <2>3, <2>4 DEF Popped
<1> QED
  BY <1>3, <1>4, <1>5, <1>6, <1>7, <1>8, <1>9 DEF PopSound

\* Good is about fewer buffers when there are fewer roots.
LEMMA GoodLess ==
  ASSUME NEW h, NEW R, Good(h, R), NEW Q, Q \subseteq R
  PROVE  Good(h, Q)
  BY DEF Good

\* A buffer with a pointer to it from outside or from a chain is counted.
LEMMA CountedOnce ==
  ASSUME NEW h, NEW hd, NEW st, NEW wk, NEW lk, NEW bo, Typed(hd, st, wk, lk, bo),
         Counted(h, Ext(hd, wk, st, lk)), NEW d \in Cells,
         \/ d \in lk \/ hd[d] > 0
         \/ \E f \in FramesOf(st) \cup FramesOf(wk) : f.buf = d
         \/ \E e \in Cells : h[e].next = d
  PROVE  h[d].refcnt > 0
<1> DEFINE E == Ext(hd, wk, st, lk)
<1>1. h[d].refcnt = E[d] + Origs(h, d) + Nexts(h, d)
  BY DEF Counted
<1>2. /\ Origs(h, d) \in Nat /\ Nexts(h, d) \in Nat
      /\ (\E e \in Cells : h[e].next = d) => Nexts(h, d) >= 1
  BY PointerCounts
<1>3. /\ E[d] = hd[d] + Works(wk, d) + Stacks(st, d) + Leaks(lk, d)
      /\ hd[d] \in Nat /\ Works(wk, d) \in Nat /\ Stacks(st, d) \in Nat /\ Leaks(lk, d) \in 0..1
      /\ (\E f \in FramesOf(wk) : f.buf = d) => Works(wk, d) >= 1
      /\ (\E f \in FramesOf(st) : f.buf = d) => Stacks(st, d) >= 1
      /\ d \in lk => Leaks(lk, d) = 1
  BY ExtIs DEF ExtSound
<1> HIDE DEF E
<1> QED
  BY <1>1, <1>2, <1>3

\* One that the application holds is neither leaked, a transaction's nor in a chain.
LEMMA HeldNotSole ==
  ASSUME NEW h, NEW hd, NEW st, NEW wk, NEW lk, NEW bo, Core(h, hd, st, wk, lk, bo), ~bo,
         NEW d \in Cells, hd[d] > 0
  PROVE  /\ d \notin lk
         /\ \A f \in FramesOf(st) \cup FramesOf(wk) : f.buf # d
         /\ \A e \in Cells : h[e].next # d
<1> DEFINE E == Ext(hd, wk, st, lk)
<1>0. Typed(hd, st, wk, lk, bo) /\ Counted(h, E) /\ Sole(h, FramesOf(st) \cup FramesOf(wk), lk)
  BY DEF Core
<1>1. h[d].refcnt = E[d] + Origs(h, d) + Nexts(h, d)
  BY <1>0 DEF Counted
<1>2. /\ Origs(h, d) \in Nat /\ Nexts(h, d) \in Nat
      /\ (\E e \in Cells : h[e].next = d) => Nexts(h, d) >= 1
  BY PointerCounts
<1>3. /\ E[d] = hd[d] + Works(wk, d) + Stacks(st, d) + Leaks(lk, d)
      /\ hd[d] \in Nat /\ Works(wk, d) \in Nat /\ Stacks(st, d) \in Nat /\ Leaks(lk, d) \in 0..1
      /\ (\E f \in FramesOf(wk) : f.buf = d) => Works(wk, d) >= 1
      /\ (\E f \in FramesOf(st) : f.buf = d) => Stacks(st, d) >= 1
      /\ d \in lk => Leaks(lk, d) = 1
  BY <1>0, ExtIs DEF ExtSound
<1>4. ASSUME d \in lk \/ (\E f \in FramesOf(st) \cup FramesOf(wk) : f.buf = d)
             \/ (\E e \in Cells : h[e].next = d)
      PROVE  FALSE
  <2>1. h[d].refcnt = 1
    BY <1>0, <1>4 DEF Sole
  <2>2. Works(wk, d) >= 1 \/ Stacks(st, d) >= 1 \/ Leaks(lk, d) = 1 \/ Nexts(h, d) >= 1
    BY <1>2, <1>3, <1>4
  <2> HIDE DEF E
  <2> QED
    BY <1>1, <1>2, <1>3, <2>1, <2>2
<1> QED
  BY <1>4

\* What has been freed, and pointers that are no longer there.
LEMMA CoreShrink ==
  ASSUME NEW h, NEW hd, NEW st, NEW wk, NEW lk, NEW bo, Core(h, hd, st, wk, lk, bo),
         NEW j, NEW R, R = Roots(hd, FramesOf(st) \cup FramesOf(wk)), Good(j, R), Shrunk(j, h),
         \A x \in Places : Keeps(h, j, x),
         NEW d2, NEW s2, NEW w2, Typed(d2, s2, w2, lk, bo),
         FramesOf(s2) \subseteq FramesOf(st), FramesOf(w2) \subseteq FramesOf(wk),
         \A x \in Cells : d2[x] > 0 => hd[x] > 0,
         ~bo => Counted(j, Ext(d2, w2, s2, lk))
  PROVE  Core(j, d2, s2, w2, lk, bo)
<1> DEFINE F == FramesOf(st) \cup FramesOf(wk)
           G == FramesOf(s2) \cup FramesOf(w2)
<1>1. G \subseteq F /\ F \subseteq Frames
  BY DEF FramesOf
<1>2. Good(j, Roots(d2, G))
  <2>1. Roots(d2, G) \subseteq R
    BY <1>1 DEF Roots
  <2> QED
    BY <2>1, GoodLess
<1>3. Wanted(j, G)
  <2> SUFFICES ASSUME NEW f \in G, ~f.hurt, Safe(j, f.buf) PROVE Content(j, f.buf) = f.want
    BY DEF Wanted
  <2>1. f.buf \in Places
    BY <1>1, FrameType
  <2>2. Safe(h, f.buf) /\ Content(j, f.buf) = Content(h, f.buf)
    BY <2>1 DEF Keeps
  <2>3. Wanted(h, F)
    BY DEF Core
  <2> QED
    BY <1>1, <2>2, <2>3 DEF Wanted
<1>4. ASSUME NEW e \in Cells, j[e].next # NULL
      PROVE  h[e].next = j[e].next
  BY <1>4, BlankIs DEF Shrunk, SamePointers
<1>5. ASSUME ~bo
      PROVE  Counted(j, Ext(d2, w2, s2, lk)) /\ Sole(j, G, lk) /\ CopiesFollow(j)
  <2>1. Sole(h, F, lk) /\ CopiesFollow(h)
    BY <1>5 DEF Core
  <2>2. h \in Heaps /\ j \in Heaps
    BY DEF Core, Good
  <2>3. ASSUME NEW d \in Cells,
               d \in lk \/ (\E f \in G : f.buf = d) \/ (\E e \in Cells : j[e].next = d)
        PROVE  j[d].refcnt = 1
    <3>1. j[d].refcnt > 0
      BY <1>5, <2>3, CountedOnce
    <3>2. j[d] # Blank
      BY <3>1, BlankIs
    <3>3. j[d].refcnt <= h[d].refcnt
      BY <3>2 DEF Shrunk
    <3>4. \A e \in Cells : j[e].next = d => h[e].next = d
      BY <1>4, CellsAre
    <3>5. h[d].refcnt = 1
      BY <1>1, <2>1, <2>3, <3>4 DEF Sole
    <3>6. j[d].refcnt \in Nat
      BY <2>2, CellType
    <3> QED
      BY <3>1, <3>3, <3>5, <3>6
  <2>4. ASSUME NEW c \in Cells, j[c].next # NULL PROVE j[j[c].next].orig # NULL
    <3> DEFINE d == j[c].next
    <3>1. d \in Cells /\ h[c].next = d
      BY <1>4, <2>2, <2>4, CellType DEF Places
    <3>2. j[d].refcnt = 1
      BY <2>3, <3>1
    <3>3. j[d] # Blank
      BY <3>2, BlankIs
    <3>4. j[d].orig = h[d].orig
      BY <3>1, <3>3 DEF Shrunk, SamePointers
    <3>5. h[h[c].next].orig # NULL
      BY <2>1, <2>4, <3>1 DEF CopiesFollow
    <3> QED
      BY <3>1, <3>4, <3>5
  <2> QED
    BY <1>5, <2>3, <2>4 DEF Sole, CopiesFollow
<1> HIDE DEF F
<1> QED
  BY <1>2, <1>3, <1>5 DEF Core

\* What logdb_txn_close leaves.
CloseSound(h, hd, st, wk, lk, bo, s1, w1, j) ==
    /\ Core(j, hd, s1, w1, lk, bo)
    /\ \A x \in Places : Keeps(h, j, x)
    /\ Good(j, Roots(hd, FramesOf(st) \cup FramesOf(wk)))

\* logdb_txn_close takes a transaction off and frees its buffer.
LEMMA CoreClose ==
  ASSUME NEW h, NEW hd, NEW st, NEW wk, NEW lk, NEW bo, Core(h, hd, st, wk, lk, bo),
         NEW t \in Threads, NEW f, NEW s, Popped(st, wk, t, f, s),
         NEW s1, s1 = [st EXCEPT ![t] = s], NEW w1, w1 = [wk EXCEPT ![t] = <<>>],
         NEW j, j = Closed(h, f)
  PROVE  CloseSound(h, hd, st, wk, lk, bo, s1, w1, j)
<1> DEFINE R == Roots(hd, FramesOf(st) \cup FramesOf(wk))
           E == Ext(hd, wk, st, lk)
           D == Ext(hd, w1, s1, lk)
<1>0. Typed(hd, st, wk, lk, bo) /\ Good(h, R) /\ (~bo => Counted(h, E))
  BY DEF Core
<1>1. /\ f \in Frames
      /\ Typed(hd, s1, w1, lk, bo)
      /\ FramesOf(s1) \subseteq FramesOf(st) /\ FramesOf(w1) \subseteq FramesOf(wk)
      /\ \A x \in Cells : E[x] = D[x] + One(f.buf, x)
  <2>1. PopSound(hd, st, wk, lk, bo, t, f, s, s1, w1)
    BY <1>0, PopIs
  <2> QED
    BY <2>1 DEF PopSound
<1>2. E \in [Cells -> Nat] /\ D \in [Cells -> Nat]
  BY <1>0, <1>1, ExtIs DEF ExtSound
<1> HIDE DEF R, E, D
<1>3. /\ Good(j, R) /\ Shrunk(j, h)
      /\ \A x \in Places : Keeps(h, j, x)
      /\ ~bo => Counted(j, D)
  <2>1. CASE f.buf = NULL
    <3>1. j = h
      BY <2>1 DEF Closed
    <3>2. h \in Heaps /\ Shrunk(h, h)
      BY <1>0, CellType DEF Good, Shrunk, SamePointers
    <3>3. \A x \in Places : Keeps(h, h, x)
      BY DEF Keeps
    <3>4. \A x \in Cells : E[x] = D[x]
      BY <1>1, <1>2, <2>1, CellsAre DEF One
    <3>5. E = D
      BY <1>2, <3>4
    <3> QED
      BY <1>0, <3>1, <3>2, <3>3, <3>5
  <2>2. CASE f.buf # NULL
    <3> DEFINE c == f.buf
    <3>1. j = Free(h, c) /\ c \in Cells
      BY <1>1, <2>2, FrameType DEF Closed, Places
    <3>2. \A x \in Cells : E[x] = D[x] + One(c, x)
      BY <1>1
    <3> HIDE DEF c
    <3>3. /\ Good(j, R) /\ Shrunk(j, h)
          /\ \A x \in Places : Keeps(h, j, x)
          /\ \A B \in [Cells -> Nat] :
              Counted(h, B) /\ B[c] > 0 => Counted(j, [B EXCEPT ![c] = @ - 1])
      BY <1>0, <3>1, FreeGood
    <3>4. E[c] = D[c] + 1 /\ E[c] > 0 /\ \A x \in Cells : x # c => E[x] = D[x]
      BY <1>2, <3>1, <3>2 DEF One
    <3>5. [E EXCEPT ![c] = @ - 1] = D
      <4>1. \A x \in Cells : [E EXCEPT ![c] = @ - 1][x] = D[x]
        BY <1>2, <3>1, <3>4
      <4> QED
        BY <1>2, <4>1
    <3>6. ~bo => Counted(j, D)
      BY <1>0, <1>2, <3>3, <3>4, <3>5
    <3> QED
      BY <3>3, <3>6
  <2> QED
    BY <2>1, <2>2
<1>4. Core(j, hd, s1, w1, lk, bo)
  BY <1>1, <1>3, CoreShrink DEF R, D
<1> QED
  BY <1>3, <1>4 DEF R, CloseSound

\* logdb_buffer_free by the application.
LEMMA CoreDispose ==
  ASSUME NEW h, NEW hd, NEW st, NEW wk, NEW lk, NEW bo, Core(h, hd, st, wk, lk, bo),
         NEW c \in Cells, hd[c] > 0, NEW d2, d2 = [hd EXCEPT ![c] = @ - 1],
         NEW j, j = Free(h, c)
  PROVE  Core(j, d2, st, wk, lk, bo)
<1> DEFINE R == Roots(hd, FramesOf(st) \cup FramesOf(wk))
           E == Ext(hd, wk, st, lk)
           D == Ext(d2, wk, st, lk)
<1>0. Typed(hd, st, wk, lk, bo) /\ Good(h, R) /\ (~bo => Counted(h, E))
  BY DEF Core
<1>1. hd \in [Cells -> 0..MaxHeld] /\ MaxHeld \in Nat
  BY <1>0, TxnAssumption DEF Typed, TxnAssumption
<1>2. \A x \in Cells : d2[x] = IF x = c THEN hd[x] - 1 ELSE hd[x]
  BY <1>1
<1>3. d2 \in [Cells -> 0..MaxHeld]
  BY <1>1, <1>2
<1>4. Typed(d2, st, wk, lk, bo)
  BY <1>0, <1>3 DEF Typed
<1>5. /\ E \in [Cells -> Nat] /\ D \in [Cells -> Nat]
      /\ \A x \in Cells : /\ E[x] = hd[x] + Works(wk, x) + Stacks(st, x) + Leaks(lk, x)
                          /\ hd[x] \in Nat /\ Works(wk, x) \in Nat /\ Stacks(st, x) \in Nat
                          /\ Leaks(lk, x) \in 0..1
      /\ \A x \in Cells : D[x] = d2[x] + Works(wk, x) + Stacks(st, x) + Leaks(lk, x)
  <2>1. /\ E \in [Cells -> Nat]
        /\ \A x \in Cells : /\ E[x] = hd[x] + Works(wk, x) + Stacks(st, x) + Leaks(lk, x)
                            /\ hd[x] \in Nat /\ Works(wk, x) \in Nat /\ Stacks(st, x) \in Nat
                            /\ Leaks(lk, x) \in 0..1
    <3>1. ExtSound(hd, wk, st, lk)
      BY <1>0, ExtIs
    <3> QED
      BY <3>1 DEF ExtSound
  <2>2. /\ D \in [Cells -> Nat]
        /\ \A x \in Cells : D[x] = d2[x] + Works(wk, x) + Stacks(st, x) + Leaks(lk, x)
    <3>1. ExtSound(d2, wk, st, lk)
      BY <1>4, ExtIs
    <3> QED
      BY <3>1 DEF ExtSound
  <2> QED
    BY <2>1, <2>2
<1> HIDE DEF R, E, D
<1>6. /\ Good(j, R) /\ Shrunk(j, h)
      /\ \A x \in Places : Keeps(h, j, x)
      /\ \A B \in [Cells -> Nat] :
          Counted(h, B) /\ B[c] > 0 => Counted(j, [B EXCEPT ![c] = @ - 1])
  BY <1>0, FreeGood
<1>7. E[c] > 0 /\ E[c] - 1 = D[c] /\ \A x \in Cells : x # c => E[x] = D[x]
  BY <1>2, <1>5
<1>8. [E EXCEPT ![c] = @ - 1] = D
  <2>1. \A x \in Cells : [E EXCEPT ![c] = @ - 1][x] = D[x]
    BY <1>5, <1>7
  <2> QED
    BY <1>5, <2>1
<1>9. ~bo => Counted(j, D)
  BY <1>0, <1>5, <1>6, <1>7, <1>8
<1>10. \A x \in Cells : d2[x] > 0 => hd[x] > 0
  BY <1>1, <1>2
<1> QED
  BY <1>4, <1>6, <1>9, <1>10, CoreShrink DEF R, D

\* logdb_buffer_retain by the application.
LEMMA CoreRetain ==
  ASSUME NEW h, NEW hd, NEW st, NEW wk, NEW lk, NEW bo, Core(h, hd, st, wk, lk, bo),
         NEW c \in Cells, hd[c] > 0, hd[c] < MaxHeld, Live(h, c),
         NEW d2, d2 = [hd EXCEPT ![c] = @ + 1],
         NEW j, j = [h EXCEPT ![c].refcnt = @ + 1]
  PROVE  Core(j, d2, st, wk, lk, bo)
<1> DEFINE F == FramesOf(st) \cup FramesOf(wk)
           R == Roots(hd, F)
           E == Ext(hd, wk, st, lk)
           D == Ext(d2, wk, st, lk)
<1>0. Typed(hd, st, wk, lk, bo) /\ Good(h, R) /\ Wanted(h, F) /\ F \subseteq Frames
  BY DEF Core, FramesOf
<1>1. hd \in [Cells -> 0..MaxHeld] /\ MaxHeld \in Nat
  BY <1>0, TxnAssumption DEF Typed, TxnAssumption
<1>2. \A x \in Cells : d2[x] = IF x = c THEN hd[x] + 1 ELSE hd[x]
  BY <1>1
<1>3. d2 \in [Cells -> 0..MaxHeld]
  <2>1. \A x \in Cells : d2[x] \in 0..MaxHeld
    BY <1>1, <1>2
  <2> QED
    BY <1>1, <2>1
<1>4. Typed(d2, st, wk, lk, bo)
  BY <1>0, <1>3 DEF Typed
<1>5. /\ Good(j, R)
      /\ \A x \in Places : Keeps(h, j, x) /\ Reach(j, x) = Reach(h, x)
      /\ \A d \in Cells : j[d].refcnt = IF d = c THEN h[d].refcnt + 1 ELSE h[d].refcnt
      /\ \A d \in Cells : SamePointers(j, h, d)
      /\ \A B \in [Cells -> Nat] : Counted(h, B) => Counted(j, [B EXCEPT ![c] = @ + 1])
  <2> HIDE DEF R
  <2>1. RetainSound(h, R, c, j)
    BY <1>0, RetainGood
  <2> QED
    BY <2>1 DEF RetainSound
<1>6. Roots(d2, F) = R
  <2>1. \A x \in Cells : d2[x] > 0 <=> hd[x] > 0
    BY <1>1, <1>2
  <2> QED
    BY <2>1 DEF Roots
<1>7. Wanted(j, F)
  <2> SUFFICES ASSUME NEW f \in F, ~f.hurt, Safe(j, f.buf) PROVE Content(j, f.buf) = f.want
    BY DEF Wanted
  <2>1. Safe(h, f.buf) /\ Content(j, f.buf) = Content(h, f.buf)
    BY <1>0, <1>5, FrameType DEF Keeps
  <2> QED
    BY <1>0, <2>1 DEF Wanted
<1>8. ASSUME ~bo PROVE Counted(j, D) /\ Sole(j, F, lk) /\ CopiesFollow(j)
  <2>1. Counted(h, E) /\ Sole(h, F, lk) /\ CopiesFollow(h)
    BY <1>8 DEF Core
  <2>2. ExtSound(hd, wk, st, lk) /\ ExtSound(d2, wk, st, lk)
    BY <1>0, <1>4, ExtIs
  <2>3. [E EXCEPT ![c] = @ + 1] = D
    <3>1. E \in [Cells -> Nat] /\ D \in [Cells -> Nat]
      BY <2>2 DEF ExtSound
    <3>2. ASSUME NEW x \in Cells PROVE D[x] = IF x = c THEN E[x] + 1 ELSE E[x]
      <4>1. /\ E[x] = hd[x] + Works(wk, x) + Stacks(st, x) + Leaks(lk, x)
            /\ D[x] = d2[x] + Works(wk, x) + Stacks(st, x) + Leaks(lk, x)
            /\ hd[x] \in Nat /\ Works(wk, x) \in Nat /\ Stacks(st, x) \in Nat /\ Leaks(lk, x) \in 0..1
        BY <2>2 DEF ExtSound
      <4> HIDE DEF E, D
      <4> QED
        BY <1>2, <4>1
    <3> HIDE DEF E, D
    <3>3. \A x \in Cells : [E EXCEPT ![c] = @ + 1][x] = D[x]
      BY <3>1, <3>2
    <3> QED
      BY <3>1, <3>3
  <2>4. Counted(j, D)
    <3>1. E \in [Cells -> Nat]
      BY <2>2 DEF ExtSound
    <3> HIDE DEF E, D
    <3> QED
      BY <1>5, <2>1, <2>3, <3>1
  <2>5. /\ c \notin lk /\ (\A f \in F : f.buf # c) /\ (\A e \in Cells : h[e].next # c)
    BY <1>8, HeldNotSole
  <2>6. Sole(j, F, lk)
    BY <1>5, <2>1, <2>5 DEF Sole, SamePointers
  <2>7. CopiesFollow(j)
    <3>1. \A d \in Cells : h[d].next \in Places /\ j[d].next = h[d].next /\ j[d].orig = h[d].orig
      BY <1>0, <1>5, CellType DEF Good, SamePointers
    <3> QED
      BY <2>1, <3>1 DEF CopiesFollow, Places
  <2> QED
    BY <2>4, <2>6, <2>7
<1> HIDE DEF F, R, D
<1> QED
  BY <1>4, <1>5, <1>6, <1>7, <1>8 DEF Core, F, D

\* One more pointer to c, of the application or leaked.
Added(hd, d2, st, wk, lk, l2, bo, c) ==
    /\ Typed(d2, st, wk, l2, bo)
    /\ l2 \subseteq lk \cup {c}
    /\ \A x \in Cells : d2[x] > 0 => hd[x] > 0 \/ x = c
    /\ ~bo => \A x \in Cells : Ext(d2, wk, st, l2)[x] = Ext(hd, wk, st, lk)[x] + One(c, x)

\* A buffer that is made, for the application or by logdb_put.
LEMMA CoreMade ==
  ASSUME NEW h, NEW hd, NEW st, NEW wk, NEW lk, NEW bo, Core(h, hd, st, wk, lk, bo),
         NEW c, Available(h, Roots(hd, FramesOf(st) \cup FramesOf(wk)), c), NEW u \in Seq(Units),
         NEW j, j = New(h, c, u), NEW d2, NEW l2, Added(hd, d2, st, wk, lk, l2, bo, c)
  PROVE  Core(j, d2, st, wk, l2, bo)
<1> DEFINE F == FramesOf(st) \cup FramesOf(wk)
           R == Roots(hd, F)
           E == Ext(hd, wk, st, lk)
           D == Ext(d2, wk, st, l2)
<1>0. /\ Typed(hd, st, wk, lk, bo) /\ Good(h, R) /\ Wanted(h, F) /\ F \subseteq Frames
      /\ c \in Cells /\ c \notin R /\ R \subseteq Cells
  BY DEF Core, FramesOf, Available, Roots
<1>4. Typed(d2, st, wk, l2, bo)
  BY DEF Added
<1>5. /\ Good(j, R \cup {c})
      /\ \A x \in Places : x # c => Keeps(h, j, x) /\ Reach(j, x) = Reach(h, x)
      /\ \A d \in Cells : j[d].refcnt = IF d = c THEN 1 ELSE h[d].refcnt
      /\ \A d \in Cells : SamePointers(j, h, d)
      /\ \A B \in [Cells -> Nat] : Counted(h, B) => Counted(j, [B EXCEPT ![c] = @ + 1])
  <2>1. Available(h, R, c)
    OBVIOUS
  <2> HIDE DEF R
  <2>2. NewSound(h, R, c, u, j)
    BY <1>0, <2>1, NewGood
  <2> QED
    BY <2>2 DEF NewSound
<1>6. Good(j, Roots(d2, F))
  <2>1. Roots(d2, F) \subseteq R \cup {c}
    BY <1>0 DEF Roots, Added
  <2> HIDE DEF R, F
  <2> QED
    BY <1>5, <2>1, GoodLess
<1>7. Wanted(j, F)
  <2> SUFFICES ASSUME NEW f \in F, ~f.hurt, Safe(j, f.buf) PROVE Content(j, f.buf) = f.want
    BY DEF Wanted
  <2>0. f.buf \in Places /\ f.buf # c
    BY <1>0, FrameType DEF Roots
  <2>1. Safe(h, f.buf) /\ Content(j, f.buf) = Content(h, f.buf)
    BY <1>5, <2>0 DEF Keeps
  <2> QED
    BY <1>0, <2>1 DEF Wanted
<1>8. ASSUME ~bo PROVE Counted(j, D) /\ Sole(j, F, l2) /\ CopiesFollow(j)
  <2>1. Counted(h, E) /\ Sole(h, F, lk) /\ CopiesFollow(h)
    BY <1>8 DEF Core
  <2>2. E \in [Cells -> Nat] /\ D \in [Cells -> Nat]
    BY <1>0, <1>4, ExtIs DEF ExtSound
  <2>3. [E EXCEPT ![c] = @ + 1] = D
    <3>1. \A x \in Cells : D[x] = E[x] + One(c, x)
      BY <1>8 DEF Added
    <3> HIDE DEF E, D
    <3>2. \A x \in Cells : E[x] \in Nat
      BY <2>2
    <3>3. \A x \in Cells : [E EXCEPT ![c] = @ + 1][x] = D[x]
      BY <1>0, <2>2, <3>1, <3>2 DEF One
    <3> QED
      BY <2>2, <3>3
  <2>4. Counted(j, D)
    <3> HIDE DEF E, D
    <3> QED
      BY <1>5, <2>1, <2>2, <2>3
  <2>6. Sole(j, F, l2)
    <3> SUFFICES ASSUME NEW d \in Cells,
                        d \in l2 \/ (\E f \in F : f.buf = d) \/ (\E e \in Cells : j[e].next = d)
                 PROVE  j[d].refcnt = 1
      BY DEF Sole
    <3>1. d = c \/ d \in lk \/ (\E f \in F : f.buf = d) \/ (\E e \in Cells : h[e].next = d)
      BY <1>5 DEF SamePointers, Added
    <3> QED
      BY <1>5, <2>1, <3>1 DEF Sole
  <2>7. CopiesFollow(j)
    <3>1. \A d \in Cells : h[d].next \in Places /\ j[d].next = h[d].next /\ j[d].orig = h[d].orig
      BY <1>0, <1>5, CellType DEF Good, SamePointers
    <3> QED
      BY <2>1, <3>1 DEF CopiesFollow, Places
  <2> QED
    BY <2>4, <2>6, <2>7
<1> HIDE DEF F, R, D
<1> QED
  BY <1>4, <1>6, <1>7, <1>8 DEF Core, F, D

\* A buffer that the application makes.
LEMMA CoreNew ==
  ASSUME NEW h, NEW hd, NEW st, NEW wk, NEW lk, NEW bo, Core(h, hd, st, wk, lk, bo),
         NEW c, Available(h, Roots(hd, FramesOf(st) \cup FramesOf(wk)), c), NEW u \in Seq(Units),
         NEW d2, d2 = [hd EXCEPT ![c] = 1], NEW j, j = New(h, c, u)
  PROVE  Core(j, d2, st, wk, lk, bo)
<1> DEFINE E == Ext(hd, wk, st, lk)
           D == Ext(d2, wk, st, lk)
<1>0. /\ Typed(hd, st, wk, lk, bo) /\ c \in Cells
      /\ c \notin Roots(hd, FramesOf(st) \cup FramesOf(wk))
  BY DEF Core, Available
<1>1. hd \in [Cells -> 0..MaxHeld] /\ MaxHeld \in Nat \ {0}
  BY <1>0, TxnAssumption DEF Typed, TxnAssumption
<1>2. hd[c] = 0 /\ \A x \in Cells : d2[x] = IF x = c THEN 1 ELSE hd[x]
  <2>1. ~(hd[c] > 0) /\ hd[c] \in 0..MaxHeld
    BY <1>0, <1>1 DEF Roots
  <2>2. hd[c] = 0
    BY <1>1, <2>1
  <2> QED
    BY <1>1, <2>2
<1>3. d2 \in [Cells -> 0..MaxHeld]
  <2>1. \A x \in Cells : d2[x] \in 0..MaxHeld
    BY <1>1, <1>2
  <2> QED
    BY <1>1, <2>1
<1>4. Typed(d2, st, wk, lk, bo)
  BY <1>0, <1>3 DEF Typed
<1>5. ExtSound(hd, wk, st, lk) /\ ExtSound(d2, wk, st, lk)
  BY <1>0, <1>4, ExtIs
<1>6. ASSUME NEW x \in Cells PROVE D[x] = E[x] + One(c, x)
  <2>1. /\ E[x] = hd[x] + Works(wk, x) + Stacks(st, x) + Leaks(lk, x)
        /\ D[x] = d2[x] + Works(wk, x) + Stacks(st, x) + Leaks(lk, x)
        /\ hd[x] \in Nat /\ Works(wk, x) \in Nat /\ Stacks(st, x) \in Nat /\ Leaks(lk, x) \in 0..1
    BY <1>5 DEF ExtSound
  <2> HIDE DEF E, D
  <2> QED
    BY <1>2, <2>1 DEF One
<1>7. \A x \in Cells : d2[x] > 0 => hd[x] > 0 \/ x = c
  BY <1>2
<1>8. Added(hd, d2, st, wk, lk, lk, bo, c)
  BY <1>4, <1>6, <1>7 DEF Added
<1> QED
  BY <1>8, CoreMade

\* A chain that has grown by a copy c of b.  A reference more has only what the
\* application holds.
Grown(h, j, hd, b, c) ==
    /\ \A d \in Cells : j[d].next # NULL => j[d].next \in {c, h[d].next}
    /\ \A d \in Cells : d # c => j[d].orig = h[d].orig
    /\ \A d \in Cells : d # c => j[d].refcnt = h[d].refcnt \/ (d = b /\ hd[d] > 0)
    /\ j[c].orig = b
    /\ j[c].refcnt = 1

\* The invariant after a chain has grown, for transactions with the same buffers.
LEMMA CoreGrown ==
  ASSUME NEW h, NEW hd, NEW st, NEW wk, NEW lk, NEW bo, Core(h, hd, st, wk, lk, bo),
         NEW j, NEW b \in Cells, NEW c \in Cells, Grown(h, j, hd, b, c),
         Good(j, Roots(hd, FramesOf(st) \cup FramesOf(wk))),
         NEW s2, NEW w2, Typed(hd, s2, w2, lk, bo),
         \A g \in FramesOf(s2) \cup FramesOf(w2) :
             g.buf # NULL => \E f \in FramesOf(st) \cup FramesOf(wk) : f.buf = g.buf,
         Wanted(j, FramesOf(s2) \cup FramesOf(w2)),
         ~bo => Counted(j, Ext(hd, w2, s2, lk))
  PROVE  Core(j, hd, s2, w2, lk, bo)
<1> DEFINE F == FramesOf(st) \cup FramesOf(wk)
           G == FramesOf(s2) \cup FramesOf(w2)
<1>1. Good(j, Roots(hd, G))
  <2>1. Roots(hd, G) \subseteq Roots(hd, F)
    BY CellsAre DEF Roots
  <2> HIDE DEF G, F
  <2> QED
    BY <2>1, GoodLess DEF F
<1>2. ASSUME ~bo PROVE Sole(j, G, lk) /\ CopiesFollow(j)
  <2>1. Sole(h, F, lk) /\ CopiesFollow(h) /\ h \in Heaps /\ j \in Heaps
    BY <1>2 DEF Core, Good
  <2>2. ASSUME NEW d \in Cells,
               d \in lk \/ (\E f \in G : f.buf = d) \/ (\E e \in Cells : j[e].next = d)
        PROVE  j[d].refcnt = 1
    <3>1. d = c \/ d \in lk \/ (\E f \in F : f.buf = d) \/ (\E e \in Cells : h[e].next = d)
      BY <2>2, CellsAre DEF Grown
    <3>2. CASE d = c
      BY <3>2 DEF Grown
    <3>3. CASE d # c
      <4>1. ~(hd[d] > 0)
        BY <1>2, <3>1, <3>3, HeldNotSole
      <4>2. j[d].refcnt = h[d].refcnt
        BY <3>3, <4>1 DEF Grown
      <4> QED
        BY <2>1, <3>1, <3>3, <4>2 DEF Sole
    <3> QED
      BY <3>2, <3>3
  <2>3. ASSUME NEW d \in Cells, j[d].next # NULL PROVE j[j[d].next].orig # NULL
    <3> DEFINE e == j[d].next
    <3>1. e \in Cells /\ e \in {c, h[d].next}
      BY <2>1, <2>3, CellType DEF Grown, Places
    <3>2. CASE e = c
      BY <3>2, CellsAre DEF Grown
    <3>3. CASE e # c
      <4>1. e = h[d].next /\ j[e].orig = h[e].orig
        BY <3>1, <3>3 DEF Grown
      <4> QED
        BY <2>1, <2>3, <4>1 DEF CopiesFollow
    <3> QED
      BY <3>2, <3>3
  <2> QED
    BY <2>2, <2>3 DEF Sole, CopiesFollow
<1> HIDE DEF F, G
<1> QED
  BY <1>1, <1>2 DEF Core, G

\* s2 is s1 with, at least, every transaction hurt that contains a buffer of S.
Remarked(h, S, s2, s1) ==
    /\ s2 \in [Threads -> Seq(Frames)]
    /\ \A t \in Threads : Len(s2[t]) = Len(s1[t])
    /\ \A t \in Threads : \A i \in 1..Len(s1[t]) :
        /\ s2[t][i].buf = s1[t][i].buf /\ s2[t][i].want = s1[t][i].want
        /\ ~s2[t][i].hurt => ~s1[t][i].hurt /\ Reach(h, s1[t][i].buf) \cap S = {}

\* What one transaction is after Marked.
MarkSound(h, S, r, s) ==
    /\ r \in Seq(Frames)
    /\ Len(r) = Len(s)
    /\ \A i \in 1..Len(s) : /\ r[i].buf = s[i].buf /\ r[i].want = s[i].want
                            /\ ~r[i].hurt => ~s[i].hurt /\ Reach(h, s[i].buf) \cap S = {}

\* Marked changes no buffer of a transaction.
LEMMA MarkIs ==
  ASSUME NEW s \in Seq(Frames), NEW S
  PROVE  MarkSound(heap, S, Marked(s, S), s)
<1> DEFINE r == Marked(s, S)
<1>1. DOMAIN s = 1..Len(s) /\ Len(s) \in Nat
  OBVIOUS
<1>2. ASSUME NEW i \in 1..Len(s)
      PROVE  /\ r[i] \in Frames /\ r[i].buf = s[i].buf /\ r[i].want = s[i].want
             /\ ~r[i].hurt => ~s[i].hurt /\ Reach(heap, s[i].buf) \cap S = {}
  <2>1. s[i] \in Frames
    OBVIOUS
  <2>2. r[i] = [s[i] EXCEPT !.hurt = @ \/ Reach(heap, s[i].buf) \cap S # {}]
    BY <1>1 DEF Marked
  <2> DEFINE B == s[i].hurt \/ Reach(heap, s[i].buf) \cap S # {}
  <2>3. r[i] = [s[i] EXCEPT !.hurt = B]
    BY <2>2
  <2>4. B \in BOOLEAN
    <3>1. s[i].hurt \in BOOLEAN
      BY <2>1, FrameType
    <3> QED
      BY <3>1
  <2>5. ~B => ~s[i].hurt /\ Reach(heap, s[i].buf) \cap S = {}
    OBVIOUS
  <2> HIDE DEF B
  <2>6. r[i] \in Frames /\ r[i].buf = s[i].buf /\ r[i].want = s[i].want /\ r[i].hurt = B
    BY <2>1, <2>3, <2>4 DEF Frames
  <2> QED
    BY <2>5, <2>6
<1>3. r = [i \in 1..Len(s) |-> r[i]]
  BY <1>1 DEF Marked
<1> HIDE DEF r
<1>4. r \in Seq(Frames) /\ Len(r) = Len(s)
  BY <1>1, <1>2, <1>3
<1> QED
  BY <1>2, <1>4 DEF MarkSound, r

\* The transactions of all threads are marked, those that contain a buffer of S.
LEMMA MarkAll ==
  ASSUME NEW s1 \in [Threads -> Seq(Frames)], NEW S,
         NEW s2, s2 = [t \in Threads |-> Marked(s1[t], S)]
  PROVE  Remarked(heap, S, s2, s1)
<1>1. ASSUME NEW t \in Threads PROVE MarkSound(heap, S, s2[t], s1[t])
  <2>1. s1[t] \in Seq(Frames) /\ s2[t] = Marked(s1[t], S)
    OBVIOUS
  <2> QED
    BY <2>1, MarkIs
<1>2. s2 \in [Threads -> Seq(Frames)]
  BY <1>1 DEF MarkSound
<1> QED
  BY <1>1, <1>2 DEF MarkSound, Remarked

\* Every transaction after it was one before.
RemarkSound(h, S, s2, s1) ==
    /\ SameBufs(s2, s1)
    /\ \A g \in FramesOf(s2) : \E f \in FramesOf(s1) :
        /\ g.buf = f.buf /\ g.want = f.want
        /\ ~g.hurt => ~f.hurt /\ Reach(h, f.buf) \cap S = {}

\* Marking changes neither buffers nor what was put.
LEMMA RemarkIs ==
  ASSUME NEW h, NEW S, NEW s1 \in [Threads -> Seq(Frames)], NEW s2, Remarked(h, S, s2, s1)
  PROVE  RemarkSound(h, S, s2, s1)
<1>1. SameBufs(s2, s1)
  BY DEF SameBufs, Remarked
<1>2. ASSUME NEW g \in FramesOf(s2)
      PROVE  \E f \in FramesOf(s1) : /\ g.buf = f.buf /\ g.want = f.want
                                     /\ ~g.hurt => ~f.hurt /\ Reach(h, f.buf) \cap S = {}
  <2>1. PICK t \in Threads : \E i \in 1..Len(s2[t]) : s2[t][i] = g
    BY DEF FramesOf
  <2>2. PICK i \in 1..Len(s2[t]) : s2[t][i] = g
    BY <2>1
  <2>3. s1[t] \in Seq(Frames) /\ i \in 1..Len(s1[t])
    BY DEF Remarked
  <2>4. s1[t][i] \in Frames
    BY <2>3
  <2>5. s1[t][i] \in FramesOf(s1)
    BY <2>3, <2>4 DEF FramesOf
  <2> QED
    BY <2>2, <2>3, <2>5 DEF Remarked
<1> QED
  BY <1>1, <1>2 DEF RemarkSound

\* The counts are as before.
LEMMA RemarkTyped ==
  ASSUME NEW h, NEW S, NEW hd, NEW st, NEW wk, NEW lk, NEW bo, Typed(hd, st, wk, lk, bo),
         NEW s2, NEW w2, Remarked(h, S, s2, st), Remarked(h, S, w2, wk)
  PROVE  Typed(hd, s2, w2, lk, bo) /\ Ext(hd, w2, s2, lk) = Ext(hd, wk, st, lk)
<1>1. st \in [Threads -> Seq(Frames)] /\ wk \in [Threads -> Seq(Frames)]
  BY DEF Typed
<1>2. s2 \in [Threads -> Seq(Frames)] /\ w2 \in [Threads -> Seq(Frames)]
  BY DEF Remarked
<1>3. SameBufs(s2, st) /\ SameBufs(w2, wk)
  BY <1>1, RemarkIs DEF RemarkSound
<1>4. \A x : Stacks(s2, x) = Stacks(st, x) /\ Works(w2, x) = Works(wk, x)
  BY <1>1, <1>2, <1>3, SameBufsCount
<1>5. Typed(hd, s2, w2, lk, bo)
  BY DEF Typed, Remarked
<1> QED
  BY <1>4, <1>5 DEF Ext

\* What a growing chain leaves alone.
LEMMA GrownWanted ==
  ASSUME NEW h, NEW a, NEW j, NEW F, F \subseteq Frames, Wanted(h, F),
         \A f \in F : a \notin Reach(h, f.buf) => Keeps(h, j, f.buf),
         NEW G, \A g \in G : \E f \in F : /\ g.buf = f.buf /\ g.want = f.want
                                          /\ ~g.hurt => ~f.hurt /\ Reach(h, f.buf) \cap {a} = {}
  PROVE  Wanted(j, G)
<1> SUFFICES ASSUME NEW g \in G, ~g.hurt, Safe(j, g.buf) PROVE Content(j, g.buf) = g.want
  BY DEF Wanted
<1>1. PICK f \in F : /\ g.buf = f.buf /\ g.want = f.want
                     /\ ~f.hurt /\ Reach(h, f.buf) \cap {a} = {}
  OBVIOUS
<1>2. a \notin Reach(h, f.buf)
  BY <1>1
<1>3. Safe(h, f.buf) /\ Content(j, f.buf) = Content(h, f.buf)
  BY <1>1, <1>2 DEF Keeps
<1> QED
  BY <1>1, <1>3 DEF Wanted

\* logdb_buffer_append by the application.
LEMMA CoreAppend ==
  ASSUME NEW h, NEW hd, NEW st, NEW wk, NEW lk, NEW bo, Core(h, hd, st, wk, lk, bo),
         NEW a \in Cells, NEW b \in Cells, hd[a] > 0, hd[b] > 0, Safe(h, a), Live(h, b),
         a \notin Reach(h, b),
         NEW c, Available(h, Roots(hd, FramesOf(st) \cup FramesOf(wk)), c),
         NEW j, j = Graft(h, a, b, c),
         NEW s2, NEW w2, Remarked(h, {a}, s2, st), Remarked(h, {a}, w2, wk)
  PROVE  Core(j, hd, s2, w2, lk, bo)
<1> DEFINE F == FramesOf(st) \cup FramesOf(wk)
           G == FramesOf(s2) \cup FramesOf(w2)
           R == Roots(hd, F)
           E == Ext(hd, wk, st, lk)
<1>0. /\ Typed(hd, st, wk, lk, bo) /\ Good(h, R) /\ Wanted(h, F) /\ F \subseteq Frames
      /\ a \in R /\ b \in R /\ Available(h, R, c) /\ c \in Cells
      /\ \A f \in F : f.buf \in Places /\ (f.buf = NULL \/ f.buf \in R)
  BY FrameType DEF Core, FramesOf, Roots, Available, Places
<1>1. Typed(hd, s2, w2, lk, bo) /\ Ext(hd, w2, s2, lk) = E
  BY <1>0, RemarkTyped
<1>2. E \in [Cells -> Nat] /\ (~bo => Counted(h, E))
  BY <1>0, ExtIs DEF ExtSound, Core
<1>3. \A g \in G : \E f \in F : /\ g.buf = f.buf /\ g.want = f.want
                                /\ ~g.hurt => ~f.hurt /\ Reach(h, f.buf) \cap {a} = {}
  <2>1. st \in [Threads -> Seq(Frames)] /\ wk \in [Threads -> Seq(Frames)]
    BY <1>0 DEF Typed
  <2>2. RemarkSound(h, {a}, s2, st) /\ RemarkSound(h, {a}, w2, wk)
    BY <2>1, RemarkIs
  <2>3. ASSUME NEW g \in FramesOf(s2)
        PROVE  \E f \in F : /\ g.buf = f.buf /\ g.want = f.want
                            /\ ~g.hurt => ~f.hurt /\ Reach(h, f.buf) \cap {a} = {}
    BY <2>2 DEF RemarkSound
  <2>4. ASSUME NEW g \in FramesOf(w2)
        PROVE  \E f \in F : /\ g.buf = f.buf /\ g.want = f.want
                            /\ ~g.hurt => ~f.hurt /\ Reach(h, f.buf) \cap {a} = {}
    BY <2>2 DEF RemarkSound
  <2> QED
    BY <2>3, <2>4
<1> HIDE DEF E, R
<1>4. GraftSound(h, R, a, b, c, j)
  BY <1>0, GraftGood
<1>5. /\ Good(j, R)
      /\ \A x \in Places : (x = NULL \/ x \in R) /\ a \notin Reach(h, x) => Keeps(h, j, x)
      /\ ~bo => Counted(j, E)
  BY <1>2, <1>4 DEF GraftSound
<1>6. Grown(h, j, hd, b, c)
  BY <1>0, <1>4 DEF GraftSound, Grown
<1>7. Wanted(j, G)
  <2> HIDE DEF F, G
  <2>1. \A f \in F : a \notin Reach(h, f.buf) => Keeps(h, j, f.buf)
    BY <1>0, <1>5
  <2> QED
    BY <1>0, <1>3, <2>1, GrownWanted
<1>8. \A g \in G : g.buf # NULL => \E f \in F : f.buf = g.buf
  BY <1>3
<1> QED
  BY <1>0, <1>1, <1>5, <1>6, <1>7, <1>8, CoreGrown DEF R

\* logdb_buffer_data.
LEMMA CoreData ==
  ASSUME NEW h, NEW hd, NEW st, NEW wk, NEW lk, NEW bo, Core(h, hd, st, wk, lk, bo),
         NEW c \in Cells, Safe(h, c), NEW j, j = Flat(h, c), NEW l2, l2 = lk \cup Cut(h, j)
  PROVE  Core(j, hd, st, wk, l2, bo)
<1> DEFINE F == FramesOf(st) \cup FramesOf(wk)
           R == Roots(hd, F)
           E == Ext(hd, wk, st, lk)
           D == Ext(hd, wk, st, l2)
<1>0. Typed(hd, st, wk, lk, bo) /\ Good(h, R) /\ Wanted(h, F) /\ F \subseteq Frames /\ h \in Heaps
  BY DEF Core, FramesOf, Good
<1>1. FlatSound(h, R, j)
  BY <1>0, FlatGood
<1>2. /\ Good(j, R) /\ \A x \in Places : Keeps(h, j, x)
      /\ \A d \in Cells : /\ j[d].refcnt = h[d].refcnt /\ j[d].orig = h[d].orig
                          /\ j[d].next \in {h[d].next, NULL}
      /\ Cut(h, j) \subseteq Cells
      /\ \A x \in Cells : /\ Nexts(h, x) = Nexts(j, x) + IF x \in Cut(h, j) THEN 1 ELSE 0
                          /\ Origs(h, x) = Origs(j, x)
  BY <1>1 DEF FlatSound
<1>3. Typed(hd, st, wk, l2, bo)
  BY <1>0, <1>2 DEF Typed
<1>4. Wanted(j, F)
  <2> SUFFICES ASSUME NEW f \in F, ~f.hurt, Safe(j, f.buf) PROVE Content(j, f.buf) = f.want
    BY DEF Wanted
  <2>1. f.buf \in Places
    BY <1>0, FrameType
  <2>2. Safe(h, f.buf) /\ Content(j, f.buf) = Content(h, f.buf)
    BY <1>2, <2>1 DEF Keeps
  <2> QED
    BY <1>0, <2>2 DEF Wanted
<1>5. ASSUME ~bo PROVE Counted(j, D) /\ Sole(j, F, l2) /\ CopiesFollow(j)
  <2>1. Counted(h, E) /\ Sole(h, F, lk) /\ CopiesFollow(h)
    BY <1>5 DEF Core
  <2>2. ASSUME NEW x \in Cut(h, j) PROVE x \in Cells /\ (\E d \in Cells : h[d].next = x)
    BY <1>2 DEF Cut
  <2>3. ASSUME NEW x \in Cells PROVE j[x].refcnt = D[x] + Origs(j, x) + Nexts(j, x)
    <3>1. h[x].refcnt = E[x] + Origs(h, x) + Nexts(h, x) /\ j[x].refcnt = h[x].refcnt
      BY <1>2, <2>1 DEF Counted
    <3>2. /\ E[x] = hd[x] + Works(wk, x) + Stacks(st, x) + Leaks(lk, x)
          /\ hd[x] \in Nat /\ Works(wk, x) \in Nat /\ Stacks(st, x) \in Nat /\ Leaks(lk, x) \in 0..1
      BY <1>0, ExtIs DEF ExtSound
    <3>3. D[x] = hd[x] + Works(wk, x) + Stacks(st, x) + Leaks(l2, x)
      BY <1>3, ExtIs DEF ExtSound
    <3>4. /\ Origs(h, x) \in Nat /\ Nexts(h, x) \in Nat
          /\ Origs(j, x) \in Nat /\ Nexts(j, x) \in Nat
          /\ (\E d \in Cells : h[d].next = x) => Nexts(h, x) >= 1
      BY PointerCounts
    <3>5. /\ Nexts(h, x) = Nexts(j, x) + (IF x \in Cut(h, j) THEN 1 ELSE 0)
          /\ Origs(h, x) = Origs(j, x)
      BY <1>2
    <3>6. CASE x \in Cut(h, j)
      <4>1. h[x].refcnt = 1 /\ Nexts(h, x) >= 1
        BY <2>1, <2>2, <3>4, <3>6 DEF Sole
      <4> HIDE DEF E, D
      <4>2. Leaks(lk, x) = 0 /\ Leaks(l2, x) = 1
        BY <3>1, <3>2, <3>4, <3>6, <4>1 DEF Leaks
      <4> QED
        BY <3>1, <3>2, <3>3, <3>4, <3>5, <3>6, <4>2
    <3>7. CASE x \notin Cut(h, j)
      <4>1. Leaks(l2, x) = Leaks(lk, x)
        BY <3>7 DEF Leaks
      <4> HIDE DEF E, D
      <4> QED
        BY <3>1, <3>2, <3>3, <3>4, <3>5, <3>7, <4>1
    <3> QED
      BY <3>6, <3>7
  <2>4. Sole(j, F, l2)
    <3> SUFFICES ASSUME NEW d \in Cells,
                        d \in l2 \/ (\E f \in F : f.buf = d) \/ (\E e \in Cells : j[e].next = d)
                 PROVE  j[d].refcnt = 1
      BY DEF Sole
    <3>1. (\E e \in Cells : j[e].next = d) => (\E e \in Cells : h[e].next = d)
      BY <1>2, CellsAre
    <3>2. d \in l2 => d \in lk \/ (\E e \in Cells : h[e].next = d)
      BY <2>2
    <3>3. h[d].refcnt = 1
      BY <2>1, <3>1, <3>2 DEF Sole
    <3> QED
      BY <1>2, <3>3
  <2>5. CopiesFollow(j)
    <3>1. \A d \in Cells : j[d].next # NULL => j[d].next \in Cells /\ j[d].next = h[d].next
      BY <1>0, <1>2, CellType DEF Places
    <3> QED
      BY <1>2, <2>1, <3>1 DEF CopiesFollow
  <2> QED
    BY <2>3, <2>4, <2>5 DEF Counted
<1> HIDE DEF F, R, D
<1> QED
  BY <1>2, <1>3, <1>4, <1>5 DEF Core, F, R, D

\* The same pointers, held by other transactions.
Reframed(hd, st, wk, lk, s2, w2, l2) ==
    /\ \A x \in Cells : Ext(hd, w2, s2, l2)[x] = Ext(hd, wk, st, lk)[x]
    /\ \A d \in Cells : d \in l2 => d \in lk \/ \E f \in FramesOf(st) \cup FramesOf(wk) : f.buf = d
    /\ \A g \in FramesOf(s2) \cup FramesOf(w2) : g.buf # NULL =>
        g.buf \in lk \/ \E f \in FramesOf(st) \cup FramesOf(wk) : f.buf = g.buf

\* They are told apart only as long as nothing is borrowed.
Reframes(hd, st, wk, lk, bo, s2, w2, l2, b2) ==
    (bo => b2) /\ (~b2 => Reframed(hd, st, wk, lk, s2, w2, l2))

\* The transactions of a heap that stays as it is.
LEMMA CoreFrames ==
  ASSUME NEW h, NEW hd, NEW st, NEW wk, NEW lk, NEW bo, Core(h, hd, st, wk, lk, bo),
         NEW s2, NEW w2, NEW l2, NEW b2, Typed(hd, s2, w2, l2, b2),
         Good(h, Roots(hd, FramesOf(s2) \cup FramesOf(w2))),
         Wanted(h, FramesOf(s2) \cup FramesOf(w2)),
         Reframes(hd, st, wk, lk, bo, s2, w2, l2, b2)
  PROVE  Core(h, hd, s2, w2, l2, b2)
<1> DEFINE F == FramesOf(st) \cup FramesOf(wk)
           G == FramesOf(s2) \cup FramesOf(w2)
<1>1. ASSUME ~b2 PROVE Counted(h, Ext(hd, w2, s2, l2)) /\ Sole(h, G, l2) /\ CopiesFollow(h)
  <2>1. Counted(h, Ext(hd, wk, st, lk)) /\ Sole(h, F, lk) /\ CopiesFollow(h)
    BY <1>1 DEF Core, Reframes
  <2>2. Counted(h, Ext(hd, w2, s2, l2))
    BY <1>1, <2>1 DEF Counted, Reframed, Reframes
  <2>3. ASSUME NEW d \in Cells,
               d \in l2 \/ (\E f \in G : f.buf = d) \/ (\E e \in Cells : h[e].next = d)
        PROVE  h[d].refcnt = 1
    <3>1. d \in lk \/ (\E f \in F : f.buf = d) \/ (\E e \in Cells : h[e].next = d)
      BY <1>1, <2>3, CellsAre DEF Reframed, Reframes
    <3> QED
      BY <2>1, <3>1 DEF Sole
  <2> QED
    BY <2>1, <2>2, <2>3 DEF Sole
<1> HIDE DEF F, G
<1> QED
  BY <1>1 DEF Core, G

\* A stack and the same without its first transaction have the same other ones.
LEMMA PushFrames ==
  ASSUME NEW s1, NEW s2, NEW t, Shorter(s1, s2, t)
  PROVE  /\ \A g \in FramesOf(s2) : g = Head(s2[t]) \/ g \in FramesOf(s1)
         /\ FramesOf(s1) \subseteq FramesOf(s2)
         /\ Head(s2[t]) \in FramesOf(s2)
<1>1. /\ s2 \in [Threads -> Seq(Frames)] /\ t \in Threads /\ s2[t] # <<>> /\ s1[t] = Tail(s2[t])
      /\ \A u \in Threads : u # t => s1[u] = s2[u]
  BY DEF Shorter
<1>2. /\ s2[t] \in Seq(Frames) /\ Len(s1[t]) = Len(s2[t]) - 1 /\ Len(s2[t]) \in Nat \ {0}
      /\ s2[t][1] = Head(s2[t]) /\ s2[t][1] \in Frames
  BY <1>1
<1>3. \A i \in 1..Len(s1[t]) : s1[t][i] = s2[t][i + 1] /\ i + 1 \in 1..Len(s2[t])
  BY <1>1, <1>2
<1>4. ASSUME NEW g \in FramesOf(s2) PROVE g = Head(s2[t]) \/ g \in FramesOf(s1)
  <2>1. PICK u \in Threads : \E i \in 1..Len(s2[u]) : s2[u][i] = g
    BY DEF FramesOf
  <2>2. PICK i \in 1..Len(s2[u]) : s2[u][i] = g
    BY <2>1
  <2>3. g \in Frames
    BY DEF FramesOf
  <2>4. CASE u # t
    BY <1>1, <2>2, <2>3, <2>4 DEF FramesOf
  <2>5. CASE u = t /\ i = 1
    BY <1>2, <2>2, <2>5
  <2>6. CASE u = t /\ i # 1
    <3>1. i - 1 \in 1..Len(s1[t]) /\ i - 1 + 1 = i
      BY <1>2, <2>6
    <3>2. s1[t][i - 1] = g
      BY <1>3, <2>2, <2>6, <3>1
    <3> QED
      BY <1>1, <2>3, <3>1, <3>2 DEF FramesOf
  <2> QED
    BY <2>4, <2>5, <2>6
<1>5. ASSUME NEW g \in FramesOf(s1) PROVE g \in FramesOf(s2)
  <2>1. PICK u \in Threads : \E i \in 1..Len(s1[u]) : s1[u][i] = g
    BY DEF FramesOf
  <2>2. PICK i \in 1..Len(s1[u]) : s1[u][i] = g
    BY <2>1
  <2>3. g \in Frames
    BY DEF FramesOf
  <2>4. CASE u # t
    BY <1>1, <2>2, <2>3, <2>4 DEF FramesOf
  <2>5. CASE u = t
    <3>1. s2[t][i + 1] = g /\ i + 1 \in 1..Len(s2[t])
      BY <1>3, <2>2, <2>5
    <3> QED
      BY <1>1, <2>3, <3>1 DEF FramesOf
  <2> QED
    BY <2>4, <2>5
<1>6. Head(s2[t]) \in FramesOf(s2)
  <2>1. 1 \in 1..Len(s2[t])
    BY <1>2
  <2> QED
    BY <1>1, <1>2, <2>1 DEF FramesOf
<1> QED
  BY <1>4, <1>5, <1>6

\* logdb_begin.
LEMMA CoreBegin ==
  ASSUME NEW h, NEW hd, NEW st, NEW wk, NEW lk, NEW bo, Core(h, hd, st, wk, lk, bo),
         NEW t, NEW s2, Shorter(st, s2, t), Head(s2[t]) = None
  PROVE  Core(h, hd, s2, wk, lk, bo)
<1> DEFINE F == FramesOf(st) \cup FramesOf(wk)
           G == FramesOf(s2) \cup FramesOf(wk)
<1>0. Typed(hd, st, wk, lk, bo) /\ Good(h, Roots(hd, F)) /\ Wanted(h, F) /\ h \in Heaps /\ Acyclic(h)
  BY DEF Core, Good
<1>2. None.buf = NULL /\ None.want = <<>>
  BY DEF None, Frame
<1>8. Typed(hd, s2, wk, lk, bo)
  <2>1. \A u \in Threads : Len(s2[u]) <= MaxDepth
    BY <1>0 DEF Typed, Shorter
  <2> QED
    BY <1>0, <2>1 DEF Typed, Shorter
<1>9. \A g \in FramesOf(s2) : g = None \/ g \in FramesOf(st)
  BY PushFrames
<1>10. \A x \in Cells : Ext(hd, wk, s2, lk)[x] = Ext(hd, wk, st, lk)[x]
  <2> SUFFICES ASSUME NEW x \in Cells PROVE Ext(hd, wk, s2, lk)[x] = Ext(hd, wk, st, lk)[x]
    OBVIOUS
  <2>2. Stacks(s2, x) = Stacks(st, x) + One(Head(s2[t]).buf, x)
    BY StacksPop
  <2>3. One(Head(s2[t]).buf, x) = 0
    BY <1>2, CellsAre DEF One
  <2>4. Stacks(st, x) \in Nat
    BY CountsFinite
  <2>5. Stacks(s2, x) = Stacks(st, x)
    BY <2>2, <2>3, <2>4
  <2> QED
    BY <2>5 DEF Ext
<1>11. Wanted(h, G)
  <2>1. Content(h, NULL) = <<>>
    BY <1>0, ContentIs
  <2> QED
    BY <1>0, <1>2, <1>9, <2>1 DEF Wanted
<1>12. \A g \in G : g.buf # NULL => \E f \in F : f.buf = g.buf
  BY <1>2, <1>9
<1>13. Good(h, Roots(hd, G))
  <2>1. Roots(hd, G) \subseteq Roots(hd, F)
    BY <1>12, CellsAre DEF Roots
  <2> HIDE DEF G, F
  <2> QED
    BY <1>0, <2>1, GoodLess
<1>14. Reframes(hd, st, wk, lk, bo, s2, wk, lk, bo)
  BY <1>10, <1>12 DEF Reframed, Reframes
<1> QED
  BY <1>8, <1>11, <1>13, <1>14, CoreFrames
-----------------------------------------------------------------------------
(***************************************************************************)
(* logdb_put.                                                              *)
(***************************************************************************)

\* The heap j that logdb_put has come to from h, with a record at c that is not
\* given to a transaction yet: a leaked one.
Middle(h, hd, st, wk, lk, bo, c, j) ==
    LET R == Roots(hd, FramesOf(st) \cup FramesOf(wk)) IN
    /\ Core(j, hd, st, wk, lk \cup {c}, bo)
    /\ Good(j, R \cup {c})
    /\ Safe(j, c)
    /\ c \in Cells /\ c \notin R /\ (~bo => c \notin lk)
    /\ \A x \in R : /\ c \notin Reach(j, x) /\ Content(j, x) = Content(h, x)
                    /\ Safe(h, x) => Safe(j, x)

\* A buffer with u was made at c, and one with a copy of b was linked to it at e; R is
\* what the application and the transactions have.
Headed(h, hd, st, wk, lk, bo, R, c, u, j) ==
    /\ Middle(h, hd, st, wk, lk, bo, c, j)
    /\ Content(j, c) = u
    /\ \A e : e # c /\ Available(h, R, e) => Available(j, R \cup {c}, e)

Copied(h, hd, st, wk, lk, bo, R, c, b, e, j, k) ==
    /\ Middle(h, hd, st, wk, lk, bo, c, k)
    /\ Content(k, c) = Content(j, c) \o Content(h, b)
    /\ Live(k, e)
    /\ \A y : y # e /\ Available(j, R \cup {c}, y) => Available(k, R \cup {c}, y)

\* The header of the record.
LEMMA MiddleNew ==
  ASSUME NEW h, NEW hd, NEW st, NEW wk, NEW lk, NEW bo, Core(h, hd, st, wk, lk, bo),
         NEW R, R = Roots(hd, FramesOf(st) \cup FramesOf(wk)),
         NEW c, Available(h, R, c), NEW u \in Seq(Units), NEW j, j = New(h, c, u)
  PROVE  Headed(h, hd, st, wk, lk, bo, R, c, u, j)
<1> DEFINE F == FramesOf(st) \cup FramesOf(wk)
<1>0. /\ Typed(hd, st, wk, lk, bo) /\ Good(h, R) /\ c \in Cells /\ c \notin R /\ R \subseteq Cells
      /\ h \in Heaps
  BY DEF Core, Available, Roots, Good
<1>1. NewSound(h, R, c, u, j)
  BY <1>0, NewGood
<1>2. h[c].refcnt = 0 /\ \A x \in Places : x # c => c \notin Reach(h, x)
  BY <1>0, AvailableIs
<1>3. ASSUME ~bo PROVE c \notin lk
  BY <1>0, <1>2, <1>3 DEF Core, Sole
<1>4. Typed(hd, st, wk, lk \cup {c}, bo)
  BY <1>0 DEF Typed
<1>5. ASSUME ~bo, NEW x \in Cells
      PROVE  Ext(hd, wk, st, lk \cup {c})[x] = Ext(hd, wk, st, lk)[x] + One(c, x)
  <2>1. /\ Ext(hd, wk, st, lk)[x] = hd[x] + Works(wk, x) + Stacks(st, x) + Leaks(lk, x)
        /\ hd[x] \in Nat /\ Works(wk, x) \in Nat /\ Stacks(st, x) \in Nat
    BY <1>0, ExtIs DEF ExtSound
  <2>2. Ext(hd, wk, st, lk \cup {c})[x] = hd[x] + Works(wk, x) + Stacks(st, x) + Leaks(lk \cup {c}, x)
    BY <1>4, ExtIs DEF ExtSound
  <2>3. Leaks(lk \cup {c}, x) = Leaks(lk, x) + One(c, x) /\ Leaks(lk, x) \in Nat /\ One(c, x) \in Nat
    BY <1>3, <1>5 DEF Leaks, One
  <2> QED
    BY <2>1, <2>2, <2>3
<1>6. Added(hd, hd, st, wk, lk, lk \cup {c}, bo, c)
  BY <1>4, <1>5 DEF Added
<1>7. Core(j, hd, st, wk, lk \cup {c}, bo)
  BY <1>6, CoreMade
<1>8. Safe(j, c)
  <2>1. Reach(j, c) = {c} /\ j[c].refcnt = 1
    BY <1>0, <1>1 DEF NewSound
  <2> QED
    BY <2>1 DEF Safe, Live
<1>9. ASSUME NEW x \in R
      PROVE  /\ c \notin Reach(j, x) /\ Content(j, x) = Content(h, x)
             /\ Safe(h, x) => Safe(j, x)
  <2>1. x \in Places /\ x # c
    BY <1>0, CellsAre
  <2>2. Reach(j, x) = Reach(h, x) /\ Content(j, x) = Content(h, x) /\ c \notin Reach(h, x)
    BY <1>1, <1>2, <2>1 DEF NewSound
  <2>3. Reach(h, x) \subseteq Cells
    BY <1>0, <2>1, ReachClosed DEF Good
  <2>4. \A d \in Reach(h, x) : j[d].refcnt = h[d].refcnt
    BY <1>1, <2>2, <2>3 DEF NewSound
  <2> QED
    BY <2>2, <2>4 DEF Safe, Live
<1>10. Good(j, R \cup {c}) /\ Content(j, c) = u
  BY <1>1 DEF NewSound
<1>11. \A e : e # c /\ Available(h, R, e) => Available(j, R \cup {c}, e)
  BY <1>1 DEF NewSound
<1>12. Middle(h, hd, st, wk, lk, bo, c, j)
  BY <1>0, <1>3, <1>7, <1>8, <1>9, <1>10 DEF Middle
<1> QED
  BY <1>10, <1>11, <1>12 DEF Headed

\* A copy of the key, or of the value.
LEMMA MiddleGraft ==
  ASSUME NEW h, NEW hd, NEW st, NEW wk, NEW lk, NEW bo, NEW c, NEW j,
         Middle(h, hd, st, wk, lk, bo, c, j),
         NEW R, R = Roots(hd, FramesOf(st) \cup FramesOf(wk)),
         NEW b \in Cells, hd[b] > 0, Safe(h, b),
         NEW e, Available(j, R \cup {c}, e), NEW k, k = Graft(j, c, b, e)
  PROVE  Copied(h, hd, st, wk, lk, bo, R, c, b, e, j, k)
<1> DEFINE F == FramesOf(st) \cup FramesOf(wk)
           Q == R \cup {c}
           l == lk \cup {c}
           E == Ext(hd, wk, st, l)
<1>0. /\ Core(j, hd, st, wk, l, bo) /\ Good(j, Q) /\ Safe(j, c) /\ c \in Cells /\ c \notin R
      /\ (~bo => c \notin lk) /\ Available(j, Q, e) /\ e \in Cells
      /\ \A x \in R : /\ c \notin Reach(j, x) /\ Content(j, x) = Content(h, x)
                      /\ Safe(h, x) => Safe(j, x)
  BY DEF Middle, Available
<1>1. /\ Typed(hd, st, wk, l, bo) /\ Wanted(j, F) /\ F \subseteq Frames /\ b \in R /\ R \subseteq Cells
      /\ j \in Heaps /\ Acyclic(j) /\ R \subseteq Q /\ b \in Q /\ c \in Q
      /\ (~bo => Counted(j, E))
  BY <1>0 DEF Core, FramesOf, Roots, Good
<1>2. E \in [Cells -> Nat]
  BY <1>1, ExtIs DEF ExtSound
<1>3. c \notin Reach(j, b) /\ Content(j, b) = Content(h, b) /\ Safe(j, b)
  BY <1>0, <1>1
<1>4. Live(j, b)
  <2>1. b \in Reach(j, b)
    BY <1>1, ReachClosed, CellsAre
  <2> QED
    BY <1>3, <2>1 DEF Safe
<1>5. Q = Q /\ \A f \in F : f.buf \in Places /\ (f.buf = NULL \/ f.buf \in R)
  BY <1>1, FrameType DEF Roots, Places
<1>6. c \notin Reach(j, NULL)
  BY <1>1, ReachIs
<1> HIDE DEF Q, l, E
<1>7. GraftSound(j, Q, c, b, e, k)
  BY <1>0, <1>1, <1>3, <1>4, GraftGood
<1>8. /\ Good(k, Q)
      /\ \A x \in Places : (x = NULL \/ x \in Q) /\ c \notin Reach(j, x) =>
             Keeps(j, k, x) /\ Reach(k, x) = Reach(j, x) /\ Content(k, x) = Content(j, x)
      /\ Content(k, c) = Content(j, c) \o Content(j, b)
      /\ \A d \in Cells : k[d].refcnt = IF d = e THEN 1
                                        ELSE IF d = b THEN j[d].refcnt + 1 ELSE j[d].refcnt
      /\ \A y : y # e /\ Available(j, Q, y) => Available(k, Q, y)
      /\ ~bo => Counted(k, E)
  BY <1>1, <1>2, <1>7 DEF GraftSound
<1>9. Safe(k, c)
  BY <1>0, <1>1, <1>3, GraftSafe
<1>10. Wanted(k, F)
  <2> SUFFICES ASSUME NEW f \in F, ~f.hurt, Safe(k, f.buf) PROVE Content(k, f.buf) = f.want
    BY DEF Wanted
  <2>1. c \notin Reach(j, f.buf)
    BY <1>0, <1>5, <1>6
  <2>2. Safe(j, f.buf) /\ Content(k, f.buf) = Content(j, f.buf)
    BY <1>1, <1>5, <1>8, <2>1 DEF Keeps
  <2> QED
    BY <1>1, <2>2 DEF Wanted
<1>11. Good(k, R)
  BY <1>1, <1>8, GoodLess
<1>12. Grown(j, k, hd, b, e)
  BY <1>0, <1>7 DEF GraftSound, Grown
<1>13. \A g \in F : g.buf # NULL => \E f \in F : f.buf = g.buf
  OBVIOUS
<1>14. Core(k, hd, st, wk, l, bo)
  BY <1>0, <1>1, <1>8, <1>10, <1>11, <1>12, <1>13, CoreGrown DEF E
<1>15. ASSUME NEW x \in R
       PROVE  /\ c \notin Reach(k, x) /\ Content(k, x) = Content(h, x)
              /\ Safe(h, x) => Safe(k, x)
  <2>1. x \in Places /\ x \in Q /\ c \notin Reach(j, x) /\ Content(j, x) = Content(h, x)
        /\ (Safe(h, x) => Safe(j, x))
    BY <1>0, <1>1, CellsAre
  <2>2. Reach(k, x) = Reach(j, x) /\ Content(k, x) = Content(j, x)
    BY <1>8, <2>1
  <2>3. Reach(j, x) \subseteq Cells
    BY <1>1, <2>1, ReachClosed
  <2>4. \A d \in Reach(j, x) : Live(j, d) => Live(k, d)
    <3> SUFFICES ASSUME NEW d \in Reach(j, x), j[d].refcnt > 0 PROVE k[d].refcnt > 0
      BY DEF Live
    <3>1. d \in Cells /\ j[d].refcnt \in Nat
      BY <1>1, <2>3, CellType
    <3> QED
      BY <1>8, <3>1
  <2> QED
    BY <2>1, <2>2, <2>4 DEF Safe
<1>16. Middle(h, hd, st, wk, lk, bo, c, k)
  BY <1>0, <1>8, <1>9, <1>14, <1>15 DEF Middle, Q, l
<1>17. Live(k, e)
  BY <1>0, <1>8 DEF Live
<1> QED
  BY <1>3, <1>8, <1>16, <1>17 DEF Q, Copied

\* The transaction that logdb_put makes.
PutFrame(h, hd, st, wk, bo, c, j, g, b2) ==
    /\ g \in Frames
    /\ b2 \in BOOLEAN /\ (bo => b2)
    /\ g.buf \in {c, NULL} \/ (b2 /\ g.buf \in Roots(hd, FramesOf(st) \cup FramesOf(wk)))
    /\ ~g.hurt => g.buf = c /\ Content(j, c) = g.want

\* The transaction becomes that of t's logdb_put, and the record is leaked where it has
\* another buffer.
PutInto(wk, lk, t, c, g, w2, l2) ==
    w2 = [wk EXCEPT ![t] = <<g>>] /\ l2 = lk \cup IF g.buf = c THEN {} ELSE {c}

\* The invariant after logdb_put has made its transaction.
LEMMA CorePut ==
  ASSUME NEW h, NEW hd, NEW st, NEW wk, NEW lk, NEW bo, NEW c, NEW j,
         Middle(h, hd, st, wk, lk, bo, c, j),
         NEW t \in Threads, wk[t] = <<>>, NEW g, NEW b2, PutFrame(h, hd, st, wk, bo, c, j, g, b2),
         NEW w2, NEW l2, PutInto(wk, lk, t, c, g, w2, l2)
  PROVE  Core(j, hd, st, w2, l2, b2)
<1>r. w2 = [wk EXCEPT ![t] = <<g>>] /\ l2 = lk \cup IF g.buf = c THEN {} ELSE {c}
  BY DEF PutInto
<1> USE <1>r
<1> DEFINE F == FramesOf(st) \cup FramesOf(wk)
           G == FramesOf(st) \cup FramesOf(w2)
           R == Roots(hd, F)
           l == lk \cup {c}
<1>0. /\ Core(j, hd, st, wk, l, bo) /\ Good(j, R \cup {c}) /\ c \in Cells /\ c \notin R
      /\ (~bo => c \notin lk) /\ Typed(hd, st, wk, l, bo) /\ Wanted(j, F)
  BY DEF Middle, Core
<1>1. /\ g \in Frames /\ b2 \in BOOLEAN /\ (bo => b2) /\ g.buf \in Places
      /\ (g.buf \in {c, NULL} \/ (b2 /\ g.buf \in R))
      /\ ~g.hurt => g.buf = c /\ Content(j, c) = g.want
  BY FrameType DEF PutFrame
<1>2. wk \in [Threads -> Seq(Frames)] /\ \A u \in Threads : Len(wk[u]) <= 1
  BY <1>0 DEF Typed
<1>3. <<g>> \in Seq(Frames) /\ Len(<<g>>) = 1 /\ <<g>>[1] = g /\ <<g>> # <<>> /\ Head(<<g>>) = g
  BY <1>1
<1>4. w2 \in [Threads -> Seq(Frames)] /\ w2[t] = <<g>> /\ \A u \in Threads : u # t => w2[u] = wk[u]
  BY <1>2, <1>3
<1>5. Typed(hd, st, w2, l2, b2)
  <2>1. \A u \in Threads : Len(w2[u]) <= 1
    BY <1>2, <1>3, <1>4
  <2>2. l2 \subseteq Cells
    BY <1>0 DEF Typed
  <2> QED
    BY <1>0, <1>1, <1>4, <2>1, <2>2 DEF Typed
<1>6. \A x \in FramesOf(w2) : x = g \/ x \in FramesOf(wk)
  <2> SUFFICES ASSUME NEW x \in FramesOf(w2) PROVE x = g \/ x \in FramesOf(wk)
    OBVIOUS
  <2>1. PICK u \in Threads : \E i \in 1..Len(w2[u]) : w2[u][i] = x
    BY DEF FramesOf
  <2>2. PICK i \in 1..Len(w2[u]) : w2[u][i] = x
    BY <2>1
  <2>3. CASE u = t
    <3>1. Len(w2[u]) = 1
      BY <1>3, <1>4, <2>3
    <3>2. i \in 1..1
      BY <3>1
    <3>3. i = 1
      BY <3>2
    <3> QED
      BY <1>3, <1>4, <2>2, <2>3, <3>3
  <2>4. CASE u # t
    BY <1>4, <2>2, <2>4 DEF FramesOf
  <2> QED
    BY <2>3, <2>4
<1>7. wk = [w2 EXCEPT ![t] = <<>>]
  <2>1. \A u \in Threads : [w2 EXCEPT ![t] = <<>>][u] = wk[u]
    BY <1>4
  <2> QED
    BY <1>2, <1>4, <2>1
<1>8. \A x : Works(w2, x) = Works(wk, x) + One(g.buf, x)
  <2> TAKE x
  <2>1. w2[t] # <<>> /\ Head(w2[t]) = g
    BY <1>3, <1>4
  <2>2. Works(w2, x) = Works(wk, x) + One(Head(w2[t]).buf, x)
    BY <1>4, <1>7, <2>1, WorksPop
  <2> QED
    BY <2>1, <2>2
<1>9. Good(j, Roots(hd, G))
  <2>1. Roots(hd, G) \subseteq R \cup {c}
    BY <1>1, <1>6, CellsAre DEF Roots
  <2> HIDE DEF G, R
  <2> QED
    BY <1>0, <2>1, GoodLess
<1>10. Wanted(j, G)
  BY <1>0, <1>1, <1>6 DEF Wanted
<1>11. ASSUME ~b2 PROVE Reframed(hd, st, wk, l, st, w2, l2)
  <2>1. ~bo /\ c \notin lk /\ g.buf \in {c, NULL}
    BY <1>0, <1>1, <1>11
  <2>2. ASSUME NEW x \in Cells PROVE Ext(hd, w2, st, l2)[x] = Ext(hd, wk, st, l)[x]
    <3>1. /\ Ext(hd, wk, st, l)[x] = hd[x] + Works(wk, x) + Stacks(st, x) + Leaks(l, x)
          /\ hd[x] \in Nat /\ Works(wk, x) \in Nat /\ Stacks(st, x) \in Nat
      BY <1>0, ExtIs DEF ExtSound
    <3>2. Ext(hd, w2, st, l2)[x] = hd[x] + Works(w2, x) + Stacks(st, x) + Leaks(l2, x)
      BY <1>5, ExtIs DEF ExtSound
    <3>3. Works(w2, x) = Works(wk, x) + One(g.buf, x)
      BY <1>8
    <3>4. One(g.buf, x) + Leaks(l2, x) = Leaks(l, x) /\ One(g.buf, x) \in Nat /\ Leaks(l2, x) \in Nat
      <4>1. CASE g.buf = c
        <5>1. l2 = lk
          BY <4>1
        <5> QED
          BY <2>1, <4>1, <5>1 DEF One, Leaks
      <4>2. CASE g.buf = NULL
        <5>1. l2 = l /\ g.buf # x
          BY <1>0, <4>2, CellsAre
        <5> QED
          BY <5>1 DEF One, Leaks
      <4> QED
        BY <2>1, <4>1, <4>2
    <3> QED
      BY <3>1, <3>2, <3>3, <3>4
  <2>3. \A y \in G : y.buf # NULL => y.buf \in l \/ \E f \in F : f.buf = y.buf
    BY <1>6, <2>1
  <2>4. l2 \subseteq l
    OBVIOUS
  <2> QED
    BY <2>2, <2>3, <2>4 DEF Reframed
<1>12. Reframes(hd, st, wk, l, bo, st, w2, l2, b2)
  BY <1>1, <1>11 DEF Reframes
<1>13. Core(j, hd, st, wk, l, bo)
  BY <1>0
<1> HIDE DEF l
<1> QED
  BY <1>5, <1>9, <1>10, <1>12, <1>13, CoreFrames
-----------------------------------------------------------------------------
(***************************************************************************)
(* The commit of a nested transaction.                                     *)
(***************************************************************************)

\* s2 is s1 with another first transaction of t, and the others as by Marked.
Relay(h, S, s2, s1, t) ==
    /\ s1 \in [Threads -> Seq(Frames)] /\ s2 \in [Threads -> Seq(Frames)]
    /\ t \in Threads /\ s1[t] # <<>>
    /\ \A u \in Threads : Len(s2[u]) = Len(s1[u]) /\ Len(s1[u]) <= MaxDepth
    /\ \A u \in Threads : \A i \in 1..Len(s1[u]) : u # t \/ i # 1 =>
        /\ s2[u][i].buf = s1[u][i].buf /\ s2[u][i].want = s1[u][i].want
        /\ ~s2[u][i].hurt => ~s1[u][i].hurt /\ Reach(h, s1[u][i].buf) \cap S = {}

\* What follows for the transactions and the pointers.
RelaySound(h, S, s2, s1, t) ==
    /\ s2[t] # <<>>
    /\ Head(s1[t]) \in FramesOf(s1) /\ Head(s2[t]) \in FramesOf(s2)
    /\ \A g \in FramesOf(s2) : g = Head(s2[t]) \/ \E f \in FramesOf(s1) :
        /\ g.buf = f.buf /\ g.want = f.want
        /\ ~g.hurt => ~f.hurt /\ Reach(h, f.buf) \cap S = {}
    /\ \A x : Stacks(s2, x) + One(Head(s1[t]).buf, x) = Stacks(s1, x) + One(Head(s2[t]).buf, x)

\* The pointers of the two stacks differ in that transaction.
LEMMA RelayIs ==
  ASSUME NEW h, NEW S, NEW s1, NEW s2, NEW t, Relay(h, S, s2, s1, t)
  PROVE  RelaySound(h, S, s2, s1, t)
<1> DEFINE r1 == [s1 EXCEPT ![t] = Tail(@)]
           r2 == [s2 EXCEPT ![t] = Tail(@)]
<1>1. /\ s1 \in [Threads -> Seq(Frames)] /\ s2 \in [Threads -> Seq(Frames)]
      /\ t \in Threads /\ s1[t] # <<>> /\ s1[t] \in Seq(Frames) /\ s2[t] \in Seq(Frames)
      /\ \A u \in Threads : Len(s2[u]) = Len(s1[u]) /\ Len(s1[u]) <= MaxDepth
      /\ Len(s2[t]) = Len(s1[t])
  BY DEF Relay
<1>2. s2[t] # <<>> /\ Len(s1[t]) \in Nat \ {0}
  BY <1>1
<1>3. /\ r1 \in [Threads -> Seq(Frames)] /\ r1[t] = Tail(s1[t])
      /\ \A u \in Threads : u # t => r1[u] = s1[u]
  <2>1. Tail(s1[t]) \in Seq(Frames)
    BY <1>1, <1>2
  <2> QED
    BY <1>1, <2>1
<1>4. /\ r2 \in [Threads -> Seq(Frames)] /\ r2[t] = Tail(s2[t])
      /\ \A u \in Threads : u # t => r2[u] = s2[u]
  <2>1. Tail(s2[t]) \in Seq(Frames)
    BY <1>1, <1>2
  <2> QED
    BY <1>1, <2>1
<1> HIDE DEF r1, r2
<1>5. Shorter(r1, s1, t) /\ Shorter(r2, s2, t)
  BY <1>1, <1>2, <1>3, <1>4 DEF Shorter
<1>6. SameBufs(r2, r1)
  <2> SUFFICES ASSUME NEW u \in Threads
               PROVE  /\ Len(r2[u]) = Len(r1[u])
                      /\ \A i \in 1..Len(r1[u]) : r2[u][i].buf = r1[u][i].buf
    BY DEF SameBufs
  <2>1. CASE u # t
    BY <1>1, <1>3, <1>4, <2>1 DEF Relay
  <2>2. CASE u = t
    <3>1. /\ Len(r1[t]) = Len(s1[t]) - 1 /\ Len(r2[t]) = Len(s1[t]) - 1
          /\ \A i \in 1..(Len(s1[t]) - 1) : r1[t][i] = s1[t][i + 1] /\ r2[t][i] = s2[t][i + 1]
      BY <1>1, <1>2, <1>3, <1>4
    <3>2. \A i \in 1..(Len(s1[t]) - 1) : i + 1 \in 1..Len(s1[t]) /\ i + 1 # 1
      BY <1>2
    <3>3. \A i \in 1..(Len(s1[t]) - 1) : s2[t][i + 1].buf = s1[t][i + 1].buf
      BY <1>1, <3>2 DEF Relay
    <3> QED
      BY <2>2, <3>1, <3>3
  <2> QED
    BY <2>1, <2>2
<1>7. ASSUME NEW x
      PROVE  Stacks(s2, x) + One(Head(s1[t]).buf, x) = Stacks(s1, x) + One(Head(s2[t]).buf, x)
  <2>1. Stacks(s1, x) = Stacks(r1, x) + One(Head(s1[t]).buf, x)
    BY <1>5, StacksPop
  <2>2. Stacks(s2, x) = Stacks(r2, x) + One(Head(s2[t]).buf, x)
    BY <1>5, StacksPop
  <2>3. Stacks(r2, x) = Stacks(r1, x)
    BY <1>3, <1>4, <1>6, SameBufsCount
  <2>4. Stacks(r1, x) \in Nat /\ One(Head(s1[t]).buf, x) \in Nat /\ One(Head(s2[t]).buf, x) \in Nat
    BY CountsFinite DEF One
  <2> QED
    BY <2>1, <2>2, <2>3, <2>4
<1>8. Head(s1[t]) \in FramesOf(s1) /\ Head(s2[t]) \in FramesOf(s2)
  BY <1>5, PushFrames
<1>9. ASSUME NEW g \in FramesOf(s2)
      PROVE  g = Head(s2[t]) \/ \E f \in FramesOf(s1) :
                /\ g.buf = f.buf /\ g.want = f.want
                /\ ~g.hurt => ~f.hurt /\ Reach(h, f.buf) \cap S = {}
  <2>1. PICK u \in Threads : \E i \in 1..Len(s2[u]) : s2[u][i] = g
    BY DEF FramesOf
  <2>2. PICK i \in 1..Len(s2[u]) : s2[u][i] = g
    BY <2>1
  <2>3. CASE u = t /\ i = 1
    <3>1. Head(s2[t]) = s2[t][1]
      BY <1>1, <1>2
    <3> QED
      BY <2>2, <2>3, <3>1
  <2>4. CASE u # t \/ i # 1
    <3>1. i \in 1..Len(s1[u]) /\ s1[u] \in Seq(Frames)
      BY <1>1
    <3>2. s1[u][i] \in Frames
      BY <3>1
    <3>3. s1[u][i] \in FramesOf(s1)
      BY <3>1, <3>2 DEF FramesOf
    <3> QED
      BY <2>2, <2>4, <3>1, <3>3 DEF Relay
  <2> QED
    BY <2>3, <2>4
<1> QED
  BY <1>2, <1>7, <1>8, <1>9 DEF RelaySound

\* The transactions s1 and w1 that are left when t has popped the innermost one.
Resumed(st, wk, t, s, s1, w1) ==
    s1 = [st EXCEPT ![t] = s] /\ w1 = [wk EXCEPT ![t] = <<>>]

\* The transactions s2 and w2 after the nested commit, in which g is the outer one
\* and the buffers of S grew.
Handover(st, wk, t, s, S, g, s2, w2) ==
    /\ s2 = [u \in Threads |-> IF u = t THEN <<g>> \o Marked(Tail(s), S) ELSE Marked(st[u], S)]
    /\ w2 = [u \in Threads |-> IF u = t THEN <<>> ELSE Marked(wk[u], S)]

\* g is the outer transaction o with what f was given.
Joined(o, f, g) ==
    g.want = o.want \o f.want /\ (~g.hurt => ~o.hurt /\ ~f.hurt)

\* What the outer transaction o becomes when nothing is appended to its buffer.  It
\* gets the buffer of f, or loses its own, or is as it was.
Taken(o, f, g, lk, bo, l2, b2) ==
    \/ /\ o.buf = NULL /\ g.buf = f.buf /\ g.want = o.want \o f.want
       /\ (~g.hurt => ~o.hurt /\ ~f.hurt) /\ b2 = TRUE /\ l2 = lk
    \/ /\ o.buf # NULL /\ g.buf = NULL /\ g.hurt /\ b2 = bo /\ l2 = lk \cup {o.buf}
    \/ /\ g.buf = o.buf /\ g.hurt /\ b2 = bo /\ l2 = lk

\* The state in which a nested commit ends: o, the first of the outer transactions s,
\* is g then.
NestedEnd(h, S, s1, w1, t, s2, w2, g) ==
    /\ Relay(h, S, s2, s1, t) /\ Remarked(h, S, w2, w1)
    /\ Head(s2[t]) = g

\* The types, the transactions and the pointers after it.
NestedSound(h, S, hd, s1, w1, t, s2, w2, g) ==
    /\ \A l2, b2 : l2 \subseteq Cells /\ b2 \in BOOLEAN => Typed(hd, s2, w2, l2, b2)
    /\ \A y \in FramesOf(s2) \cup FramesOf(w2) :
        y = g \/ \E f \in FramesOf(s1) \cup FramesOf(w1) :
                    /\ y.buf = f.buf /\ y.want = f.want
                    /\ ~y.hurt => ~f.hurt /\ Reach(h, f.buf) \cap S = {}
    /\ g \in FramesOf(s2) /\ g \in Frames
    /\ Head(s1[t]) \in FramesOf(s1) /\ Head(s1[t]) \in Frames
    /\ \A x : Stacks(s2, x) + One(Head(s1[t]).buf, x) = Stacks(s1, x) + One(g.buf, x)
    /\ \A x : Works(w2, x) = Works(w1, x)

\* What is left of the transactions.
LEMMA NestedEndIs ==
  ASSUME NEW h, NEW S, NEW hd, NEW s1, NEW w1, NEW lk, NEW bo, Typed(hd, s1, w1, lk, bo),
         NEW t, NEW s2, NEW w2, NEW g, NestedEnd(h, S, s1, w1, t, s2, w2, g)
  PROVE  NestedSound(h, S, hd, s1, w1, t, s2, w2, g)
<1>1. Relay(h, S, s2, s1, t) /\ Remarked(h, S, w2, w1) /\ Head(s2[t]) = g
  BY DEF NestedEnd
<1>2. w1 \in [Threads -> Seq(Frames)] /\ w2 \in [Threads -> Seq(Frames)]
  BY <1>1 DEF Typed, Remarked
<1>3. RelaySound(h, S, s2, s1, t) /\ RemarkSound(h, S, w2, w1)
  BY <1>1, <1>2, RelayIs, RemarkIs
<1>4. ASSUME NEW l2, NEW b2, l2 \subseteq Cells, b2 \in BOOLEAN PROVE Typed(hd, s2, w2, l2, b2)
  BY <1>1, <1>4 DEF Typed, Relay, Remarked
<1>5. \A x : Works(w2, x) = Works(w1, x)
  BY <1>2, <1>3, SameBufsCount DEF RemarkSound
<1>6. ASSUME NEW y \in FramesOf(s2)
      PROVE  y = g \/ \E f \in FramesOf(s1) \cup FramesOf(w1) :
                         /\ y.buf = f.buf /\ y.want = f.want
                         /\ ~y.hurt => ~f.hurt /\ Reach(h, f.buf) \cap S = {}
  BY <1>1, <1>3 DEF RelaySound
<1>7. ASSUME NEW y \in FramesOf(w2)
      PROVE  \E f \in FramesOf(s1) \cup FramesOf(w1) :
                         /\ y.buf = f.buf /\ y.want = f.want
                         /\ ~y.hurt => ~f.hurt /\ Reach(h, f.buf) \cap S = {}
  BY <1>3 DEF RemarkSound
<1>8. g \in FramesOf(s2) /\ Head(s1[t]) \in FramesOf(s1)
  BY <1>1, <1>3 DEF RelaySound
<1>9. g \in Frames /\ Head(s1[t]) \in Frames
  BY <1>8 DEF FramesOf
<1>10. \A x : Stacks(s2, x) + One(Head(s1[t]).buf, x) = Stacks(s1, x) + One(g.buf, x)
  BY <1>1, <1>3 DEF RelaySound
<1> QED
  BY <1>4, <1>5, <1>6, <1>7, <1>8, <1>9, <1>10 DEF NestedSound

\* A nested commit that appends nothing.
LEMMA CoreNested ==
  ASSUME NEW h, NEW hd, NEW st, NEW wk, NEW lk, NEW bo, Core(h, hd, st, wk, lk, bo),
         NEW t \in Threads, NEW f, NEW s, Popped(st, wk, t, f, s),
         NEW s1, NEW w1, Resumed(st, wk, t, s, s1, w1),
         NEW j, j = Closed(h, f), NEW S, NEW s2, NEW w2, NEW g,
         NestedEnd(h, S, s1, w1, t, s2, w2, g),
         NEW o, o = Head(s1[t]), NEW l2, NEW b2, Taken(o, f, g, lk, bo, l2, b2)
  PROVE  Core(j, hd, s2, w2, l2, b2)
<1>r. s1 = [st EXCEPT ![t] = s] /\ w1 = [wk EXCEPT ![t] = <<>>]
  BY DEF Resumed
<1> DEFINE F == FramesOf(st) \cup FramesOf(wk)
           H == FramesOf(s1) \cup FramesOf(w1)
           G == FramesOf(s2) \cup FramesOf(w2)
           R == Roots(hd, F)
<1>0. Typed(hd, st, wk, lk, bo) /\ Wanted(h, F) /\ h \in Heaps /\ Acyclic(h)
  BY DEF Core, Good
<1>1. Core(j, hd, s1, w1, lk, bo) /\ (\A x \in Places : Keeps(h, j, x)) /\ Good(j, R)
  <2>1. CloseSound(h, hd, st, wk, lk, bo, s1, w1, j)
    BY <1>r, CoreClose
  <2> QED
    BY <2>1 DEF CloseSound
<1>2. Typed(hd, s1, w1, lk, bo) /\ Wanted(j, H)
  BY <1>1 DEF Core
<1>3. f \in Frames /\ f \in F /\ FramesOf(s1) \subseteq FramesOf(st) /\ FramesOf(w1) \subseteq FramesOf(wk)
  <2>1. PopSound(hd, st, wk, lk, bo, t, f, s, s1, w1)
    BY <1>0, <1>r, PopIs
  <2> QED
    BY <2>1 DEF PopSound
<1>4. NestedSound(h, S, hd, s1, w1, t, s2, w2, g)
  BY <1>2, NestedEndIs
<1>5. o \in H /\ o \in Frames /\ g \in Frames /\ o.buf \in Places /\ f.buf \in Places /\ H \subseteq F
  BY <1>3, <1>4, FrameType DEF NestedSound
<1>6. b2 \in BOOLEAN /\ (bo => b2) /\ l2 \subseteq Cells
  BY <1>0, <1>5 DEF Taken, Typed, Places
<1>7. Typed(hd, s2, w2, l2, b2)
  BY <1>4, <1>6 DEF NestedSound
<1>8. \A y \in G : y = g \/ \E e \in H : /\ y.buf = e.buf /\ y.want = e.want
                                         /\ ~y.hurt => ~e.hurt
  BY <1>4 DEF NestedSound
<1>9. g.buf = NULL \/ (\E e \in F : e.buf = g.buf)
  BY <1>3, <1>5 DEF Taken
<1>10. Good(j, Roots(hd, G))
  <2>0. \A y \in G : y.buf = NULL \/ \E e \in F : e.buf = y.buf
    BY <1>5, <1>8, <1>9
  <2>1. Roots(hd, G) \subseteq R
    BY <2>0, CellsAre DEF Roots
  <2> HIDE DEF G, R
  <2> QED
    BY <1>1, <2>1, GoodLess
<1>11. ASSUME ~g.hurt, Safe(j, g.buf) PROVE Content(j, g.buf) = g.want
  <2>1. o.buf = NULL /\ g.buf = f.buf /\ g.want = o.want \o f.want /\ ~o.hurt /\ ~f.hurt
    BY <1>11 DEF Taken
  <2>2. Safe(h, f.buf) /\ Content(j, f.buf) = Content(h, f.buf)
    BY <1>1, <1>5, <1>11, <2>1 DEF Keeps
  <2>3. Content(h, f.buf) = f.want
    BY <1>0, <1>3, <2>1, <2>2 DEF Wanted
  <2>4. Reach(h, NULL) = {} /\ Content(h, NULL) = <<>>
    BY <1>0, ReachIs, ContentIs
  <2>5. Safe(h, o.buf)
    BY <2>1, <2>4 DEF Safe
  <2>6. o.want = <<>>
    BY <1>0, <1>5, <2>1, <2>4, <2>5 DEF Wanted
  <2>7. f.want \in Seq(Units)
    BY <1>3, FrameType
  <2>8. o.want \o f.want = f.want
    BY <2>6, <2>7, Concat
  <2> QED
    BY <2>1, <2>2, <2>3, <2>8
<1>12. Wanted(j, G)
  <2> SUFFICES ASSUME NEW y \in G, ~y.hurt, Safe(j, y.buf) PROVE Content(j, y.buf) = y.want
    BY DEF Wanted
  <2>1. CASE y = g
    BY <1>11, <2>1
  <2>2. CASE y # g
    BY <1>2, <1>8, <2>2 DEF Wanted
  <2> QED
    BY <2>1, <2>2
<1>13. ASSUME ~b2 PROVE Reframed(hd, s1, w1, lk, s2, w2, l2)
  <2>1. ~bo /\ \/ o.buf # NULL /\ g.buf = NULL /\ l2 = lk \cup {o.buf}
               \/ g.buf = o.buf /\ l2 = lk
    BY <1>6, <1>13 DEF Taken
  <2>2. Counted(j, Ext(hd, w1, s1, lk)) /\ Sole(j, H, lk)
    BY <1>1, <2>1 DEF Core
  <2>3. ASSUME NEW x \in Cells PROVE Ext(hd, w2, s2, l2)[x] = Ext(hd, w1, s1, lk)[x]
    <3>0. ExtSound(hd, w1, s1, lk)
      BY <1>2, ExtIs
    <3>1. /\ Ext(hd, w1, s1, lk)[x] = hd[x] + Works(w1, x) + Stacks(s1, x) + Leaks(lk, x)
          /\ hd[x] \in Nat /\ Works(w1, x) \in Nat /\ Stacks(s1, x) \in Nat /\ Leaks(lk, x) \in 0..1
          /\ (\E e \in FramesOf(s1) : e.buf = x) => Stacks(s1, x) >= 1
      BY <3>0 DEF ExtSound
    <3>2. /\ Ext(hd, w2, s2, l2)[x] = hd[x] + Works(w2, x) + Stacks(s2, x) + Leaks(l2, x)
          /\ Stacks(s2, x) \in Nat
      BY <1>7, ExtIs DEF ExtSound
    <3>3. /\ Works(w2, x) = Works(w1, x)
          /\ Stacks(s2, x) + One(o.buf, x) = Stacks(s1, x) + One(g.buf, x)
      BY <1>4 DEF NestedSound
    <3>4. CASE g.buf = o.buf /\ l2 = lk
      <4>1. One(o.buf, x) = One(g.buf, x) /\ One(o.buf, x) \in Nat
        BY <3>4 DEF One
      <4>2. Stacks(s2, x) = Stacks(s1, x)
        BY <3>1, <3>2, <3>3, <4>1
      <4> QED
        BY <3>1, <3>2, <3>3, <3>4, <4>2
    <3>5. CASE o.buf # NULL /\ g.buf = NULL /\ l2 = lk \cup {o.buf}
      <4>1. One(g.buf, x) = 0
        BY <3>5, CellsAre DEF One
      <4>2. CASE x = o.buf
        <5>1. j[x].refcnt = 1
          BY <1>5, <2>2, <4>2 DEF Sole
        <5>2. /\ j[x].refcnt = Ext(hd, w1, s1, lk)[x] + Origs(j, x) + Nexts(j, x)
              /\ Origs(j, x) \in Nat /\ Nexts(j, x) \in Nat
          BY <2>2, PointerCounts DEF Counted
        <5>3. Stacks(s1, x) >= 1
          <6>1. o \in FramesOf(s1)
            BY <1>4 DEF NestedSound
          <6> QED
            BY <3>1, <4>2, <6>1
        <5>4. Leaks(lk, x) = 0
          BY <3>1, <5>1, <5>2, <5>3
        <5>5. Leaks(l2, x) = 1 /\ One(o.buf, x) = 1
          <6>1. x \in l2
            BY <3>5, <4>2
          <6> QED
            BY <4>2, <6>1 DEF Leaks, One
        <5> QED
          BY <3>1, <3>2, <3>3, <4>1, <5>4, <5>5
      <4>3. CASE x # o.buf
        <5>1. Leaks(l2, x) = Leaks(lk, x) /\ One(o.buf, x) = 0
          BY <3>5, <4>3 DEF Leaks, One
        <5> QED
          BY <3>1, <3>2, <3>3, <4>1, <5>1
      <4> QED
        BY <4>2, <4>3
    <3> QED
      BY <2>1, <3>4, <3>5
  <2>4. \A d \in Cells : d \in l2 => d \in lk \/ \E e \in H : e.buf = d
    BY <1>5, <2>1
  <2>5. \A y \in G : y.buf # NULL => \E e \in H : e.buf = y.buf
    BY <1>5, <1>8, <2>1
  <2> QED
    BY <2>3, <2>4, <2>5 DEF Reframed
<1>14. Reframes(hd, s1, w1, lk, bo, s2, w2, l2, b2)
  BY <1>6, <1>13 DEF Reframes
<1> QED
  BY <1>1, <1>7, <1>10, <1>12, <1>14, CoreFrames

\* A buffer b that was appended to a, and that a transaction gives back then.
Handed(h, j, k, R, a, b, c) ==
    /\ Good(k, R)
    /\ \A x \in Places : (x = NULL \/ x \in R) /\ a \notin Reach(h, x) => Keeps(h, k, x)
    /\ Safe(k, a) => Content(k, a) = Content(h, a) \o Content(h, b)
    /\ \A d \in Cells : k[d].refcnt = IF d = c THEN 1 ELSE h[d].refcnt
    /\ \A d \in Cells : k[d].next # NULL => k[d].next \in {c, h[d].next}
    /\ \A d \in Cells : d # c => k[d].orig = h[d].orig
    /\ k[c].orig = b
    /\ \A E \in [Cells -> Nat] : Counted(h, E) /\ E[b] > 0 => Counted(k, [E EXCEPT ![b] = @ - 1])

\* A nested commit appends b to a and frees its own reference to b.
LEMMA HandedIs ==
  ASSUME NEW h, NEW R, Good(h, R), NEW a \in R, NEW b \in R, Safe(h, a), Live(h, b),
         a \notin Reach(h, b), NEW c, Available(h, R, c), NEW j, j = Graft(h, a, b, c),
         NEW k, k = Free(j, b)
  PROVE  Handed(h, j, k, R, a, b, c)
<1>1. GraftSound(h, R, a, b, c, j)
  BY GraftGood
<1>2. /\ h \in Heaps /\ R \subseteq Cells /\ a \in Cells /\ b \in Cells /\ c \in Cells /\ c # b
  BY DEF Good, Available
<1>3. /\ Good(j, R) /\ j \in Heaps
      /\ \A d \in Cells : j[d].refcnt = IF d = c THEN 1
                                        ELSE IF d = b THEN h[d].refcnt + 1 ELSE h[d].refcnt
  BY <1>1 DEF GraftSound, Good
<1>4. h[b].refcnt \in Nat /\ h[b].refcnt > 0 /\ j[b].refcnt > 1
  BY <1>2, <1>3, CellType DEF Live
<1>5. k = Decremented(j, b)
  BY <1>2, <1>3, <1>4, FreeMany
<1>6. \A d \in Cells : /\ k[d].orig = j[d].orig /\ k[d].next = j[d].next
                       /\ k[d].refcnt = IF d = b THEN j[d].refcnt - 1 ELSE j[d].refcnt
  BY <1>2, <1>3, <1>4, <1>5, FreeOneLess
<1>7. \A d \in Cells : k[d].refcnt = IF d = c THEN 1 ELSE h[d].refcnt
  <2> SUFFICES ASSUME NEW d \in Cells PROVE k[d].refcnt = IF d = c THEN 1 ELSE h[d].refcnt
    OBVIOUS
  <2>1. h[d].refcnt \in Nat
    BY <1>2, CellType
  <2>2. k[d].refcnt = (IF d = b THEN j[d].refcnt - 1 ELSE j[d].refcnt)
    BY <1>6
  <2>3. j[d].refcnt = (IF d = c THEN 1 ELSE IF d = b THEN h[d].refcnt + 1 ELSE h[d].refcnt)
    BY <1>3
  <2> QED
    BY <1>2, <2>1, <2>2, <2>3
<1>8. /\ Good(k, R) /\ \A x \in Places : Keeps(j, k, x)
      /\ \A E \in [Cells -> Nat] :
          Counted(j, E) /\ E[b] > 0 => Counted(k, [E EXCEPT ![b] = @ - 1])
  BY <1>2, <1>3, FreeGood
<1>9. /\ \A x \in Places : (x = NULL \/ x \in R) /\ a \notin Reach(h, x) => Keeps(h, j, x)
      /\ Content(j, a) = Content(h, a) \o Content(h, b)
      /\ \A E \in [Cells -> Nat] : Counted(h, E) => Counted(j, E)
  BY <1>1 DEF GraftSound
<1>10. /\ \A d \in Cells : k[d].next # NULL => k[d].next \in {c, h[d].next}
       /\ \A d \in Cells : d # c => k[d].orig = h[d].orig
       /\ k[c].orig = b
  <2>1. /\ \A d \in Cells : j[d].next # NULL => j[d].next \in {c, h[d].next}
        /\ \A d \in Cells : d # c => j[d].orig = h[d].orig
        /\ j[c].orig = b
    BY <1>1 DEF GraftSound
  <2> QED
    BY <1>2, <1>6, <2>1
<1>11. \A x \in Places : (x = NULL \/ x \in R) /\ a \notin Reach(h, x) => Keeps(h, k, x)
  BY <1>8, <1>9 DEF Keeps
<1>12. Safe(k, a) => Content(k, a) = Content(h, a) \o Content(h, b)
  BY <1>2, <1>8, <1>9, CellsAre DEF Keeps
<1>13. \A E \in [Cells -> Nat] : Counted(h, E) /\ E[b] > 0 => Counted(k, [E EXCEPT ![b] = @ - 1])
  BY <1>8, <1>9
<1> QED
  BY <1>7, <1>8, <1>10, <1>11, <1>12, <1>13 DEF Handed

\* A nested commit that appends to the outer transaction's buffer.
LEMMA CoreNestedAppend ==
  ASSUME NEW h, NEW hd, NEW st, NEW wk, NEW lk, NEW bo, Core(h, hd, st, wk, lk, bo),
         NEW t \in Threads, NEW f, NEW s, Popped(st, wk, t, f, s),
         NEW s1, NEW w1, Resumed(st, wk, t, s, s1, w1),
         NEW o, o = Head(s1[t]), NEW a, a = o.buf, a # NULL, NEW b, b = f.buf, b # NULL,
         Safe(h, a), Safe(h, b), a \notin Reach(h, b),
         NEW c, Available(h, Roots(hd, FramesOf(st) \cup FramesOf(wk)), c),
         NEW j, j = Graft(h, a, b, c), NEW k, k = Closed(j, f),
         NEW s2, NEW w2, NEW g, NestedEnd(h, {a}, s1, w1, t, s2, w2, g),
         g.buf = a, Joined(o, f, g)
  PROVE  Core(k, hd, s2, w2, lk, bo)
<1>r. /\ s1 = [st EXCEPT ![t] = s] /\ w1 = [wk EXCEPT ![t] = <<>>]
      /\ g.want = o.want \o f.want /\ (~g.hurt => ~o.hurt /\ ~f.hurt)
  BY DEF Resumed, Joined
<1> USE <1>r
<1> DEFINE F == FramesOf(st) \cup FramesOf(wk)
           H == FramesOf(s1) \cup FramesOf(w1)
           G == FramesOf(s2) \cup FramesOf(w2)
           R == Roots(hd, F)
           E == Ext(hd, wk, st, lk)
           D == Ext(hd, w2, s2, lk)
<1>0. /\ Typed(hd, st, wk, lk, bo) /\ Wanted(h, F) /\ Good(h, R) /\ h \in Heaps /\ Acyclic(h)
      /\ F \subseteq Frames /\ Available(h, R, c) /\ c \in Cells
      /\ (~bo => Counted(h, E)) /\ lk \subseteq Cells /\ bo \in BOOLEAN
  BY DEF Core, Good, FramesOf, Available, Typed
<1>1. PopSound(hd, st, wk, lk, bo, t, f, s, s1, w1)
  BY <1>0, PopIs
<1>2. /\ f \in Frames /\ f \in F /\ Typed(hd, s1, w1, lk, bo) /\ H \subseteq F
      /\ \A x \in Cells : E[x] = Ext(hd, w1, s1, lk)[x] + One(b, x)
  BY <1>1 DEF PopSound
<1>3. NestedSound(h, {a}, hd, s1, w1, t, s2, w2, g)
  BY <1>2, NestedEndIs
<1>4. o \in H /\ o \in Frames /\ Typed(hd, s2, w2, lk, bo)
  BY <1>0, <1>3 DEF NestedSound
<1>5. a \in Cells /\ b \in Cells /\ a \in R /\ b \in R
  BY <1>2, <1>4, FrameType DEF Roots, Places
<1>6. Live(h, b)
  <2>1. b \in Reach(h, b)
    BY <1>0, <1>5, ReachClosed, CellsAre
  <2> QED
    BY <2>1 DEF Safe
<1>7. k = Free(j, b)
  BY DEF Closed
<1>8. Handed(h, j, k, R, a, b, c)
  <2> HIDE DEF R
  <2> QED
    BY <1>0, <1>5, <1>6, <1>7, HandedIs
<1>9. Good(k, R) /\ Grown(h, k, hd, b, c)
  BY <1>0, <1>8 DEF Handed, Grown
<1>10. ASSUME NEW x \in Cells PROVE E[x] = D[x] + One(b, x) /\ D[x] \in Nat
  <2>1. ExtSound(hd, w1, s1, lk) /\ ExtSound(hd, w2, s2, lk)
    BY <1>2, <1>4, ExtIs
  <2>2. /\ Ext(hd, w1, s1, lk)[x] = hd[x] + Works(w1, x) + Stacks(s1, x) + Leaks(lk, x)
        /\ D[x] = hd[x] + Works(w2, x) + Stacks(s2, x) + Leaks(lk, x)
        /\ Stacks(s1, x) \in Nat /\ Stacks(s2, x) \in Nat
    BY <2>1 DEF ExtSound
  <2>3. Stacks(s2, x) + One(o.buf, x) = Stacks(s1, x) + One(g.buf, x) /\ Works(w2, x) = Works(w1, x)
    BY <1>3 DEF NestedSound
  <2>4. One(o.buf, x) = One(g.buf, x) /\ One(o.buf, x) \in Nat
    BY DEF One
  <2>5. Stacks(s2, x) = Stacks(s1, x)
    BY <2>2, <2>3, <2>4
  <2>6. D[x] = Ext(hd, w1, s1, lk)[x]
    BY <2>2, <2>3, <2>5
  <2>7. D \in [Cells -> Nat]
    BY <2>1 DEF ExtSound
  <2> HIDE DEF D, E
  <2> QED
    BY <1>2, <2>6, <2>7
<1>11. ASSUME ~bo PROVE Counted(k, D)
  <2>1. E \in [Cells -> Nat] /\ D \in [Cells -> Nat]
    BY <1>0, <1>4, ExtIs DEF ExtSound
  <2>2. Counted(h, E)
    BY <1>0, <1>11
  <2> HIDE DEF D, E
  <2>3. E[b] > 0
    BY <1>5, <1>10 DEF One
  <2>4. [E EXCEPT ![b] = @ - 1] = D
    <3>1. \A x \in Cells : [E EXCEPT ![b] = @ - 1][x] = D[x]
      BY <1>5, <1>10, <2>1 DEF One
    <3> QED
      BY <2>1, <3>1
  <2> QED
    BY <1>8, <2>1, <2>2, <2>3, <2>4 DEF Handed
<1>12. ASSUME ~g.hurt, Safe(k, a) PROVE Content(k, a) = g.want
  <2>1. Content(k, a) = Content(h, a) \o Content(h, b)
    BY <1>8, <1>12 DEF Handed
  <2>2. Content(h, a) = o.want
    BY <1>0, <1>2, <1>4, <1>12 DEF Wanted
  <2>3. Content(h, b) = f.want
    BY <1>0, <1>2, <1>12 DEF Wanted
  <2> QED
    BY <2>1, <2>2, <2>3
<1>13. Wanted(k, G)
  <2> SUFFICES ASSUME NEW y \in G, ~y.hurt, Safe(k, y.buf) PROVE Content(k, y.buf) = y.want
    BY DEF Wanted
  <2>1. CASE y = g
    BY <1>12, <2>1
  <2>2. CASE y # g
    <3>1. PICK e \in H : /\ y.buf = e.buf /\ y.want = e.want
                         /\ ~e.hurt /\ Reach(h, e.buf) \cap {a} = {}
      BY <1>3, <2>2 DEF NestedSound
    <3>2. e.buf \in Places /\ (e.buf = NULL \/ e.buf \in R) /\ a \notin Reach(h, e.buf) /\ e \in F
      BY <1>0, <1>2, <3>1, FrameType DEF Roots, Places
    <3>3. Safe(h, e.buf) /\ Content(k, e.buf) = Content(h, e.buf)
      BY <1>8, <3>1, <3>2 DEF Handed, Keeps
    <3> QED
      BY <1>0, <3>1, <3>2, <3>3 DEF Wanted
  <2> QED
    BY <2>1, <2>2
<1>14. \A y \in G : y.buf # NULL => \E e \in F : e.buf = y.buf
  BY <1>2, <1>3, <1>4 DEF NestedSound
<1> HIDE DEF D, E
<1> QED
  BY <1>0, <1>4, <1>5, <1>9, <1>11, <1>13, <1>14, CoreGrown DEF D
-----------------------------------------------------------------------------
(***************************************************************************)
(* logdb_txn_destruct, which closes the transactions of a thread one after *)
(* the other.                                                              *)
(***************************************************************************)

\* The value at n of a function like that of ClosedAll.
AllStep(h, s, f, n) == IF n = Len(s) THEN h ELSE Closed(f[n + 1], s[n + 1])

\* There is a function that solves the equation of ClosedAll.
LEMMA AllExists ==
  ASSUME NEW h, NEW s, Len(s) \in Nat
  PROVE  \E f : f = [n \in 0..Len(s) |-> AllStep(h, s, f, n)]
<1> DEFINE L == Len(s)
           Q(m, f) == \A n \in 0..L : L - n < m => f[n] = AllStep(h, s, f, n)
           S == {m \in Nat : \E f : Q(m, f)}
<1>2. 0 \in S
  OBVIOUS
<1>3. ASSUME NEW m \in Nat, m \in S PROVE m + 1 \in S
  <2>1. PICK f : Q(m, f)
    BY <1>3
  <2> DEFINE g == [n \in 0..L |-> AllStep(h, s, f, n)]
  <2>2. ASSUME NEW n \in 0..L, L - n < m + 1 PROVE g[n] = AllStep(h, s, g, n)
    <3>1. CASE n = L
      BY <3>1 DEF AllStep
    <3>2. CASE n # L
      <4>1. n + 1 \in 0..L /\ L - (n + 1) < m
        BY <2>2, <3>2
      <4>2. g[n + 1] = f[n + 1]
        BY <2>1, <4>1
      <4>3. g[n] = AllStep(h, s, f, n)
        OBVIOUS
      <4> HIDE DEF g
      <4> QED
        BY <4>2, <4>3 DEF AllStep
    <3> QED
      BY <3>1, <3>2
  <2> HIDE DEF g
  <2> QED
    BY <2>2
<1> HIDE DEF S
<1>4. \A n \in Nat : n \in S
  BY <1>2, <1>3, Induction
<1>5. PICK f : Q(L + 1, f)
  BY <1>4 DEF S
<1>6. \A n \in 0..L : f[n] = AllStep(h, s, f, n)
  BY <1>5
<1> DEFINE g == [n \in 0..L |-> f[n]]
<1>7. ASSUME NEW n \in 0..L PROVE g[n] = AllStep(h, s, g, n)
  <2>1. n # L => n + 1 \in 0..L
    OBVIOUS
  <2>2. n # L => g[n + 1] = f[n + 1]
    BY <2>1
  <2>3. g[n] = AllStep(h, s, f, n)
    BY <1>6
  <2> HIDE DEF g
  <2> QED
    BY <2>2, <2>3 DEF AllStep
<1>8. g = [n \in 0..L |-> g[n]]
  OBVIOUS
<1> HIDE DEF g
<1>9. g = [n \in 0..L |-> AllStep(h, s, g, n)]
  BY <1>7, <1>8
<1> QED
  BY <1>9

\* The heaps on the way.
LEMMA AllIs ==
  ASSUME NEW h, NEW s, Len(s) \in Nat
  PROVE  \E f : /\ f[Len(s)] = h /\ f[0] = ClosedAll(h, s)
                /\ \A n \in 0..(Len(s) - 1) : f[n] = Closed(f[n + 1], s[n + 1])
<1> DEFINE f == CHOOSE f : f = [n \in 0..Len(s) |-> AllStep(h, s, f, n)]
<1>1. f = [n \in 0..Len(s) |-> AllStep(h, s, f, n)]
  BY AllExists
<1>2. ClosedAll(h, s) = f[0]
  BY DEF ClosedAll, AllStep
<1> HIDE DEF f
<1>3. \A n \in 0..Len(s) : f[n] = AllStep(h, s, f, n)
  BY <1>1
<1>4. f[Len(s)] = h
  BY <1>3 DEF AllStep
<1>5. ASSUME NEW n \in 0..(Len(s) - 1) PROVE f[n] = Closed(f[n + 1], s[n + 1])
  <2>1. n \in 0..Len(s) /\ n # Len(s)
    OBVIOUS
  <2> QED
    BY <1>3, <2>1 DEF AllStep
<1> QED
  BY <1>2, <1>4, <1>5

\* The pointers of the stacks when t has only its n innermost transactions.
Part(st, t, n, x) == {y \in Stacked(st, x) : y[1] = t => y[2] >= Len(st[t]) + 1 - n}
\* And all pointers from outside then.
PartExt(hd, wk, st, lk, t, n) ==
    [x \in Cells |-> hd[x] + Works(wk, x) + Cardinality(Part(st, t, n, x)) + Leaks(lk, x)]

\* One more transaction is one more pointer.
LEMMA PartStep ==
  ASSUME NEW st \in [Threads -> Seq(Frames)], NEW t \in Threads, Len(st[t]) <= MaxDepth,
         NEW n \in 0..(Len(st[t]) - 1), NEW x
  PROVE  /\ Cardinality(Part(st, t, n, x)) \in Nat
         /\ Cardinality(Part(st, t, n + 1, x))
              = Cardinality(Part(st, t, n, x)) + One(st[t][n + 1].buf, x)
<1> DEFINE L == Len(st[t])
           p == <<t, L - n>>
           A == Part(st, t, n + 1, x)
           B == Part(st, t, n, x)
<1>1. st[t] \in Seq(Frames) /\ L \in Nat /\ MaxDepth \in Nat /\ L <= MaxDepth /\ n \in Nat /\ n < L
  BY TxnAssumption DEF TxnAssumption
<1>2. p \in Threads \X (1..MaxDepth) /\ p[1] = t /\ p[2] = L - n
  BY <1>1
<1>3. L + 1 - (L - n) = n + 1 /\ L - n <= L /\ L - n >= L + 1 - (n + 1) /\ ~(L - n >= L + 1 - n)
  BY <1>1
<1>4. p \in A <=> st[t][n + 1].buf = x
  BY <1>2, <1>3 DEF Part, Stacked
<1>5. p \notin B
  BY <1>2, <1>3 DEF Part
<1>6. ASSUME NEW y \in Threads \X (1..MaxDepth), y # p PROVE y \in A <=> y \in B
  <2>1. y = <<y[1], y[2]>> /\ y[2] \in Nat
    BY <1>1
  <2>2. CASE y[1] # t
    BY <2>2 DEF Part
  <2>3. CASE y[1] = t
    <3>1. y[2] # L - n
      BY <1>6, <2>1, <2>3
    <3>2. y[2] >= L + 1 - (n + 1) <=> y[2] >= L + 1 - n
      BY <1>1, <2>1, <3>1
    <3> QED
      BY <3>2 DEF Part
  <2> QED
    BY <2>2, <2>3
<1>7. A \subseteq Threads \X (1..MaxDepth) /\ B \subseteq Threads \X (1..MaxDepth)
  BY DEF Part, Stacked
<1>8. IsFiniteSet(B)
  <2>1. IsFiniteSet(Stacked(st, x)) /\ B \subseteq Stacked(st, x)
    BY CountsFinite DEF Part
  <2> QED
    BY <2>1, FS_Subset
<1> HIDE DEF A, B, p
<1>9. /\ p \in A => A = B \cup {p}
      /\ p \notin A => A = B
  <2>1. \A y : y \in A /\ y # p => y \in B
    BY <1>6, <1>7
  <2>2. \A y : y \in B => y \in A
    BY <1>5, <1>6, <1>7
  <2> QED
    BY <2>1, <2>2
<1>10. Cardinality(B \cup {p}) = Cardinality(B) + 1 /\ Cardinality(B) \in Nat
  BY <1>5, <1>8, OneMore, FS_CardinalityType
<1>11. Cardinality(A) = Cardinality(B) + One(st[t][n + 1].buf, x)
  <2>1. CASE p \in A
    <3>1. One(st[t][n + 1].buf, x) = 1
      BY <1>4, <2>1 DEF One
    <3>2. Cardinality(A) = Cardinality(B) + 1
      BY <1>9, <1>10, <2>1
    <3> QED
      BY <3>1, <3>2
  <2>2. CASE p \notin A
    <3>1. One(st[t][n + 1].buf, x) = 0
      BY <1>4, <2>2 DEF One
    <3>2. Cardinality(A) = Cardinality(B) + 0
      BY <1>9, <1>10, <2>2
    <3> QED
      BY <3>1, <3>2
  <2> QED
    BY <2>1, <2>2
<1> QED
  BY <1>10, <1>11 DEF A, B

\* The stacks without those of t.
Without(s1, st, t) == s1[t] = <<>> /\ \A u \in Threads : u # t => s1[u] = st[u]

\* All of them, and none.
LEMMA PartEnds ==
  ASSUME NEW st \in [Threads -> Seq(Frames)], NEW t \in Threads, NEW x,
         NEW s1, Without(s1, st, t)
  PROVE  Part(st, t, Len(st[t]), x) = Stacked(st, x) /\ Part(st, t, 0, x) = Stacked(s1, x)
<1> DEFINE L == Len(st[t])
<1>1. L \in Nat /\ MaxDepth \in Nat
  BY TxnAssumption DEF TxnAssumption
<1>2. ASSUME NEW y \in Threads \X (1..MaxDepth) PROVE y[2] >= L + 1 - L
  BY <1>1
<1>3. Part(st, t, L, x) = Stacked(st, x)
  BY <1>2 DEF Part, Stacked
<1>4. s1[t] = <<>> /\ Len(s1[t]) = 0 /\ \A u \in Threads : u # t => s1[u] = st[u]
  BY DEF Without
<1>5. ASSUME NEW y \in Threads \X (1..MaxDepth)
      PROVE  y \in Part(st, t, 0, x) <=> y \in Stacked(s1, x)
  <2>1. y[1] \in Threads /\ y[2] \in Nat /\ y[2] >= 1
    BY <1>1
  <2>2. CASE y[1] # t
    BY <1>4, <2>1, <2>2 DEF Part, Stacked
  <2>3. CASE y[1] = t
    <3>1. y[2] >= L + 1 - 0 => ~(y[2] <= L)
      BY <1>1, <2>1
    <3>2. y \notin Part(st, t, 0, x)
      BY <2>3, <3>1 DEF Part, Stacked
    <3>3. ~(y[2] <= Len(s1[t]))
      BY <1>4, <2>1
    <3>4. y \notin Stacked(s1, x)
      BY <2>3, <3>3 DEF Stacked
    <3> QED
      BY <3>2, <3>4
  <2> QED
    BY <2>2, <2>3
<1>6. Part(st, t, 0, x) = Stacked(s1, x)
  BY <1>5 DEF Part, Stacked
<1> QED
  BY <1>3, <1>6

\* A heap on the way to the end.
OnTheWay(h, hd, st, wk, lk, bo, t, n, g) ==
    /\ Good(g, Roots(hd, FramesOf(st) \cup FramesOf(wk)))
    /\ Shrunk(g, h)
    /\ \A x \in Places : Keeps(h, g, x)
    /\ ~bo => Counted(g, PartExt(hd, wk, st, lk, t, n))

\* The n + 1-th transaction is closed.
LEMMA CloseNext ==
  ASSUME NEW h \in Heaps, NEW hd, NEW st, NEW wk, NEW lk, NEW bo, Typed(hd, st, wk, lk, bo),
         NEW t \in Threads, NEW n \in 0..(Len(st[t]) - 1), NEW g, NEW k,
         OnTheWay(h, hd, st, wk, lk, bo, t, n + 1, g), k = Closed(g, st[t][n + 1])
  PROVE  OnTheWay(h, hd, st, wk, lk, bo, t, n, k)
<1> DEFINE R == Roots(hd, FramesOf(st) \cup FramesOf(wk))
           b == st[t][n + 1].buf
           E == PartExt(hd, wk, st, lk, t, n + 1)
           D == PartExt(hd, wk, st, lk, t, n)
<1>1. /\ Good(g, R) /\ g \in Heaps /\ Shrunk(g, h) /\ (\A x \in Places : Keeps(h, g, x))
      /\ (~bo => Counted(g, E))
  BY DEF OnTheWay, Good
<1>2. st \in [Threads -> Seq(Frames)] /\ st[t] \in Seq(Frames) /\ Len(st[t]) <= MaxDepth
  BY DEF Typed
<1>3. b \in Places
  <2>1. n + 1 \in 1..Len(st[t])
    BY <1>2
  <2>2. st[t][n + 1] \in Frames
    BY <1>2, <2>1
  <2> QED
    BY <2>2, FrameType
<1>4. ASSUME NEW x \in Cells PROVE E[x] = D[x] + One(b, x) /\ D[x] \in Nat /\ E[x] \in Nat
  <2>1. /\ Cardinality(Part(st, t, n, x)) \in Nat
        /\ Cardinality(Part(st, t, n + 1, x)) = Cardinality(Part(st, t, n, x)) + One(b, x)
    BY <1>2, PartStep
  <2>2. ExtSound(hd, wk, st, lk)
    BY ExtIs
  <2>3. hd[x] \in Nat /\ Works(wk, x) \in Nat /\ Leaks(lk, x) \in 0..1 /\ One(b, x) \in Nat
    BY <2>2 DEF ExtSound, One
  <2>4. /\ E[x] = hd[x] + Works(wk, x) + Cardinality(Part(st, t, n + 1, x)) + Leaks(lk, x)
        /\ D[x] = hd[x] + Works(wk, x) + Cardinality(Part(st, t, n, x)) + Leaks(lk, x)
    BY DEF PartExt
  <2> DEFINE P == Cardinality(Part(st, t, n, x))
             Q == Cardinality(Part(st, t, n + 1, x))
  <2>5. /\ P \in Nat /\ Q = P + One(b, x)
        /\ E[x] = hd[x] + Works(wk, x) + Q + Leaks(lk, x)
        /\ D[x] = hd[x] + Works(wk, x) + P + Leaks(lk, x)
    BY <2>1, <2>4
  <2> DEFINE r == Works(wk, x)
             l == Leaks(lk, x)
             i == One(b, x)
             q == hd[x]
             d == D[x]
             e == E[x]
  <2>6. /\ P \in Nat /\ Q = P + i /\ e = q + r + Q + l /\ d = q + r + P + l
        /\ q \in Nat /\ r \in Nat /\ l \in Nat /\ i \in Nat
    BY <2>3, <2>5
  <2> HIDE DEF E, D, b, P, Q, r, l, i, q, d, e
  <2>7. e = d + i /\ d \in Nat /\ e \in Nat
    BY <2>6
  <2> QED
    BY <2>7 DEF e, d, i
<1>5. E \in [Cells -> Nat] /\ D \in [Cells -> Nat]
  <2>1. E = [x \in Cells |-> E[x]] /\ D = [x \in Cells |-> D[x]]
    BY DEF PartExt
  <2> HIDE DEF E, D
  <2> QED
    BY <1>4, <2>1
<1> HIDE DEF E, D, R
<1>6. CASE b = NULL
  <2>1. k = g
    BY <1>6 DEF Closed
  <2>2. \A x \in Cells : One(b, x) = 0
    BY <1>6, CellsAre DEF One
  <2>3. \A x \in Cells : E[x] = D[x]
    BY <1>4, <2>2
  <2>4. E = D
    BY <1>5, <2>3
  <2> QED
    BY <1>1, <2>1, <2>4 DEF OnTheWay, R, D
<1>7. CASE b # NULL
  <2>1. k = Free(g, b) /\ b \in Cells
    BY <1>3, <1>7 DEF Closed, Places
  <2> HIDE DEF b
  <2>2. /\ Good(k, R) /\ Shrunk(k, g)
        /\ \A x \in Places : Keeps(g, k, x)
        /\ \A B \in [Cells -> Nat] :
             Counted(g, B) /\ B[b] > 0 => Counted(k, [B EXCEPT ![b] = @ - 1])
    BY <1>1, <2>1, FreeGood
  <2>3. Shrunk(k, h)
    <3>1. k \in Heaps
      BY <2>2 DEF Good
    <3> QED
      BY <1>1, <2>2, <3>1, ShrunkTwice
  <2>4. \A x \in Places : Keeps(h, k, x)
    BY <1>1, <2>2 DEF Keeps
  <2>5. E[b] > 0
    BY <1>4, <2>1 DEF One
  <2>6. [E EXCEPT ![b] = @ - 1] = D
    <3>1. \A x \in Cells : [E EXCEPT ![b] = @ - 1][x] = D[x]
      BY <1>4, <1>5, <2>1 DEF One
    <3> QED
      BY <1>5, <3>1
  <2>7. ~bo => Counted(k, D)
    BY <1>1, <1>5, <2>2, <2>5, <2>6
  <2> QED
    BY <2>2, <2>3, <2>4, <2>7 DEF OnTheWay, R, D
<1> QED
  BY <1>6, <1>7

\* logdb_txn_destruct.
LEMMA CoreCloseAll ==
  ASSUME NEW h, NEW hd, NEW st, NEW wk, NEW lk, NEW bo, Core(h, hd, st, wk, lk, bo),
         NEW t \in Threads, NEW s1, s1 = [st EXCEPT ![t] = <<>>],
         NEW j, j = ClosedAll(h, st[t])
  PROVE  Core(j, hd, s1, wk, lk, bo)
<1> DEFINE L == Len(st[t])
           R == Roots(hd, FramesOf(st) \cup FramesOf(wk))
           W(n, g) == OnTheWay(h, hd, st, wk, lk, bo, t, n, g)
<1>0. /\ Typed(hd, st, wk, lk, bo) /\ Good(h, R) /\ h \in Heaps
      /\ (~bo => Counted(h, Ext(hd, wk, st, lk)))
  BY DEF Core, Good
<1>1. st \in [Threads -> Seq(Frames)] /\ L \in Nat /\ st[t] \in Seq(Frames)
  BY <1>0 DEF Typed
<1>2. PICK f : /\ f[L] = h /\ f[0] = j
               /\ \A n \in 0..(L - 1) : f[n] = Closed(f[n + 1], st[t][n + 1])
  BY <1>1, AllIs
<1>13. Without(s1, st, t)
  BY <1>1 DEF Without
<1>3. W(L, f[L])
  <2>1. ASSUME NEW x PROVE Cardinality(Part(st, t, L, x)) = Stacks(st, x)
    <3>1. Part(st, t, L, x) = Stacked(st, x)
      BY <1>1, <1>13, PartEnds
    <3> QED
      BY <3>1 DEF Stacks
  <2>2. PartExt(hd, wk, st, lk, t, L) = Ext(hd, wk, st, lk)
    BY <2>1 DEF PartExt, Ext
  <2>3. Shrunk(h, h)
    BY <1>0, CellType DEF Good, Shrunk, SamePointers
  <2>4. \A x \in Places : Keeps(h, h, x)
    BY DEF Keeps
  <2> QED
    BY <1>0, <1>2, <2>2, <2>3, <2>4 DEF OnTheWay
<1> DEFINE S == {m \in Nat : m <= L => W(L - m, f[L - m])}
<1>4. 0 \in S
  <2>1. L - 0 = L
    BY <1>1
  <2> QED
    BY <1>3, <2>1
<1>5. ASSUME NEW m \in Nat, m \in S PROVE m + 1 \in S
  <2> SUFFICES ASSUME m + 1 <= L PROVE W(L - (m + 1), f[L - (m + 1)])
    OBVIOUS
  <2> DEFINE n == L - (m + 1)
  <2>1. n \in 0..(L - 1) /\ n + 1 = L - m /\ m <= L
    BY <1>1
  <2>2. W(n + 1, f[n + 1])
    BY <1>5, <2>1
  <2>3. f[n] = Closed(f[n + 1], st[t][n + 1])
    BY <1>2, <2>1
  <2> HIDE DEF n
  <2>4. W(n, f[n])
    BY <1>0, <2>1, <2>2, <2>3, CloseNext
  <2> QED
    BY <2>4 DEF n
<1> HIDE DEF S
<1>6. \A m \in Nat : m \in S
  BY <1>4, <1>5, Induction
<1>7. W(0, j)
  <2>1. L \in S /\ L <= L /\ L - L = 0
    BY <1>1, <1>6
  <2> QED
    BY <1>2, <2>1 DEF S
<1>8. s1 \in [Threads -> Seq(Frames)] /\ s1[t] = <<>> /\ \A u \in Threads : u # t => s1[u] = st[u]
  <2>1. <<>> \in Seq(Frames)
    OBVIOUS
  <2> QED
    BY <1>1, <2>1
<1>9. Typed(hd, s1, wk, lk, bo)
  <2>1. \A u \in Threads : Len(s1[u]) <= MaxDepth
    <3>1. Len(<<>>) = 0 /\ MaxDepth \in Nat
      BY TxnAssumption DEF TxnAssumption
    <3> QED
      BY <1>0, <1>8, <3>1 DEF Typed
  <2> QED
    BY <1>0, <1>8, <2>1 DEF Typed
<1>10. FramesOf(s1) \subseteq FramesOf(st)
  <2> SUFFICES ASSUME NEW y \in FramesOf(s1) PROVE y \in FramesOf(st)
    OBVIOUS
  <2>1. PICK u \in Threads : \E i \in 1..Len(s1[u]) : s1[u][i] = y
    BY DEF FramesOf
  <2>2. u # t
    BY <1>8, <2>1
  <2> QED
    BY <1>8, <2>1, <2>2 DEF FramesOf
<1>11. PartExt(hd, wk, st, lk, t, 0) = Ext(hd, wk, s1, lk)
  <2>1. ASSUME NEW x PROVE Cardinality(Part(st, t, 0, x)) = Stacks(s1, x)
    <3>1. Part(st, t, 0, x) = Stacked(s1, x)
      BY <1>1, <1>13, PartEnds
    <3> QED
      BY <3>1 DEF Stacks
  <2> QED
    BY <2>1 DEF PartExt, Ext
<1>12. /\ Good(j, R) /\ Shrunk(j, h) /\ (\A x \in Places : Keeps(h, j, x))
       /\ (~bo => Counted(j, Ext(hd, wk, s1, lk)))
  BY <1>7, <1>11 DEF OnTheWay
<1> QED
  BY <1>9, <1>10, <1>12, CoreShrink
-----------------------------------------------------------------------------
(***************************************************************************)
(* The steps of the specification.                                         *)
(***************************************************************************)

\* The buffers that the application or a transaction has.
Now == Roots(held, FramesOf(stack) \cup FramesOf(work))

\* malloc returns a cell that nothing points to.
LEMMA FreshIs ==
  ASSUME NEW h, \E c \in Unused : ~Live(h, c)
  PROVE  Fresh(h) \in Unused /\ ~Live(h, Fresh(h))
<1> DEFINE T == {c \in Unused : ~Live(h, c)}
<1>1. T \in SUBSET Nat /\ T # {}
  BY CellsAre DEF Unused
<1>2. \E x \in T : \A y \in T : x <= y
  <2> HIDE DEF T
  <2> QED
    BY <1>1, Least
<1>3. Fresh(h) = CHOOSE x \in T : \A y \in T : x <= y
  BY DEF Fresh, Min
<1>4. Fresh(h) \in T
  <2> HIDE DEF T
  <2> QED
    BY <1>2, <1>3
<1> QED
  BY <1>4

\* Such a cell can be allocated.
LEMMA UnusedIs ==
  ASSUME Typed(held, stack, work, leaked, borrowed), NEW c \in Unused
  PROVE  Available(heap, Now, c)
<1>1. /\ c \in Cells /\ ~Live(heap, c) /\ held[c] = 0
      /\ \A d \in Cells : c \notin {heap[d].orig, heap[d].next}
      /\ \A t \in Threads : \A i \in 1..Len(stack[t]) : stack[t][i].buf # c
      /\ \A t \in Threads : \A i \in 1..Len(work[t]) : work[t][i].buf # c
  BY DEF Unused
<1>2. \A f \in FramesOf(stack) \cup FramesOf(work) : f.buf # c
  BY <1>1 DEF FramesOf
<1>3. ~(held[c] > 0)
  BY <1>1
<1>4. c \notin Now
  BY <1>2, <1>3 DEF Now, Roots
<1> QED
  BY <1>1, <1>4 DEF Available, Unpointed

\* The cases of logdb_buffer_append.
JoinSound(h, a, b, ok) ==
    /\ a = NULL => Join(h, a, b, ok).heap = h /\ Join(h, a, b, ok).buf = b
    /\ a # NULL /\ Overflows(h, a, b) => Join(h, a, b, ok).heap = h /\ Join(h, a, b, ok).buf = NULL
    /\ a # NULL /\ ~Overflows(h, a, b) /\ ~ok => Join(h, a, b, ok).heap = h /\ Join(h, a, b, ok).buf = a
    /\ a # NULL /\ ~Overflows(h, a, b) /\ ok =>
        Join(h, a, b, ok).heap = Graft(h, a, b, Fresh(h)) /\ Join(h, a, b, ok).buf = a

\* The definition of Join, case by case.
LEMMA JoinIs ==
  ASSUME NEW h, NEW a, NEW b, NEW ok \in BOOLEAN
  PROVE  JoinSound(h, a, b, ok)
<1> DEFINE g == [Copy(h, Fresh(h), b) EXCEPT ![CHOOSE d \in Chain(h, a) : h[d].next = NULL].next = Fresh(h)]
<1>0. g = Graft(h, a, b, Fresh(h))
  BY DEF Graft, Last
<1>1. Join(h, a, b, ok) =
        CASE a = NULL -> [heap |-> h, buf |-> b]
          [] a # NULL /\ Overflows(h, a, b) -> [heap |-> h, buf |-> NULL]
          [] a # NULL /\ ~Overflows(h, a, b) /\ ~ok -> [heap |-> h, buf |-> a]
          [] OTHER -> [heap |-> g, buf |-> a]
  BY DEF Join
<1> HIDE DEF g
<1>2. CASE a = NULL
  <2>1. Join(h, a, b, ok) = [heap |-> h, buf |-> b]
    BY <1>1, <1>2
  <2> QED
    BY <1>2, <2>1 DEF JoinSound
<1>3. CASE a # NULL /\ Overflows(h, a, b)
  <2>1. Join(h, a, b, ok) = [heap |-> h, buf |-> NULL]
    BY <1>1, <1>3
  <2> QED
    BY <1>3, <2>1 DEF JoinSound
<1>4. CASE a # NULL /\ ~Overflows(h, a, b) /\ ~ok
  <2>1. Join(h, a, b, ok) = [heap |-> h, buf |-> a]
    BY <1>1, <1>4
  <2> QED
    BY <1>4, <2>1 DEF JoinSound
<1>5. CASE a # NULL /\ ~Overflows(h, a, b) /\ ok
  <2>1. Join(h, a, b, ok) = [heap |-> g, buf |-> a]
    BY <1>1, <1>5
  <2>2. Join(h, a, b, ok).heap = g /\ Join(h, a, b, ok).buf = a
    BY <2>1
  <2>3. Join(h, a, b, ok).heap = Graft(h, a, b, Fresh(h))
    BY <1>0, <2>2
  <2>4. a # NULL /\ ~Overflows(h, a, b) /\ ok = TRUE
    BY <1>5
  <2> QED
    BY <2>2, <2>3, <2>4 DEF JoinSound
<1> QED
  BY <1>2, <1>3, <1>4, <1>5

\* A buffer that the application holds is one of them.
LEMMA HeldNow ==
  ASSUME NEW c \in Cells, held[c] > 0
  PROVE  c \in Now
  BY DEF Now, Roots

\* A buffer that can be used is live.
LEMMA SafeLive ==
  ASSUME NEW h \in Heaps, Acyclic(h), NEW c \in Cells, Safe(h, c)
  PROVE  Live(h, c)
<1>1. c \in Reach(h, c)
  BY ReachClosed, CellsAre
<1> QED
  BY <1>1 DEF Safe

\* logdb_buffer_new_direct.
LEMMA StepNewBuffer ==
  ASSUME TxnInv, NEW n \in Lengths, NewBuffer(n)
  PROVE  TxnInv'
<1> DEFINE c == Fresh(heap)
           u == [i \in 1..n |-> Byte(made)]
<1>0. Core(heap, held, stack, work, leaked, borrowed) /\ Typed(held, stack, work, leaked, borrowed)
  BY DEF TxnInv, Core
<1>1. c \in Unused
  <2>1. \E d \in Unused : ~Live(heap, d)
    BY DEF NewBuffer, Unused
  <2> QED
    BY <2>1, FreshIs
<1>2. Available(heap, Now, c)
  BY <1>0, <1>1, UnusedIs
<1>3. u \in Seq(Units)
  <2>1. n \in Nat /\ made \in Nat
    BY TxnAssumption DEF TxnAssumption, TxnInv
  <2>2. Byte(made) \in Units
    BY <2>1 DEF Byte, Units
  <2> QED
    BY <2>1, <2>2
<1>4. heap' = New(heap, c, u) /\ held' = [held EXCEPT ![c] = 1]
  BY DEF NewBuffer
<1> HIDE DEF c, u
<1>5. Core(heap', held', stack, work, leaked, borrowed)
  BY <1>0, <1>2, <1>3, <1>4, CoreNew DEF Now
<1>6. UNCHANGED <<stack, work, puts, torn, leaked, borrowed>> /\ made' = made + 1 /\ made < MaxMade
  BY DEF NewBuffer
<1>7. made' \in 0..MaxMade
  BY <1>6, TxnAssumption DEF TxnInv, TxnAssumption
<1> QED
  BY <1>5, <1>6, <1>7 DEF TxnInv

\* logdb_buffer_retain.
LEMMA StepRetain ==
  ASSUME TxnInv, NEW c \in Cells, Retain(c)
  PROVE  TxnInv'
<1>0. Core(heap, held, stack, work, leaked, borrowed) /\ heap \in Heaps /\ Acyclic(heap)
  BY DEF TxnInv, Core, Good
<1>1. held[c] > 0 /\ Safe(heap, c) /\ held[c] < MaxHeld
  BY DEF Retain, Usable
<1>2. Live(heap, c)
  BY <1>0, <1>1, SafeLive
<1>3. heap' = [heap EXCEPT ![c].refcnt = @ + 1] /\ held' = [held EXCEPT ![c] = @ + 1]
  BY DEF Retain
<1>4. Core(heap', held', stack, work, leaked, borrowed)
  BY <1>0, <1>1, <1>2, <1>3, CoreRetain
<1>5. UNCHANGED <<stack, work, made, puts, torn, leaked, borrowed>>
  BY DEF Retain
<1> QED
  BY <1>4, <1>5 DEF TxnInv

\* logdb_buffer_free, by the application.
LEMMA StepDispose ==
  ASSUME TxnInv, NEW c \in Cells, Dispose(c)
  PROVE  TxnInv'
<1>0. Core(heap, held, stack, work, leaked, borrowed) /\ held[c] > 0
  BY DEF TxnInv, Dispose, Usable
<1>1. heap' = Free(heap, c) /\ held' = [held EXCEPT ![c] = @ - 1]
  BY DEF Dispose
<1>2. Core(heap', held', stack, work, leaked, borrowed)
  BY <1>0, <1>1, CoreDispose
<1>3. UNCHANGED <<stack, work, made, puts, torn, leaked, borrowed>>
  BY DEF Dispose
<1> QED
  BY <1>2, <1>3 DEF TxnInv

\* logdb_buffer_data.
LEMMA StepData ==
  ASSUME TxnInv, NEW c \in Cells, Data(c)
  PROVE  TxnInv'
<1>0. Core(heap, held, stack, work, leaked, borrowed) /\ Safe(heap, c)
  BY DEF TxnInv, Data, Usable
<1>1. heap' = Flat(heap, c) /\ leaked' = leaked \cup Cut(heap, heap')
  BY DEF Data, Cut
<1>2. Core(heap', held, stack, work, leaked', borrowed)
  BY <1>0, <1>1, CoreData
<1>3. UNCHANGED <<held, stack, work, made, puts, torn, borrowed>>
  BY DEF Data
<1> QED
  BY <1>2, <1>3 DEF TxnInv

\* logdb_buffer_append, by the application.
LEMMA StepAppendTo ==
  ASSUME TxnInv, NEW a \in Cells, NEW b \in Cells, AppendTo(a, b)
  PROVE  TxnInv'
<1> DEFINE c == Fresh(heap)
<1>0. /\ Core(heap, held, stack, work, leaked, borrowed)
      /\ Typed(held, stack, work, leaked, borrowed) /\ heap \in Heaps /\ Acyclic(heap)
  BY DEF TxnInv, Core, Good
<1>1. /\ held[a] > 0 /\ Safe(heap, a) /\ held[b] > 0 /\ Safe(heap, b) /\ a \notin Reach(heap, b)
      /\ Unused # {} /\ ~Overflows(heap, a, b)
      /\ heap' = Join(heap, a, b, TRUE).heap
  BY DEF AppendTo, Usable
<1>2. Live(heap, b)
  BY <1>0, <1>1, SafeLive
<1>3. c \in Unused
  <2>1. \E d \in Unused : ~Live(heap, d)
    BY <1>1 DEF Unused
  <2> QED
    BY <2>1, FreshIs
<1>4. Available(heap, Now, c)
  BY <1>0, <1>3, UnusedIs
<1>5. heap' = Graft(heap, a, b, c)
  <2>1. JoinSound(heap, a, b, TRUE)
    BY JoinIs
  <2> QED
    BY <1>1, <2>1, CellsAre DEF JoinSound
<1> HIDE DEF c
<1>6. Remarked(heap, {a}, stack', stack) /\ Remarked(heap, {a}, work', work)
  <2>1. stack \in [Threads -> Seq(Frames)] /\ work \in [Threads -> Seq(Frames)]
    BY <1>0 DEF Typed
  <2>2. /\ stack' = [t \in Threads |-> Marked(stack[t], {a})]
        /\ work' = [t \in Threads |-> Marked(work[t], {a})]
    BY DEF AppendTo
  <2> QED
    BY <2>1, <2>2, MarkAll
<1>7. Core(heap', held, stack', work', leaked, borrowed)
  BY <1>0, <1>1, <1>2, <1>4, <1>5, <1>6, CoreAppend DEF Now
<1>8. UNCHANGED <<held, made, puts, torn, leaked, borrowed>>
  BY DEF AppendTo
<1> QED
  BY <1>7, <1>8 DEF TxnInv

\* logdb_begin.
LEMMA StepBegin ==
  ASSUME TxnInv, NEW t \in Threads, Begin(t)
  PROVE  TxnInv'
<1>0. /\ Core(heap, held, stack, work, leaked, borrowed)
      /\ Typed(held, stack, work, leaked, borrowed) /\ heap \in Heaps /\ Acyclic(heap)
  BY DEF TxnInv, Core, Good
<1>1. stack \in [Threads -> Seq(Frames)] /\ stack[t] \in Seq(Frames) /\ MaxDepth \in Nat
  BY <1>0, TxnAssumption DEF Typed, TxnAssumption
<1>2. None \in Frames
  <2>1. <<>> \in Seq(Units)
    OBVIOUS
  <2> QED
    BY <2>1, CellsAre, MakeFrame DEF None
<1> DEFINE s == <<None>> \o stack[t]
<1>3. /\ s \in Seq(Frames) /\ Len(s) = Len(stack[t]) + 1 /\ s # <<>> /\ Head(s) = None
      /\ \A i \in 1..Len(stack[t]) : s[i + 1] = stack[t][i]
  BY <1>1, <1>2
<1>4. Tail(s) = stack[t]
  <2>1. Tail(s) \in Seq(Frames) /\ Len(Tail(s)) = Len(stack[t])
    BY <1>1, <1>3
  <2>2. \A i \in 1..Len(stack[t]) : Tail(s)[i] = stack[t][i]
    BY <1>1, <1>3
  <2> HIDE DEF s
  <2> QED
    BY <1>1, <2>1, <2>2
<1>5. Len(stack[t]) < MaxDepth /\ stack' = [stack EXCEPT ![t] = s]
  BY <1>1 DEF Begin
<1> HIDE DEF s
<1>6. stack' \in [Threads -> Seq(Frames)] /\ stack'[t] = s /\ \A u \in Threads : u # t => stack'[u] = stack[u]
  BY <1>1, <1>3, <1>5
<1>7. Len(s) <= MaxDepth
  BY <1>1, <1>3, <1>5
<1>8. Shorter(stack, stack', t) /\ Head(stack'[t]) = None
  BY <1>3, <1>4, <1>6, <1>7 DEF Shorter
<1>9. Core(heap, held, stack', work, leaked, borrowed)
  BY <1>0, <1>8, CoreBegin
<1>10. UNCHANGED <<heap, held, work, made, puts, torn, leaked, borrowed>>
  BY DEF Begin
<1> QED
  BY <1>9, <1>10 DEF TxnInv

\* The transaction of what is being closed can be used.
LEMMA SoundSafe ==
  ASSUME heap \in Heaps, Acyclic(heap), NEW f \in Frames, Sound(f)
  PROVE  Safe(heap, f.buf)
<1>1. CASE f.buf = NULL
  <2>1. Reach(heap, NULL) = {}
    BY ReachIs
  <2> QED
    BY <1>1, <2>1 DEF Safe
<1>2. CASE f.buf # NULL
  BY <1>2 DEF Sound
<1> QED
  BY <1>1, <1>2

\* A transaction that is closed or written out.
LEMMA StepCommitOut ==
  ASSUME TxnInv, NEW t \in Threads, NEW f, NEW s, Popped(stack, work, t, f, s), Sound(f),
         CommitOut(t, f, s), UNCHANGED <<held, made, puts>>
  PROVE  TxnInv'
<1>0. /\ Core(heap, held, stack, work, leaked, borrowed)
      /\ Typed(held, stack, work, leaked, borrowed) /\ heap \in Heaps /\ Acyclic(heap)
      /\ Wanted(heap, FramesOf(stack) \cup FramesOf(work))
  BY DEF TxnInv, Core, Good
<1> DEFINE s1 == [stack EXCEPT ![t] = s]
           w1 == [work EXCEPT ![t] = <<>>]
<1>1. /\ heap' = Closed(heap, f) /\ stack' = s1 /\ work' = w1
      /\ torn' = (torn \/ (s = <<>> /\ ~f.hurt /\ Written(f) # f.want))
      /\ UNCHANGED <<leaked, borrowed>>
  BY DEF CommitOut
<1>2. f \in Frames /\ f \in FramesOf(stack) \cup FramesOf(work)
  <2>1. PopSound(held, stack, work, leaked, borrowed, t, f, s, s1, w1)
    BY <1>0, PopIs
  <2> QED
    BY <2>1 DEF PopSound
<1>3. CloseSound(heap, held, stack, work, leaked, borrowed, s1, w1, heap')
  BY <1>0, <1>1, CoreClose
<1>4. Core(heap', held, stack', work', leaked, borrowed)
  BY <1>1, <1>3 DEF CloseSound
<1>5. Safe(heap, f.buf)
  BY <1>0, <1>2, SoundSafe
<1>6. ~f.hurt => Written(f) = f.want
  BY <1>0, <1>2, <1>5 DEF Wanted, Written
<1>7. torn' = FALSE
  BY <1>1, <1>6 DEF TxnInv
<1> QED
  BY <1>1, <1>4, <1>7 DEF TxnInv

\* logdb_put whose commit fails.
LEMMA StepPutFails ==
  ASSUME TxnInv, NEW t \in Threads, PutFails(t)
  PROVE  TxnInv'
<1> DEFINE f == Head(work[t])
           s1 == [stack EXCEPT ![t] = stack[t]]
<1>0. /\ Core(heap, held, stack, work, leaked, borrowed)
      /\ Typed(held, stack, work, leaked, borrowed)
  BY DEF TxnInv, Core
<1>1. /\ work[t] # <<>> /\ heap' = Closed(heap, f) /\ work' = [work EXCEPT ![t] = <<>>]
      /\ UNCHANGED <<held, stack, made, puts, torn, leaked, borrowed>>
  BY DEF PutFails
<1>2. Popped(stack, work, t, f, stack[t])
  BY <1>1 DEF Popped
<1>3. s1 = stack
  BY <1>0 DEF Typed
<1> HIDE DEF f
<1>4. CloseSound(heap, held, stack, work, leaked, borrowed, s1, work', heap')
  BY <1>0, <1>1, <1>2, CoreClose
<1>5. Core(heap', held, stack, work', leaked, borrowed)
  BY <1>3, <1>4 DEF CloseSound
<1> QED
  BY <1>1, <1>5 DEF TxnInv

\* logdb_rollback.
LEMMA StepRollback ==
  ASSUME TxnInv, NEW t \in Threads, Rollback(t)
  PROVE  TxnInv'
<1> DEFINE f == Head(stack[t])
           s == Tail(stack[t])
           w1 == [work EXCEPT ![t] = <<>>]
<1>0. /\ Core(heap, held, stack, work, leaked, borrowed)
      /\ Typed(held, stack, work, leaked, borrowed)
  BY DEF TxnInv, Core
<1>1. /\ work[t] = <<>> /\ stack[t] # <<>> /\ heap' = Closed(heap, f) /\ stack' = [stack EXCEPT ![t] = s]
      /\ UNCHANGED <<held, work, made, puts, torn, leaked, borrowed>>
  BY DEF Rollback
<1>2. Popped(stack, work, t, f, s)
  BY <1>1 DEF Popped
<1>3. w1 = work
  BY <1>0, <1>1 DEF Typed
<1> HIDE DEF f, s
<1>4. CloseSound(heap, held, stack, work, leaked, borrowed, stack', w1, heap')
  BY <1>0, <1>1, <1>2, CoreClose
<1>5. Core(heap', held, stack', work, leaked, borrowed)
  BY <1>3, <1>4 DEF CloseSound
<1> QED
  BY <1>1, <1>5 DEF TxnInv

\* The end of a thread or of the connection.
LEMMA StepRollbackAll ==
  ASSUME TxnInv, NEW t \in Threads, RollbackAll(t)
  PROVE  TxnInv'
<1>0. Core(heap, held, stack, work, leaked, borrowed)
  BY DEF TxnInv
<1>1. /\ heap' = ClosedAll(heap, stack[t]) /\ stack' = [stack EXCEPT ![t] = <<>>]
      /\ UNCHANGED <<held, work, made, puts, torn, leaked, borrowed>>
  BY DEF RollbackAll
<1>2. Core(heap', held, stack', work, leaked, borrowed)
  BY <1>0, <1>1, CoreCloseAll
<1> QED
  BY <1>1, <1>2 DEF TxnInv

\* One more transaction in front of a stack.
LEMMA Prepend ==
  ASSUME NEW S, NEW g \in S, NEW r \in Seq(S), NEW z, z = <<g>> \o r
  PROVE  /\ z \in Seq(S) /\ Len(z) = Len(r) + 1 /\ z # <<>> /\ Head(z) = g
         /\ \A i \in 1..(Len(r) + 1) : i # 1 => z[i] = r[i - 1]
<1>1. z \in Seq(S) /\ Len(z) = Len(r) + 1 /\ z[1] = g /\ Len(r) \in Nat
  OBVIOUS
<1>2. z # <<>> /\ Head(z) = g
  BY <1>1
<1>3. ASSUME NEW i \in 1..(Len(r) + 1), i # 1 PROVE z[i] = r[i - 1]
  BY <1>1, <1>3
<1> QED
  BY <1>1, <1>2, <1>3

\* The stacks after a nested commit.
LEMMA NestedMake ==
  ASSUME NEW st, NEW wk, NEW hd, NEW lk, NEW bo, NEW t \in Threads, NEW s, NEW s1, NEW w1,
         Typed(hd, s1, w1, lk, bo), Resumed(st, wk, t, s, s1, w1),
         st \in [Threads -> Seq(Frames)], wk \in [Threads -> Seq(Frames)],
         s \in Seq(Frames), s # <<>>, NEW S, NEW g \in Frames,
         NEW s2, NEW w2, Handover(st, wk, t, s, S, g, s2, w2)
  PROVE  NestedEnd(heap, S, s1, w1, t, s2, w2, g)
<1>r. /\ s1 = [st EXCEPT ![t] = s] /\ w1 = [wk EXCEPT ![t] = <<>>]
      /\ s2 = [u \in Threads |-> IF u = t THEN <<g>> \o Marked(Tail(s), S) ELSE Marked(st[u], S)]
      /\ w2 = [u \in Threads |-> IF u = t THEN <<>> ELSE Marked(wk[u], S)]
  BY DEF Resumed, Handover
<1> USE <1>r
<1>1. /\ s1 \in [Threads -> Seq(Frames)] /\ s1[t] = s /\ (\A u \in Threads : u # t => s1[u] = st[u])
      /\ w1[t] = <<>> /\ (\A u \in Threads : u # t => w1[u] = wk[u])
      /\ \A u \in Threads : Len(s1[u]) <= MaxDepth
  BY DEF Typed
<1>2. Tail(s) \in Seq(Frames) /\ Len(Tail(s)) = Len(s) - 1 /\ Len(s) \in Nat \ {0}
      /\ \A i \in 1..Len(s) : i # 1 => i - 1 \in 1..Len(Tail(s)) /\ Tail(s)[i - 1] = s[i]
  OBVIOUS
<1> DEFINE r == Marked(Tail(s), S)
           z == <<g>> \o r
<1>3. MarkSound(heap, S, r, Tail(s))
  BY <1>2, MarkIs
<1>4. r \in Seq(Frames) /\ Len(r) = Len(s) - 1
  BY <1>2, <1>3 DEF MarkSound
<1>5. z = <<g>> \o r /\ s2[t] = z
  OBVIOUS
<1> HIDE DEF r
<1>6. /\ z \in Seq(Frames) /\ Len(z) = Len(s) /\ z # <<>> /\ Head(z) = g
      /\ \A i \in 1..Len(s) : i # 1 => z[i] = r[i - 1]
  <2> HIDE DEF z
  <2>1. /\ z \in Seq(Frames) /\ Len(z) = Len(r) + 1 /\ z # <<>> /\ Head(z) = g
        /\ \A i \in 1..(Len(r) + 1) : i # 1 => z[i] = r[i - 1]
    BY <1>4, <1>5, Prepend
  <2>2. Len(r) + 1 = Len(s)
    BY <1>2, <1>4
  <2> QED
    BY <2>1, <2>2
<1> HIDE DEF z
<1>7. ASSUME NEW u \in Threads, u # t
      PROVE  /\ s2[u] = Marked(st[u], S) /\ MarkSound(heap, S, s2[u], st[u])
             /\ w2[u] = Marked(wk[u], S) /\ MarkSound(heap, S, w2[u], wk[u])
  <2>1. s2[u] = Marked(st[u], S) /\ w2[u] = Marked(wk[u], S) /\ st[u] \in Seq(Frames) /\ wk[u] \in Seq(Frames)
    BY <1>7
  <2> QED
    BY <2>1, MarkIs
<1>8. \A u \in Threads : s2[u] \in Seq(Frames) /\ Len(s2[u]) = Len(s1[u])
  BY <1>1, <1>5, <1>6, <1>7 DEF MarkSound
<1>9. s2 \in [Threads -> Seq(Frames)]
  <2>1. s2 = [u \in Threads |-> s2[u]]
    OBVIOUS
  <2> QED
    BY <1>8, <2>1
<1>10. ASSUME NEW u \in Threads, NEW i \in 1..Len(s1[u]), u # t \/ i # 1
       PROVE  /\ s2[u][i].buf = s1[u][i].buf /\ s2[u][i].want = s1[u][i].want
              /\ ~s2[u][i].hurt => ~s1[u][i].hurt /\ Reach(heap, s1[u][i].buf) \cap S = {}
  <2>1. CASE u # t
    BY <1>1, <1>7, <2>1 DEF MarkSound
  <2>2. CASE u = t
    <3>1. i - 1 \in 1..Len(Tail(s)) /\ Tail(s)[i - 1] = s[i] /\ z[i] = r[i - 1] /\ i \in 1..Len(s)
      BY <1>1, <1>2, <1>6, <1>10, <2>2
    <3>2. /\ r[i - 1].buf = s[i].buf /\ r[i - 1].want = s[i].want
          /\ ~r[i - 1].hurt => ~s[i].hurt /\ Reach(heap, s[i].buf) \cap S = {}
      BY <1>3, <3>1 DEF MarkSound
    <3> QED
      BY <1>1, <1>5, <2>2, <3>1, <3>2
  <2> QED
    BY <2>1, <2>2
<1>11. Relay(heap, S, s2, s1, t)
  BY <1>1, <1>8, <1>9, <1>10 DEF Relay
<1>12. w2[t] = <<>> /\ \A u \in Threads : w2[u] \in Seq(Frames)
  BY <1>7 DEF MarkSound
<1>13. w2 \in [Threads -> Seq(Frames)]
  <2>1. w2 = [u \in Threads |-> w2[u]]
    OBVIOUS
  <2> QED
    BY <1>12, <2>1
<1>14. Remarked(heap, S, w2, w1)
  <2>1. ASSUME NEW u \in Threads
        PROVE  /\ Len(w2[u]) = Len(w1[u])
               /\ \A i \in 1..Len(w1[u]) :
                    /\ w2[u][i].buf = w1[u][i].buf /\ w2[u][i].want = w1[u][i].want
                    /\ ~w2[u][i].hurt => ~w1[u][i].hurt /\ Reach(heap, w1[u][i].buf) \cap S = {}
    <3>1. CASE u = t
      BY <1>1, <1>12, <3>1
    <3>2. CASE u # t
      BY <1>1, <1>7, <3>2 DEF MarkSound
    <3> QED
      BY <3>1, <3>2
  <2> QED
    BY <1>13, <2>1 DEF Remarked
<1> QED
  BY <1>5, <1>6, <1>11, <1>14 DEF NestedEnd

\* A transaction that is appended to the outer one.
LEMMA StepCommitIn ==
  ASSUME TxnInv, NEW t \in Threads, NEW f, NEW s, Popped(stack, work, t, f, s), Sound(f),
         NEW ok \in BOOLEAN, CommitIn(t, f, s, ok), UNCHANGED <<held, made, puts>>
  PROVE  TxnInv'
<1> DEFINE o == Head(s)
           h == Join(heap, o.buf, f.buf, ok)
           lost == o.buf # NULL /\ h.buf = NULL
           grown == IF lost \/ ~ok THEN {} ELSE {o.buf}
           hurt == o.hurt \/ f.hurt \/ lost \/ ~ok
           want == o.want \o f.want
           g == Frame(h.buf, want, hurt)
           s1 == [stack EXCEPT ![t] = s]
           w1 == [work EXCEPT ![t] = <<>>]
<1>0. /\ Core(heap, held, stack, work, leaked, borrowed)
      /\ Typed(held, stack, work, leaked, borrowed) /\ heap \in Heaps /\ Acyclic(heap)
      /\ borrowed \in BOOLEAN
      /\ stack \in [Threads -> Seq(Frames)] /\ work \in [Threads -> Seq(Frames)]
  BY DEF TxnInv, Core, Good, Typed
<1>1. /\ ~Empty(f) /\ s # <<>> /\ Sound(o)
      /\ (o.buf # NULL => Unused # {} /\ o.buf \notin Reach(heap, f.buf))
      /\ heap' = Closed(h.heap, f)
      /\ leaked' = leaked \cup IF lost THEN {o.buf} ELSE {}
      /\ borrowed' = (borrowed \/ o.buf = NULL)
      /\ torn' = torn
  BY DEF CommitIn
<1>2. Handover(stack, work, t, s, grown, g, stack', work') /\ Resumed(stack, work, t, s, s1, w1)
  BY DEF CommitIn, Handover, Resumed
<1>3. /\ f \in Frames /\ s \in Seq(Frames) /\ s1[t] = s /\ Typed(held, s1, w1, leaked, borrowed)
      /\ f \in FramesOf(stack) \cup FramesOf(work)
  <2>1. PopSound(held, stack, work, leaked, borrowed, t, f, s, s1, w1)
    BY <1>0, PopIs
  <2> QED
    BY <2>1 DEF PopSound
<1>4. o \in Frames /\ o = Head(s1[t])
  BY <1>1, <1>3
<1>5. /\ o.buf \in Places /\ o.want \in Seq(Units) /\ o.hurt \in BOOLEAN
      /\ f.buf \in Places /\ f.want \in Seq(Units) /\ f.hurt \in BOOLEAN
  BY <1>3, <1>4, FrameType
<1>6. JoinSound(heap, o.buf, f.buf, ok)
  BY JoinIs
<1>7. f.buf # NULL
  <2> SUFFICES ASSUME f.buf = NULL PROVE FALSE
    OBVIOUS
  <2>1. Content(heap, NULL) = <<>>
    BY <1>0, ContentIs
  <2>2. Len(<<>>) = 0
    OBVIOUS
  <2> QED
    BY <1>1, <2>1, <2>2 DEF Empty, Length
<1>8. want \in Seq(Units) /\ hurt \in BOOLEAN
  <2>1. want \in Seq(Units)
    BY <1>5, Concat
  <2> QED
    BY <1>5, <2>1
<1>9. h.buf \in {NULL, o.buf, f.buf} /\ h.buf \in Places
  BY <1>5, <1>6, CellsAre DEF JoinSound
<1>10. g \in Frames /\ g.buf = h.buf /\ g.want = want /\ g.hurt = hurt
  <2> HIDE DEF want, hurt, h
  <2> QED
    BY <1>8, <1>9, MakeFrame
<1> HIDE DEF g
<1>11. NestedEnd(heap, grown, s1, w1, t, stack', work', g)
  <2> HIDE DEF grown, s1, w1, o
  <2> QED
    BY <1>0, <1>1, <1>2, <1>3, <1>10, NestedMake
<1>12. Joined(o, f, g)
  BY <1>5, <1>10 DEF Joined
<1> HIDE DEF s1, w1, o
<1>13. ASSUME o.buf = NULL
       PROVE  Core(heap', held, stack', work', leaked', borrowed')
  <2>1. h.heap = heap /\ h.buf = f.buf /\ leaked' = leaked /\ borrowed' = TRUE
    BY <1>1, <1>6, <1>13 DEF JoinSound
  <2>2. Taken(o, f, g, leaked, borrowed, leaked', borrowed')
    BY <1>10, <1>12, <1>13, <2>1 DEF Taken, Joined
  <2>3. heap' = Closed(heap, f)
    BY <1>1, <2>1
  <2> HIDE DEF h, grown
  <2> QED
    BY <1>0, <1>2, <1>4, <1>11, <2>2, <2>3, CoreNested
<1>14. ASSUME o.buf # NULL, Overflows(heap, o.buf, f.buf)
       PROVE  Core(heap', held, stack', work', leaked', borrowed')
  <2>1. h.heap = heap /\ h.buf = NULL /\ leaked' = leaked \cup {o.buf} /\ borrowed' = borrowed
    BY <1>0, <1>1, <1>6, <1>14 DEF JoinSound
  <2>2. g.hurt
    BY <1>8, <1>10, <1>14, <2>1
  <2>3. Taken(o, f, g, leaked, borrowed, leaked', borrowed')
    BY <1>10, <1>14, <2>1, <2>2 DEF Taken
  <2>4. heap' = Closed(heap, f)
    BY <1>1, <2>1
  <2> HIDE DEF h, grown
  <2> QED
    BY <1>0, <1>2, <1>4, <1>11, <2>3, <2>4, CoreNested
<1>15. ASSUME o.buf # NULL, ~Overflows(heap, o.buf, f.buf), ~ok
       PROVE  Core(heap', held, stack', work', leaked', borrowed')
  <2>1. h.heap = heap /\ h.buf = o.buf /\ leaked' = leaked /\ borrowed' = borrowed
    BY <1>0, <1>1, <1>6, <1>15 DEF JoinSound
  <2>2. g.hurt
    BY <1>8, <1>10, <1>15
  <2>3. Taken(o, f, g, leaked, borrowed, leaked', borrowed')
    BY <1>10, <2>1, <2>2 DEF Taken
  <2>4. heap' = Closed(heap, f)
    BY <1>1, <2>1
  <2> HIDE DEF h, grown
  <2> QED
    BY <1>0, <1>2, <1>4, <1>11, <2>3, <2>4, CoreNested
<1>16. ASSUME o.buf # NULL, ~Overflows(heap, o.buf, f.buf), ok
       PROVE  Core(heap', held, stack', work', leaked', borrowed')
  <2> DEFINE c == Fresh(heap)
             j == Graft(heap, o.buf, f.buf, c)
  <2>1. h.heap = j /\ h.buf = o.buf /\ leaked' = leaked /\ borrowed' = borrowed
    BY <1>0, <1>1, <1>6, <1>16 DEF JoinSound
  <2>2. grown = {o.buf}
    BY <1>16, <2>1
  <2>3. c \in Unused
    <3>1. \E d \in Unused : ~Live(heap, d)
      BY <1>1, <1>16 DEF Unused
    <3> QED
      BY <3>1, FreshIs
  <2>4. Available(heap, Now, c)
    BY <1>0, <2>3, UnusedIs
  <2>5. heap' = Closed(j, f)
    BY <1>1, <2>1
  <2>6. Safe(heap, o.buf) /\ Safe(heap, f.buf) /\ o.buf \notin Reach(heap, f.buf)
    BY <1>0, <1>1, <1>3, <1>4, <1>16, SoundSafe
  <2>7. g.buf = o.buf
    BY <1>10, <2>1
  <2>8. NestedEnd(heap, {o.buf}, s1, w1, t, stack', work', g)
    BY <1>11, <2>2
  <2>9. j = Graft(heap, o.buf, f.buf, c)
    OBVIOUS
  <2> HIDE DEF h, grown, c, j
  <2>10. Core(heap', held, stack', work', leaked, borrowed)
    BY <1>0, <1>2, <1>4, <1>7, <1>12, <1>16, <2>4, <2>5, <2>6, <2>7, <2>8, <2>9,
       CoreNestedAppend DEF Now
  <2> QED
    BY <2>1, <2>10
<1>17. Core(heap', held, stack', work', leaked', borrowed')
  BY <1>13, <1>14, <1>15, <1>16
<1> QED
  BY <1>1, <1>17 DEF TxnInv

\* logdb_txn_commit.
LEMMA StepTxnCommit ==
  ASSUME TxnInv, NEW t \in Threads, NEW f, NEW s, Popped(stack, work, t, f, s),
         TxnCommit(t, f, s), UNCHANGED <<held, made, puts>>
  PROVE  TxnInv'
<1>1. Sound(f)
  BY DEF TxnCommit
<1>2. CASE CommitOut(t, f, s)
  BY <1>1, <1>2, StepCommitOut
<1>3. ASSUME NEW ok \in BOOLEAN, CommitIn(t, f, s, ok) PROVE TxnInv'
  BY <1>1, <1>3, StepCommitIn
<1> QED
  BY <1>2, <1>3 DEF TxnCommit

\* logdb_put whose commit returns 0.
LEMMA StepPutCommit ==
  ASSUME TxnInv, NEW t \in Threads, PutCommit(t)
  PROVE  TxnInv'
<1>1. /\ work[t] # <<>> /\ TxnCommit(t, Head(work[t]), stack[t]) /\ UNCHANGED <<held, made, puts>>
  BY DEF PutCommit
<1>2. Popped(stack, work, t, Head(work[t]), stack[t])
  BY <1>1 DEF Popped
<1> QED
  BY <1>1, <1>2, StepTxnCommit

\* logdb_commit.
LEMMA StepCommit ==
  ASSUME TxnInv, NEW t \in Threads, Commit(t)
  PROVE  TxnInv'
<1>1. /\ work[t] = <<>> /\ stack[t] # <<>>
      /\ TxnCommit(t, Head(stack[t]), Tail(stack[t])) /\ UNCHANGED <<held, made, puts>>
  BY DEF Commit
<1>2. Popped(stack, work, t, Head(stack[t]), Tail(stack[t]))
  BY <1>1 DEF Popped
<1> QED
  BY <1>1, <1>2, StepTxnCommit

-----------------------------------------------------------------------------
(***************************************************************************)
(* The record of logdb_put.                                                *)
(***************************************************************************)

\* The record at c is being made in heap j, and malloc may return any unused buffer
\* but those of X.
Making(j, c, X) ==
    /\ Middle(heap, held, stack, work, leaked, borrowed, c, j)
    /\ \A x \in X : Live(j, x)
    /\ \A e \in Unused \ X : Available(j, Now \cup {c}, e)

\* logdb_put checks that malloc has three buffers to return.
LEMMA ThreeUnused ==
  ASSUME Cardinality(Unused) >= 3, NEW a, NEW b
  PROVE  /\ \E c \in Unused : ~Live(heap, c)
         /\ Unused \ {a} # {} /\ Unused \ {a, b} # {}
<1>1. IsFiniteSet(Unused)
  <2>1. Unused \in SUBSET Cells /\ IsFiniteSet(Cells)
    BY CellsAre DEF Unused
  <2> QED
    BY <2>1, FS_Subset
<1>2. IsFiniteSet(Unused \ {a}) /\ Cardinality(Unused) \in Nat
      /\ Cardinality(Unused \ {a}) = IF a \in Unused THEN Cardinality(Unused) - 1 ELSE Cardinality(Unused)
  BY <1>1, FS_RemoveElement, FS_CardinalityType
<1>3. Cardinality(Unused \ {a}) \in Nat /\ Cardinality(Unused \ {a}) >= 2
  BY <1>2
<1>4. Cardinality((Unused \ {a}) \ {b})
        = IF b \in Unused \ {a} THEN Cardinality(Unused \ {a}) - 1 ELSE Cardinality(Unused \ {a})
  BY <1>2, FS_RemoveElement
<1>5. Cardinality((Unused \ {a}) \ {b}) >= 1
  BY <1>3, <1>4
<1>6. (Unused \ {a}) \ {b} # {}
  <2> SUFFICES ASSUME (Unused \ {a}) \ {b} = {} PROVE FALSE
    OBVIOUS
  <2>1. Cardinality((Unused \ {a}) \ {b}) = 0
    BY FS_EmptySet
  <2> QED
    BY <1>5, <2>1
<1>7. (Unused \ {a}) \ {b} = Unused \ {a, b}
  OBVIOUS
<1>8. \E c \in Unused : ~Live(heap, c)
  BY <1>6 DEF Unused
<1> QED
  BY <1>6, <1>7, <1>8

\* The header is made.
LEMMA MakingHeader ==
  ASSUME TxnInv, \E d \in Unused : ~Live(heap, d), NEW c, c = Fresh(heap), NEW u \in Seq(Units),
         NEW j, j = New(heap, c, u)
  PROVE  Making(j, c, {c}) /\ Content(j, c) = u
<1>0. Core(heap, held, stack, work, leaked, borrowed) /\ Typed(held, stack, work, leaked, borrowed)
  BY DEF TxnInv, Core
<1>1. c \in Unused
  BY FreshIs
<1>2. \A e \in Unused : Available(heap, Now, e)
  BY <1>0, UnusedIs
<1>3. /\ Middle(heap, held, stack, work, leaked, borrowed, c, j)
      /\ Content(j, c) = u
      /\ \A e : e # c /\ Available(heap, Now, e) => Available(j, Now \cup {c}, e)
  <2>1. Now = Roots(held, FramesOf(stack) \cup FramesOf(work)) /\ Available(heap, Now, c)
    BY <1>1, <1>2 DEF Now
  <2>2. Core(heap, held, stack, work, leaked, borrowed)
    BY <1>0
  <2> QED
    <3>1. Headed(heap, held, stack, work, leaked, borrowed, Now, c, u, j)
      BY <2>1, <2>2, MiddleNew
    <3> QED
      BY <3>1 DEF Headed
<1>4. Live(j, c)
  <2>1. j \in Heaps /\ Acyclic(j) /\ c \in Cells /\ Safe(j, c)
    BY <1>3 DEF Middle, Good
  <2> QED
    BY <2>1, SafeLive
<1> QED
  BY <1>2, <1>3, <1>4 DEF Making

\* The key, or the value, is appended to the record.
Appended(j, c, X, b, k) ==
    /\ X = {c} => Making(k, c, {c, Fresh(j)})
    /\ Middle(heap, held, stack, work, leaked, borrowed, c, k)
    /\ Content(k, c) = Content(j, c) \o Content(heap, b)

\* It is appended at the next buffer that malloc returns.
LEMMA MakingCopy ==
  ASSUME NEW j, NEW c, NEW X, Making(j, c, X), Unused \ X # {},
         NEW b \in Cells, Usable(b), NEW k, k = Graft(j, c, b, Fresh(j))
  PROVE  Appended(j, c, X, b, k)
<1> DEFINE e == Fresh(j)
<1>1. /\ Middle(heap, held, stack, work, leaked, borrowed, c, j)
      /\ \A x \in X : Live(j, x)
      /\ \A y \in Unused \ X : Available(j, Now \cup {c}, y)
  BY DEF Making
<1>2. e \in Unused /\ ~Live(j, e)
  <2>1. \E d \in Unused : ~Live(j, d)
    BY <1>1 DEF Available
  <2> QED
    BY <2>1, FreshIs
<1>3. Available(j, Now \cup {c}, e)
  BY <1>1, <1>2
<1>4. held[b] > 0 /\ Safe(heap, b)
  BY DEF Usable
<1> HIDE DEF e
<1>5. k = Graft(j, c, b, e)
  BY DEF e
<1>6. /\ Middle(heap, held, stack, work, leaked, borrowed, c, k)
      /\ Content(k, c) = Content(j, c) \o Content(heap, b)
      /\ Live(k, e)
      /\ \A y : y # e /\ Available(j, Now \cup {c}, y) => Available(k, Now \cup {c}, y)
  <2>1. Now = Roots(held, FramesOf(stack) \cup FramesOf(work))
    BY DEF Now
  <2>2. Middle(heap, held, stack, work, leaked, borrowed, c, j)
    BY <1>1
  <2> HIDE DEF Now
  <2> QED
    <3>1. Copied(heap, held, stack, work, leaked, borrowed, Now, c, b, e, j, k)
      BY <1>3, <1>4, <1>5, <2>1, <2>2, MiddleGraft
    <3> QED
      BY <3>1 DEF Copied
<1>7. ASSUME X = {c} PROVE Making(k, c, {c, e})
  <2>1. Live(k, c)
    <3>1. k \in Heaps /\ Acyclic(k) /\ c \in Cells /\ Safe(k, c)
      BY <1>6 DEF Middle, Good
    <3> QED
      BY <3>1, SafeLive
  <2> QED
    BY <1>1, <1>6, <1>7, <2>1 DEF Making
<1> QED
  BY <1>6, <1>7 DEF e, Appended

\* What logdb_put has made of u, the key k and the value v: heap j and buffer b.
PutDone(c, u, k, v, okk, okv, j, b) ==
    /\ Middle(heap, held, stack, work, leaked, borrowed, c, j)
    /\ b \in {c, NULL, v} /\ v # c
    /\ okk /\ okv /\ b = c => Content(j, c) = u \o Content(heap, k) \o Content(heap, v)

\* The value is appended to heap j, in which the record at c has content w.
LEMMA PutValue ==
  ASSUME TxnInv, NEW c, NEW u, NEW k, NEW v \in Cells, Usable(v), v # c,
         NEW okk \in BOOLEAN, NEW okv \in BOOLEAN,
         NEW j, NEW X, Making(j, c, X), Unused \ X # {},
         okk => Content(j, c) = u \o Content(heap, k),
         NEW two, two = Join(j, c, v, okv)
  PROVE  PutDone(c, u, k, v, okk, okv, two.heap, two.buf)
<1>1. /\ Middle(heap, held, stack, work, leaked, borrowed, c, j) /\ c # NULL
  BY CellsAre DEF Making, Middle
<1>2. JoinSound(j, c, v, okv)
  BY JoinIs
<1>3. CASE Overflows(j, c, v)
  <2>1. two.heap = j /\ two.buf = NULL
    BY <1>1, <1>2, <1>3 DEF JoinSound
  <2> QED
    BY <1>1, <2>1 DEF PutDone
<1>4. CASE ~Overflows(j, c, v) /\ ~okv
  <2>1. two.heap = j /\ two.buf = c
    BY <1>1, <1>2, <1>4 DEF JoinSound
  <2> QED
    BY <1>1, <1>4, <2>1 DEF PutDone
<1>5. CASE ~Overflows(j, c, v) /\ okv
  <2>1. two.heap = Graft(j, c, v, Fresh(j)) /\ two.buf = c
    BY <1>1, <1>2, <1>5 DEF JoinSound
  <2>2. /\ Middle(heap, held, stack, work, leaked, borrowed, c, two.heap)
        /\ Content(two.heap, c) = Content(j, c) \o Content(heap, v)
    <3>1. Appended(j, c, X, v, two.heap)
      BY <2>1, MakingCopy
    <3> QED
      BY <3>1 DEF Appended
  <2> QED
    BY <2>1, <2>2 DEF PutDone
<1> QED
  BY <1>3, <1>4, <1>5

\* The header, the key and the value.
LEMMA PutMakes ==
  ASSUME TxnInv, Cardinality(Unused) >= 3, NEW c, c = Fresh(heap), NEW u \in Seq(Units),
         NEW k \in Cells, Usable(k), NEW v \in Cells, Usable(v),
         NEW okk \in BOOLEAN, NEW okv \in BOOLEAN,
         NEW one, one = Join(New(heap, c, u), c, k, okk),
         NEW two, two = Join(one.heap, one.buf, v, okv)
  PROVE  PutDone(c, u, k, v, okk, okv, two.heap, two.buf)
<1> DEFINE j == New(heap, c, u)
<1>1. Unused \ {c} # {} /\ Unused \ {c, Fresh(j)} # {} /\ \E d \in Unused : ~Live(heap, d)
  BY ThreeUnused
<1>2. Making(j, c, {c}) /\ Content(j, c) = u
  BY <1>1, MakingHeader
<1> HIDE DEF j
<1>3. Middle(heap, held, stack, work, leaked, borrowed, c, j) /\ c # NULL
  BY <1>2, CellsAre DEF Making, Middle
<1>4. v # c
  <2>1. v \in Now
    BY HeldNow DEF Usable
  <2> QED
    BY <1>3, <2>1 DEF Middle, Now
<1>5. one = Join(j, c, k, okk) /\ JoinSound(j, c, k, okk)
  BY JoinIs DEF j
<1>6. CASE Overflows(j, c, k)
  <2>1. one.heap = j /\ one.buf = NULL
    BY <1>3, <1>5, <1>6 DEF JoinSound
  <2>2. JoinSound(j, NULL, v, okv) /\ two = Join(j, NULL, v, okv)
    BY <2>1, JoinIs
  <2>3. two.heap = j /\ two.buf = v
    BY <2>2 DEF JoinSound
  <2> QED
    BY <1>3, <1>4, <2>3 DEF PutDone
<1>7. CASE ~Overflows(j, c, k) /\ ~okk
  <2>1. one.heap = j /\ one.buf = c
    BY <1>3, <1>5, <1>7 DEF JoinSound
  <2>2. two = Join(j, c, v, okv)
    BY <2>1
  <2> QED
    BY <1>1, <1>2, <1>4, <1>7, <2>2, PutValue
<1>8. CASE ~Overflows(j, c, k) /\ okk
  <2>1. one.heap = Graft(j, c, k, Fresh(j)) /\ one.buf = c
    BY <1>3, <1>5, <1>8 DEF JoinSound
  <2>2. /\ Making(one.heap, c, {c, Fresh(j)})
        /\ Content(one.heap, c) = Content(j, c) \o Content(heap, k)
    <3>1. Appended(j, c, {c}, k, one.heap)
      BY <1>1, <1>2, <2>1, MakingCopy
    <3> QED
      BY <3>1 DEF Appended
  <2>3. okk => Content(one.heap, c) = u \o Content(heap, k)
    BY <1>2, <2>2
  <2>4. two = Join(one.heap, c, v, okv)
    BY <2>1
  <2> QED
    BY <1>1, <1>4, <2>2, <2>3, <2>4, PutValue
<1> QED
  BY <1>6, <1>7, <1>8

\* logdb_put, until its implicit commit.
LEMMA StepPut ==
  ASSUME TxnInv, NEW t \in Threads, NEW k \in Cells, NEW v \in Cells,
         NEW okk \in BOOLEAN, NEW okv \in BOOLEAN, Put(t, k, v, okk, okv)
  PROVE  TxnInv'
<1> DEFINE c == Fresh(heap)
           rec == Header(Length(heap, k), Length(heap, v))
           one == Join(New(heap, c, <<rec>>), c, k, okk)
           two == Join(one.heap, one.buf, v, okv)
           want == <<rec>> \o Content(heap, k) \o Content(heap, v)
           hurt == ~okk \/ ~okv \/ two.buf # c
           g == Frame(two.buf, want, hurt)
<1>0. /\ heap \in Heaps /\ Acyclic(heap) /\ Typed(held, stack, work, leaked, borrowed)
      /\ borrowed \in BOOLEAN
  BY DEF TxnInv, Core, Good, Typed
<1>1. /\ work[t] = <<>> /\ Usable(k) /\ Usable(v) /\ Cardinality(Unused) >= 3
      /\ puts < MaxPuts /\ puts' = puts + 1
      /\ heap' = two.heap
      /\ work' = [work EXCEPT ![t] = <<g>>]
      /\ leaked' = leaked \cup IF two.buf = c THEN {} ELSE {c}
      /\ borrowed' = (borrowed \/ two.buf = v)
      /\ UNCHANGED <<held, stack, made, torn>>
  BY DEF Put
<1>2. Content(heap, k) \in Seq(Units) /\ Content(heap, v) \in Seq(Units)
  BY <1>0, ContentType, CellsAre
<1>3. rec \in Units /\ <<rec>> \in Seq(Units)
  <2>1. Length(heap, k) \in Nat /\ Length(heap, v) \in Nat
    BY <1>2 DEF Length
  <2> QED
    BY <2>1 DEF Header, Units
<1>4. want \in Seq(Units)
  <2> HIDE DEF rec
  <2>1. <<rec>> \o Content(heap, k) \in Seq(Units)
    BY <1>2, <1>3, Concat
  <2> QED
    BY <1>2, <2>1, Concat
<1>5. PutDone(c, <<rec>>, k, v, okk, okv, two.heap, two.buf)
  <2> HIDE DEF rec
  <2> QED
    BY <1>1, <1>3, PutMakes
<1>6. /\ Middle(heap, held, stack, work, leaked, borrowed, c, two.heap)
      /\ two.buf \in {c, NULL, v} /\ v # c
      /\ okk /\ okv /\ two.buf = c => Content(two.heap, c) = want
  BY <1>5 DEF PutDone
<1> HIDE DEF want, two, rec, one
<1>7. two.buf \in Places /\ c \in Cells /\ hurt \in BOOLEAN
  BY <1>6, CellsAre DEF Middle
<1>8. g \in Frames /\ g.buf = two.buf /\ g.want = want /\ g.hurt = hurt
  <2> HIDE DEF hurt
  <2> QED
    BY <1>4, <1>7, MakeFrame
<1> HIDE DEF g, c
<1>9. ~g.hurt => two.buf = c /\ Content(two.heap, c) = g.want
  BY <1>6, <1>8
<1>10. v \in Now
  BY <1>1, HeldNow DEF Usable
<1>11. borrowed' \in BOOLEAN /\ (borrowed => borrowed') /\ (two.buf = v => borrowed')
  BY <1>0, <1>1
<1>12. PutFrame(heap, held, stack, work, borrowed, c, two.heap, g, borrowed')
  <2>1. g.buf \in {c, NULL} \/ (borrowed' /\ g.buf \in Now)
    BY <1>6, <1>8, <1>10, <1>11
  <2>2. ~g.hurt => g.buf = c /\ Content(two.heap, c) = g.want
    BY <1>8, <1>9
  <2> QED
    BY <1>8, <1>11, <2>1, <2>2 DEF PutFrame, Now
<1>13. PutInto(work, leaked, t, c, g, work', leaked')
  BY <1>1, <1>8 DEF PutInto
<1>14. Core(two.heap, held, stack, work', leaked', borrowed')
  <2>1. work[t] = <<>> /\ Middle(heap, held, stack, work, leaked, borrowed, c, two.heap)
    BY <1>1, <1>6
  <2> QED
    BY <1>12, <1>13, <2>1, CorePut
<1>15. Core(heap', held', stack', work', leaked', borrowed') /\ made' = made /\ torn' = torn
  BY <1>1, <1>14
<1>16. puts' \in 0..MaxPuts
  BY <1>1, TxnAssumption DEF TxnAssumption, TxnInv
<1> QED
  BY <1>15, <1>16 DEF TxnInv

-----------------------------------------------------------------------------
(***************************************************************************)
(* The invariant, and what follows from it.                                *)
(***************************************************************************)

\* Before the first call there is nothing.
LEMMA InitTxn ==
  ASSUME Init
  PROVE  TxnInv
<1>1. /\ heap = [c \in Cells |-> Blank] /\ held = [c \in Cells |-> 0]
      /\ stack = [t \in Threads |-> <<>>] /\ work = [t \in Threads |-> <<>>]
      /\ made = 0 /\ puts = 0 /\ torn = FALSE /\ leaked = {} /\ borrowed = FALSE
  BY DEF Init
<1>2. /\ MaxHeld \in Nat /\ MaxDepth \in Nat /\ MaxMade \in Nat /\ MaxPuts \in Nat
  BY TxnAssumption DEF TxnAssumption
<1>3. Blank \in Buffers /\ Blank.orig = NULL /\ Blank.next = NULL /\ Blank.refcnt = 0
  BY DEF Blank, Buffers
<1>4. /\ heap \in Heaps
      /\ \A c \in Cells : /\ heap[c] = Blank /\ heap[c].orig = NULL /\ heap[c].next = NULL
                          /\ heap[c].refcnt = 0 /\ held[c] = 0
  BY <1>1, <1>3 DEF Heaps
<1>5. /\ \A t \in Threads : stack[t] = <<>> /\ work[t] = <<>> /\ Len(stack[t]) = 0 /\ Len(work[t]) = 0
  BY <1>1
<1>6. Typed(held, stack, work, leaked, borrowed)
  <2>1. held \in [Cells -> 0..MaxHeld]
    BY <1>1, <1>2
  <2>2. <<>> \in Seq(Frames)
    OBVIOUS
  <2>3. stack \in [Threads -> Seq(Frames)] /\ work \in [Threads -> Seq(Frames)]
    BY <1>1, <2>2
  <2>4. \A t \in Threads : Len(stack[t]) <= MaxDepth /\ Len(work[t]) <= 1
    BY <1>2, <1>5
  <2> QED
    BY <1>1, <2>1, <2>3, <2>4 DEF Typed
<1>7. FramesOf(stack) = {} /\ FramesOf(work) = {}
  BY <1>5 DEF FramesOf
<1>8. Roots(held, FramesOf(stack) \cup FramesOf(work)) = {}
  BY <1>4, <1>7 DEF Roots
<1>9. Acyclic(heap)
  <2> DEFINE r == [p \in Places |-> IF p = NULL THEN 0 ELSE 1]
  <2>1. r \in [Places -> 0..1] /\ r[NULL] = 0 /\ \A d \in Cells : r[d] = 1
    BY CellsAre
  <2> HIDE DEF r
  <2>2. Falls(heap, r)
    BY <1>4, <2>1 DEF Falls
  <2> QED
    BY <2>1, <2>2 DEF Acyclic
<1>10. Linked(heap)
  BY <1>4 DEF Linked
<1>11. Good(heap, Roots(held, FramesOf(stack) \cup FramesOf(work)))
  BY <1>4, <1>8, <1>9, <1>10 DEF Good
<1>12. Wanted(heap, FramesOf(stack) \cup FramesOf(work))
  BY <1>7 DEF Wanted
<1>13. Counted(heap, Ext(held, work, stack, leaked))
  <2> SUFFICES ASSUME NEW x \in Cells
               PROVE  heap[x].refcnt = Ext(held, work, stack, leaked)[x] + Origs(heap, x) + Nexts(heap, x)
    BY DEF Counted
  <2>1. /\ {d \in Cells : heap[d].orig = x} = {} /\ {d \in Cells : heap[d].next = x} = {}
    BY <1>4, CellsAre
  <2>2. {t \in Threads : work[t] # <<>> /\ Head(work[t]).buf = x} = {}
    BY <1>5
  <2>3. Stacked(stack, x) = {}
    <3>1. ASSUME NEW y \in Threads \X (1..MaxDepth) PROVE ~(y[2] <= Len(stack[y[1]]))
      <4>1. y[1] \in Threads /\ y[2] \in 1..MaxDepth
        OBVIOUS
      <4> QED
        BY <1>2, <1>5, <4>1
    <3> QED
      BY <3>1 DEF Stacked
  <2>4. Cardinality({}) = 0
    BY FS_EmptySet
  <2>5. Works(work, x) = 0
    BY <2>2, <2>4 DEF Works
  <2>6. Origs(heap, x) = 0 /\ Nexts(heap, x) = 0 /\ Stacks(stack, x) = 0 /\ Leaks(leaked, x) = 0
    BY <1>1, <2>1, <2>3, <2>4 DEF Origs, Nexts, Stacks, Leaks
  <2>7. Ext(held, work, stack, leaked)[x] = held[x] + Works(work, x) + Stacks(stack, x) + Leaks(leaked, x)
    BY DEF Ext
  <2> QED
    BY <1>4, <2>5, <2>6, <2>7
<1>14. Sole(heap, FramesOf(stack) \cup FramesOf(work), leaked)
  BY <1>1, <1>4, <1>7, CellsAre DEF Sole
<1>15. CopiesFollow(heap)
  BY <1>4 DEF CopiesFollow
<1>16. Core(heap, held, stack, work, leaked, borrowed)
  BY <1>6, <1>11, <1>12, <1>13, <1>14, <1>15 DEF Core
<1> QED
  BY <1>1, <1>2, <1>16 DEF TxnInv

\* Every call, and every half of logdb_put, keeps the invariant.
LEMMA NextTxn ==
  ASSUME TxnInv, [Next]_vars
  PROVE  TxnInv'
<1>1. ASSUME NEW n \in Lengths, NewBuffer(n) PROVE TxnInv'
  BY <1>1, StepNewBuffer
<1>2. ASSUME NEW c \in Cells, Retain(c) PROVE TxnInv'
  BY <1>2, StepRetain
<1>3. ASSUME NEW c \in Cells, Dispose(c) PROVE TxnInv'
  BY <1>3, StepDispose
<1>4. ASSUME NEW c \in Cells, Data(c) PROVE TxnInv'
  BY <1>4, StepData
<1>5. ASSUME NEW a \in Cells, NEW b \in Cells, AppendTo(a, b) PROVE TxnInv'
  BY <1>5, StepAppendTo
<1>6. ASSUME NEW t \in Threads, Begin(t) PROVE TxnInv'
  BY <1>6, StepBegin
<1>7. ASSUME NEW t \in Threads, NEW k \in Cells, NEW v \in Cells,
             NEW okk \in BOOLEAN, NEW okv \in BOOLEAN, Put(t, k, v, okk, okv)
      PROVE  TxnInv'
  BY <1>7, StepPut
<1>8. ASSUME NEW t \in Threads, PutCommit(t) PROVE TxnInv'
  BY <1>8, StepPutCommit
<1>9. ASSUME NEW t \in Threads, PutFails(t) PROVE TxnInv'
  BY <1>9, StepPutFails
<1>10. ASSUME NEW t \in Threads, Commit(t) PROVE TxnInv'
  BY <1>10, StepCommit
<1>11. ASSUME NEW t \in Threads, Rollback(t) PROVE TxnInv'
  BY <1>11, StepRollback
<1>12. ASSUME NEW t \in Threads, RollbackAll(t) PROVE TxnInv'
  BY <1>12, StepRollbackAll
<1>13. CASE UNCHANGED vars
  BY <1>13 DEF TxnInv, vars
<1> QED
  BY <1>1, <1>2, <1>3, <1>4, <1>5, <1>6, <1>7, <1>8, <1>9, <1>10, <1>11, <1>12, <1>13 DEF Next

\* The types.
LEMMA InvTypes ==
  ASSUME TxnInv
  PROVE  TxnTypeOK
<1>1. /\ heap \in Heaps /\ Typed(held, stack, work, leaked, borrowed)
      /\ made \in 0..MaxMade /\ puts \in 0..MaxPuts /\ torn = FALSE
      /\ ~borrowed => CopiesFollow(heap)
  BY DEF TxnInv, Core, Good
<1> QED
  BY <1>1 DEF TxnTypeOK, Typed, CopiesFollow

\* The counts.
LEMMA InvCounts ==
  ASSUME TxnInv
  PROVE  CountsExact
<1> SUFFICES ASSUME ~borrowed, NEW c \in Cells PROVE heap[c].refcnt = Pointers(c)
  BY DEF CountsExact
<1>1. Counted(heap, Ext(held, work, stack, leaked)) /\ Typed(held, stack, work, leaked, borrowed)
  BY DEF TxnInv, Core
<1>2. heap[c].refcnt = Ext(held, work, stack, leaked)[c] + Origs(heap, c) + Nexts(heap, c)
  BY <1>1 DEF Counted
<1>3. /\ Ext(held, work, stack, leaked)[c] = held[c] + Works(work, c) + Stacks(stack, c) + Leaks(leaked, c)
      /\ held[c] \in Nat /\ Works(work, c) \in Nat /\ Stacks(stack, c) \in Nat /\ Leaks(leaked, c) \in Nat
  BY <1>1, ExtIs DEF ExtSound
<1>4. Origs(heap, c) \in Nat /\ Nexts(heap, c) \in Nat
  BY PointerCounts
<1>5. Pointers(c) = held[c] + Origs(heap, c) + Nexts(heap, c) + Works(work, c)
                    + Stacks(stack, c) + Leaks(leaked, c)
  BY DEF Pointers, Origs, Nexts, Works, Stacks, Stacked, Leaks
<1> QED
  BY <1>2, <1>3, <1>4, <1>5

\* The buffers that can be used.
LEMMA InvUsable ==
  ASSUME TxnInv
  PROVE  UsableUnlessBorrowed
<1> SUFFICES ASSUME ~borrowed
             PROVE  /\ \A c \in Cells : held[c] > 0 => Safe(heap, c)
                    /\ \A t \in Threads : \A i \in 1..Len(stack[t]) : Sound(stack[t][i])
                    /\ \A t \in Threads : work[t] # <<>> => Sound(Head(work[t]))
  BY DEF UsableUnlessBorrowed
<1>1. /\ Counted(heap, Ext(held, work, stack, leaked)) /\ Typed(held, stack, work, leaked, borrowed)
      /\ heap \in Heaps /\ Acyclic(heap)
  BY DEF TxnInv, Core, Good
<1>2. Ext(held, work, stack, leaked) \in [Cells -> Nat]
  BY <1>1, ExtIs DEF ExtSound
<1>3. ASSUME NEW c \in Cells, held[c] > 0 \/ \E f \in FramesOf(stack) \cup FramesOf(work) : f.buf = c
      PROVE  Safe(heap, c)
  <2>1. heap[c].refcnt > 0
    BY <1>1, <1>3, CountedOnce
  <2> HIDE DEF Ext
  <2> QED
    BY <1>1, <1>2, <2>1, CountedSafe, CellsAre
<1>4. ASSUME NEW f \in FramesOf(stack) \cup FramesOf(work) PROVE Sound(f)
  <2>1. f.buf \in Cells \cup {NULL}
    BY DEF FramesOf, Frames
  <2> QED
    BY <1>3, <2>1 DEF Sound
<1>5. stack \in [Threads -> Seq(Frames)] /\ work \in [Threads -> Seq(Frames)]
  BY <1>1 DEF Typed
<1>6. ASSUME NEW t \in Threads, NEW i \in 1..Len(stack[t]) PROVE Sound(stack[t][i])
  <2>1. stack[t][i] \in Frames
    BY <1>5
  <2>2. stack[t][i] \in FramesOf(stack)
    BY <2>1 DEF FramesOf
  <2> QED
    BY <1>4, <2>2
<1>7. ASSUME NEW t \in Threads, work[t] # <<>> PROVE Sound(Head(work[t]))
  <2>1. work[t] \in Seq(Frames)
    BY <1>5
  <2>2. 1 \in 1..Len(work[t]) /\ work[t][1] = Head(work[t]) /\ Head(work[t]) \in Frames
    BY <1>7, <2>1
  <2>3. Head(work[t]) \in FramesOf(work)
    BY <2>2 DEF FramesOf
  <2> QED
    BY <1>4, <2>3
<1> QED
  BY <1>3, <1>6, <1>7

\* TxnInv holds in every reachable state: what is known of heap, held, stack, work,
\* leaked and borrowed between any two steps of logdb_begin, logdb_put, logdb_commit,
\* logdb_rollback and the calls of logdb_buffer.c.
THEOREM TxnInvariant == Spec => []TxnInv
<1>1. Init => TxnInv
  BY InitTxn
<1>2. TxnInv /\ [Next]_vars => TxnInv'
  BY NextTxn
<1> QED
  BY <1>1, <1>2, PTL DEF Spec

\* Every variable keeps its type, and only copies follow a buffer in a chain while
\* no transaction has borrowed one (logdb_buffer_append links copies, never the
\* appended buffer itself).
THEOREM TxnTypesCorrect == Spec => []TxnTypeOK
<1>1. TxnInv => TxnTypeOK
  BY InvTypes
<1> QED
  BY <1>1, TxnInvariant, PTL

\* The count of every buffer is the number of pointers to it, whatever calls of
\* logdb_buffer_retain, _free, _append and _data and of logdb_put, logdb_commit and
\* logdb_rollback came before, of however many threads, as long as no transaction has
\* a buffer without a reference.
THEOREM CountsStayExact == Spec => []CountsExact
<1>1. TxnInv => CountsExact
  BY InvCounts
<1> QED
  BY <1>1, TxnInvariant, PTL

\* Under the same condition logdb_buffer_free never frees what the application holds
\* or an open transaction has, nor anything that either stands for.
THEOREM UsedBuffersLive == Spec => []UsableUnlessBorrowed
<1>1. TxnInv => UsableUnlessBorrowed
  BY InvUsable
<1> QED
  BY <1>1, TxnInvariant, PTL

\* A commit that returned 0 has written what was put: logdb_txn_commit writes the
\* records of an unhurt transaction with the keys and values that logdb_put was
\* given, in the order of the calls, even where buffers were borrowed or leaked.
THEOREM CommitsAsPut == Spec => []AckedAsPut
<1>1. TxnInv => AckedAsPut
  BY DEF TxnInv, AckedAsPut
<1> QED
  BY <1>1, TxnInvariant, PTL
=============================================================================
