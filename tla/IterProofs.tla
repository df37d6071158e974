----------------------------- MODULE IterProofs -----------------------------
(***************************************************************************)
(* Proofs about Iter, for any number of threads, any databases and any     *)
(* records.  What the recursive functions of Layout, Io and Iter compute   *)
(* is shown by induction, in the form that a set of numbers which has 0    *)
(* and the successor of each of its members has all of them.               *)
(***************************************************************************)
EXTENDS Iter, FiniteSetTheorems, WellFoundedInduction, TLAPS

-----------------------------------------------------------------------------
(***************************************************************************)
(* Induction.                                                              *)
(***************************************************************************)

\* A set of numbers has a least one.
LEMMA Least ==
  ASSUME NEW T \in SUBSET Nat, T # {}
  PROVE  \E x \in T : \A y \in T : x <= y
<1> DEFINE R == OpToRel(<, Nat)
<1>1. IsWellFoundedOn(R, Nat)
  BY NatLessThanWellFounded
<1> HIDE DEF R
<1>2. PICK x \in T : \A y \in T : ~(<<y, x>> \in R)
  BY <1>1, WFMin
<1>3. \A y \in T : y < x => <<y, x>> \in R
  BY DEF R, OpToRel
<1>4. \A y \in T : ~(y < x) /\ y \in Nat /\ x \in Nat
  BY <1>2, <1>3
<1>5. \A y \in T : x <= y
  BY <1>4
<1> QED
  BY <1>5

\* A set that has 0 and with a number its successor has all numbers.
LEMMA Induction ==
  ASSUME NEW S, 0 \in S, \A n \in Nat : n \in S => n + 1 \in S
  PROVE  \A n \in Nat : n \in S
<1> SUFFICES ASSUME Nat \ S # {} PROVE FALSE
  OBVIOUS
<1>1. PICK x \in Nat \ S : \A y \in Nat \ S : x <= y
  BY Least
<1>2. x # 0 /\ x - 1 \in Nat /\ x = (x - 1) + 1
  OBVIOUS
<1>3. x - 1 \in S
  BY <1>1, <1>2
<1> QED
  BY <1>2, <1>3
-----------------------------------------------------------------------------
(***************************************************************************)
(* Where records start.                                                    *)
(***************************************************************************)

\* f gives the starts of the first n records of s.
Starts(s, n, f) == f = [k \in 1..n |-> IF k = 1 THEN 0 ELSE f[k - 1] + Size(s[k - 1])]

\* There is such a function.
LEMMA StartsExist ==
  ASSUME NEW s PROVE \A n \in Nat : \E f : Starts(s, n, f)
<1> DEFINE S == {n \in Nat : \E f : Starts(s, n, f)}
<1>1. 0 \in S
  <2>1. Starts(s, 0, [k \in 1..0 |-> 0])
    BY DEF Starts
  <2> QED
    BY <2>1
<1>2. ASSUME NEW n \in Nat, n \in S PROVE n + 1 \in S
  <2>1. PICK f : Starts(s, n, f)
    BY <1>2
  <2> DEFINE g == [k \in 1..(n + 1) |-> IF k = 1 THEN 0 ELSE f[k - 1] + Size(s[k - 1])]
  <2>2. ASSUME NEW k \in 1..n PROVE g[k] = f[k]
    BY <2>1, <2>2 DEF Starts
  <2>3. ASSUME NEW k \in 1..(n + 1)
        PROVE  g[k] = IF k = 1 THEN 0 ELSE g[k - 1] + Size(s[k - 1])
    <3>1. k # 1 => k - 1 \in 1..n
      OBVIOUS
    <3>2. k # 1 => g[k - 1] = f[k - 1]
      BY <2>2, <3>1
    <3> QED
      BY <3>2
  <2>4. Starts(s, n + 1, g)
    <3>1. g = [k \in 1..(n + 1) |-> g[k]]
      OBVIOUS
    <3> HIDE DEF g
    <3> QED
      BY <2>3, <3>1 DEF Starts
  <2> QED
    BY <2>4
<1> HIDE DEF S
<1>3. \A n \in Nat : n \in S
  BY <1>1, <1>2, Induction
<1> QED
  BY <1>3 DEF S

\* Two such functions are equal where both are defined.
LEMMA StartsAgree ==
  ASSUME NEW s, NEW m \in Nat, NEW n \in Nat, NEW f, NEW g, Starts(s, m, f), Starts(s, n, g), m <= n
  PROVE  \A k \in 1..m : f[k] = g[k]
<1> DEFINE S == {k \in Nat : k \in 1..m => f[k] = g[k]}
<1>1. 0 \in S
  OBVIOUS
<1>2. ASSUME NEW k \in Nat, k \in S PROVE k + 1 \in S
  <2> SUFFICES ASSUME k + 1 \in 1..m PROVE f[k + 1] = g[k + 1]
    OBVIOUS
  <2>1. k + 1 \in 1..n
    OBVIOUS
  <2>2. /\ f[k + 1] = IF k + 1 = 1 THEN 0 ELSE f[(k + 1) - 1] + Size(s[(k + 1) - 1])
        /\ g[k + 1] = IF k + 1 = 1 THEN 0 ELSE g[(k + 1) - 1] + Size(s[(k + 1) - 1])
    BY <2>1 DEF Starts
  <2>3. (k + 1) - 1 = k /\ (k + 1 # 1 => k \in 1..m)
    OBVIOUS
  <2>4. k + 1 # 1 => f[k] = g[k]
    BY <1>2, <2>3
  <2> QED
    BY <2>2, <2>3, <2>4
<1> HIDE DEF S
<1>3. \A k \in Nat : k \in S
  BY <1>1, <1>2, Induction
<1> QED
  BY <1>3 DEF S

\* The first record starts at the front, and every other one at the end of the
\* one before.
LEMMA StartIs ==
  ASSUME NEW s
  PROVE  Start(s, 1) = 0 /\ \A n \in Nat \ {0} : Start(s, n + 1) = Start(s, n) + Size(s[n])
<1> DEFINE F(n) == CHOOSE f : Starts(s, n, f)
<1>1. ASSUME NEW n \in Nat PROVE Starts(s, n, F(n)) /\ Start(s, n) = F(n)[n]
  <2>1. Starts(s, n, F(n))
    BY StartsExist
  <2>2. Start(s, n) = F(n)[n]
    BY DEF Start, Starts
  <2> QED
    BY <2>1, <2>2
<1> HIDE DEF F
<1>2. Start(s, 1) = 0
  <2>1. Starts(s, 1, F(1)) /\ Start(s, 1) = F(1)[1]
    BY <1>1
  <2> QED
    BY <2>1 DEF Starts
<1>3. ASSUME NEW n \in Nat \ {0} PROVE Start(s, n + 1) = Start(s, n) + Size(s[n])
  <2>1. Starts(s, n, F(n)) /\ Start(s, n) = F(n)[n]
    BY <1>1
  <2>2. Starts(s, n + 1, F(n + 1)) /\ Start(s, n + 1) = F(n + 1)[n + 1]
    BY <1>1
  <2>3. F(n)[n] = F(n + 1)[n]
    BY <2>1, <2>2, StartsAgree
  <2>4. F(n + 1)[n + 1] = F(n + 1)[(n + 1) - 1] + Size(s[(n + 1) - 1])
    BY <2>2 DEF Starts
  <2>5. (n + 1) - 1 = n
    OBVIOUS
  <2> QED
    BY <2>1, <2>2, <2>3, <2>4, <2>5
<1> QED
  BY <1>2, <1>3

\* The size of a record is a number, and at least that of its header.
LEMMA SizeIs ==
  ASSUME NEW r \in Records
  PROVE  /\ r.key \in Nat /\ r.value \in Nat /\ Hdr \in Nat /\ Hdr > 0
         /\ Size(r) = Hdr + r.key + r.value /\ Size(r) \in Nat /\ Size(r) >= Hdr
<1>1. r \in [key : Nat, value : Nat] /\ Hdr \in Nat /\ Hdr > 0
  BY IterAssumption DEF IterAssumption
<1>2. r.key \in Nat /\ r.value \in Nat
  BY <1>1
<1>3. Size(r) = Hdr + r.key + r.value
  BY DEF Size
<1> QED
  BY <1>1, <1>2, <1>3

\* A record starts where those before it have their bytes.
LEMMA StartType ==
  ASSUME NEW s \in Seq(Records)
  PROVE  \A n \in 1..(Len(s) + 1) : Start(s, n) \in Nat /\ Start(s, n) >= n - 1
<1> DEFINE S == {n \in Nat : n + 1 <= Len(s) + 1 => Start(s, n + 1) \in Nat /\ Start(s, n + 1) >= n}
<1>0. Len(s) \in Nat
  OBVIOUS
<1>1. 0 \in S
  <2>1. Start(s, 0 + 1) = 0
    BY StartIs
  <2> QED
    BY <2>1
<1>2. ASSUME NEW n \in Nat, n \in S PROVE n + 1 \in S
  <2> SUFFICES ASSUME (n + 1) + 1 <= Len(s) + 1
               PROVE  Start(s, (n + 1) + 1) \in Nat /\ Start(s, (n + 1) + 1) >= n + 1
    OBVIOUS
  <2>1. n + 1 \in Nat \ {0} /\ n + 1 \in 1..Len(s)
    BY <1>0
  <2>2. Start(s, (n + 1) + 1) = Start(s, n + 1) + Size(s[n + 1])
    BY <2>1, StartIs
  <2>3. s[n + 1] \in Records
    BY <2>1
  <2>4. Size(s[n + 1]) \in Nat /\ Size(s[n + 1]) > 0
    BY <2>3, SizeIs
  <2>5. Start(s, n + 1) \in Nat /\ Start(s, n + 1) >= n
    BY <1>0, <1>2
  <2> QED
    BY <2>2, <2>4, <2>5
<1> HIDE DEF S
<1>3. \A n \in Nat : n \in S
  BY <1>1, <1>2, Induction
<1>4. ASSUME NEW n \in 1..(Len(s) + 1) PROVE Start(s, n) \in Nat /\ Start(s, n) >= n - 1
  <2>1. n - 1 \in Nat /\ (n - 1) + 1 = n
    BY <1>0
  <2>2. n - 1 \in S
    BY <1>3, <2>1
  <2> QED
    BY <1>0, <2>1, <2>2 DEF S
<1> QED
  BY <1>4

\* A record ends before any later one starts.
LEMMA StartLess ==
  ASSUME NEW s \in Seq(Records), NEW m \in 1..(Len(s) + 1), NEW n \in 1..(Len(s) + 1), m < n
  PROVE  Start(s, m) + Size(s[m]) <= Start(s, n)
<1> DEFINE S == {k \in Nat : m + 1 + k <= Len(s) + 1 => Start(s, m) + Size(s[m]) <= Start(s, m + 1 + k)}
<1>0. Len(s) \in Nat /\ m \in Nat \ {0} /\ m \in 1..Len(s)
  OBVIOUS
<1>1. Start(s, m) \in Nat /\ Size(s[m]) \in Nat
  <2>1. s[m] \in Records
    BY <1>0
  <2> QED
    BY <2>1, SizeIs, StartType
<1>2. 0 \in S
  <2>1. Start(s, m + 1) = Start(s, m) + Size(s[m])
    BY <1>0, StartIs
  <2>2. m + 1 + 0 = m + 1
    BY <1>0
  <2> QED
    BY <1>1, <2>1, <2>2
<1>3. ASSUME NEW k \in Nat, k \in S PROVE k + 1 \in S
  <2> SUFFICES ASSUME m + 1 + (k + 1) <= Len(s) + 1
               PROVE  Start(s, m) + Size(s[m]) <= Start(s, m + 1 + (k + 1))
    OBVIOUS
  <2> DEFINE j == m + 1 + k
  <2>1. j \in Nat \ {0} /\ j \in 1..Len(s) /\ j \in 1..(Len(s) + 1) /\ m + 1 + (k + 1) = j + 1
    BY <1>0
  <2>2. Start(s, m) + Size(s[m]) <= Start(s, j)
    BY <1>3, <2>1
  <2> HIDE DEF j
  <2>3. Start(s, j + 1) = Start(s, j) + Size(s[j])
    BY <2>1, StartIs
  <2>4. s[j] \in Records
    BY <2>1
  <2>5. Size(s[j]) \in Nat /\ Start(s, j) \in Nat
    BY <2>1, <2>4, SizeIs, StartType
  <2> QED
    BY <1>1, <2>1, <2>2, <2>3, <2>5
<1> HIDE DEF S
<1>4. \A k \in Nat : k \in S
  BY <1>2, <1>3, Induction
<1>5. n - m - 1 \in Nat /\ m + 1 + (n - m - 1) = n
  BY <1>0
<1>6. n - m - 1 \in S
  BY <1>4, <1>5
<1> QED
  BY <1>5, <1>6 DEF S

\* What is appended does not move what is there.
LEMMA StartKept ==
  ASSUME NEW s, NEW r, NEW m \in Nat, \A k \in 1..m : r[k] = s[k]
  PROVE  \A n \in 1..(m + 1) : Start(r, n) = Start(s, n)
<1> DEFINE S == {n \in Nat : n <= m => Start(r, n + 1) = Start(s, n + 1)}
<1>1. 0 \in S
  <2>1. Start(s, 0 + 1) = 0 /\ Start(r, 0 + 1) = 0
    BY StartIs
  <2> QED
    BY <2>1
<1>2. ASSUME NEW n \in Nat, n \in S PROVE n + 1 \in S
  <2> SUFFICES ASSUME n + 1 <= m PROVE Start(r, (n + 1) + 1) = Start(s, (n + 1) + 1)
    OBVIOUS
  <2>1. n + 1 \in Nat \ {0} /\ n + 1 \in 1..m /\ n <= m
    OBVIOUS
  <2>2. /\ Start(s, (n + 1) + 1) = Start(s, n + 1) + Size(s[n + 1])
        /\ Start(r, (n + 1) + 1) = Start(r, n + 1) + Size(r[n + 1])
    BY <2>1, StartIs
  <2>3. r[n + 1] = s[n + 1]
    BY <2>1
  <2>4. Start(r, n + 1) = Start(s, n + 1)
    BY <1>2, <2>1
  <2> QED
    BY <2>2, <2>3, <2>4
<1> HIDE DEF S
<1>3. \A n \in Nat : n \in S
  BY <1>1, <1>2, Induction
<1>4. ASSUME NEW n \in 1..(m + 1) PROVE Start(r, n) = Start(s, n)
  <2>1. n - 1 \in Nat /\ (n - 1) + 1 = n /\ n - 1 <= m
    OBVIOUS
  <2>2. n - 1 \in S
    BY <1>3, <2>1
  <2> QED
    BY <2>1, <2>2 DEF S
<1> QED
  BY <1>4

\* No two records start at one place.
LEMMA StartsApart ==
  ASSUME NEW s \in Seq(Records), NEW m \in 1..(Len(s) + 1), NEW n \in 1..(Len(s) + 1),
         Start(s, m) = Start(s, n)
  PROVE  m = n
<1>1. ASSUME NEW a \in 1..(Len(s) + 1), NEW b \in 1..(Len(s) + 1), a < b PROVE Start(s, a) # Start(s, b)
  <2>1. Start(s, a) + Size(s[a]) <= Start(s, b)
    BY <1>1, StartLess
  <2>2. a \in 1..Len(s)
    BY <1>1
  <2>3. s[a] \in Records
    BY <2>2
  <2>4. Size(s[a]) \in Nat /\ Size(s[a]) > 0
    BY <2>3, SizeIs
  <2>5. Start(s, a) \in Nat /\ Start(s, b) \in Nat
    BY StartType
  <2> QED
    BY <2>1, <2>4, <2>5
<1>2. ~(m < n) /\ ~(n < m)
  BY <1>1
<1> QED
  BY <1>2

\* The length of a section counts its records' bytes.
LEMMA EntryLenIs ==
  ASSUME NEW s \in Seq(Records)
  PROVE  EntryLen(s) \in Nat /\ EntryLen(s) >= Len(s) /\ (Len(s) = 0 => EntryLen(s) = 0)
<1>1. Len(s) \in Nat /\ Len(s) + 1 \in 1..(Len(s) + 1)
  OBVIOUS
<1>2. Start(s, Len(s) + 1) \in Nat /\ Start(s, Len(s) + 1) >= Len(s)
  BY <1>1, StartType
<1>3. Len(s) = 0 => Start(s, Len(s) + 1) = 0
  BY StartIs
<1> QED
  BY <1>2, <1>3 DEF EntryLen
-----------------------------------------------------------------------------
(***************************************************************************)
(* What logdb_io_pread returns.                                            *)
(***************************************************************************)

\* f gives the results of the loop with up to n bytes left.
Loops(n, faults, f) ==
    f = [m \in 0..n |->
          LET have == n - (n - m) IN
          IF m = 0 THEN {0}
          ELSE (IF faults THEN {m} ELSE {}) \cup
               (IF have <= 0 THEN {-1}
                ELSE UNION {f[m - r] : r \in 1..(IF m < have THEN m ELSE have)})]

\* The same, for a loop that finds all bytes in the file.
Loop(m, faults, f) ==
    IF m = 0 THEN {0} ELSE (IF faults THEN {m} ELSE {}) \cup UNION {f[m - r] : r \in 1..m}

\* There is such a function, and its results are numbers.
LEMMA LoopsExist ==
  ASSUME NEW faults, NEW n \in Nat
  PROVE  \E f \in [0..n -> SUBSET Int] : \A m \in 0..n : f[m] = Loop(m, faults, f)
<1> DEFINE S == {k \in Nat : \E f \in [0..k -> SUBSET Int] : \A m \in 0..k : f[m] = Loop(m, faults, f)}
<1>1. 0 \in S
  <2> DEFINE f == [m \in 0..0 |-> {0}]
  <2>1. f \in [0..0 -> SUBSET Int] /\ \A m \in 0..0 : f[m] = Loop(m, faults, f)
    BY DEF Loop
  <2> QED
    BY <2>1
<1>2. ASSUME NEW k \in Nat, k \in S PROVE k + 1 \in S
  <2>1. PICK f \in [0..k -> SUBSET Int] : \A m \in 0..k : f[m] = Loop(m, faults, f)
    BY <1>2
  <2> DEFINE g == [m \in 0..(k + 1) |-> Loop(m, faults, f)]
  <2>2. ASSUME NEW m \in 0..k PROVE g[m] = f[m]
    BY <2>1
  <2>3. ASSUME NEW m \in 0..(k + 1) PROVE Loop(m, faults, g) = Loop(m, faults, f) /\ Loop(m, faults, f) \in SUBSET Int
    <3>1. ASSUME NEW r \in 1..m PROVE m - r \in 0..k /\ g[m - r] = f[m - r] /\ f[m - r] \in SUBSET Int
      <4>1. m - r \in 0..k
        OBVIOUS
      <4> QED
        BY <2>2, <4>1
    <3> HIDE DEF g
    <3>2. {g[m - r] : r \in 1..m} = {f[m - r] : r \in 1..m}
      BY <3>1
    <3>3. UNION {f[m - r] : r \in 1..m} \in SUBSET Int
      BY <3>1
    <3>4. m \in Int
      OBVIOUS
    <3> QED
      BY <3>2, <3>3, <3>4 DEF Loop
  <2>4. g \in [0..(k + 1) -> SUBSET Int] /\ \A m \in 0..(k + 1) : g[m] = Loop(m, faults, g)
    BY <2>3
  <2> HIDE DEF g
  <2>5. \E h \in [0..(k + 1) -> SUBSET Int] : \A m \in 0..(k + 1) : h[m] = Loop(m, faults, h)
    BY <2>4
  <2> QED
    BY <2>5
<1> HIDE DEF S
<1>3. n \in S
  BY <1>1, <1>2, Induction
<1> QED
  BY <1>3 DEF S

\* A read returns numbers.
LEMMA ReadResultsType ==
  ASSUME NEW n \in Nat, NEW faults
  PROVE  ReadResults(n, n, faults) \in SUBSET Int
<1> DEFINE F == CHOOSE f : Loops(n, faults, f)
<1>1. ASSUME NEW f, NEW m \in 0..n
      PROVE  (LET have == n - (n - m) IN
              IF m = 0 THEN {0}
              ELSE (IF faults THEN {m} ELSE {}) \cup
                   (IF have <= 0 THEN {-1}
                    ELSE UNION {f[m - r] : r \in 1..(IF m < have THEN m ELSE have)}))
             = Loop(m, faults, f)
  <2>1. n - (n - m) = m /\ (m # 0 => ~(m <= 0)) /\ ~(m < m)
    OBVIOUS
  <2> DEFINE h == n - (n - m)
  <2>2. h = m
    BY <2>1
  <2> HIDE DEF h
  <2>3. (IF m < h THEN m ELSE h) = m
    BY <2>1, <2>2
  <2>4. CASE m = 0
    BY <2>4 DEF Loop
  <2>5. CASE m # 0
    <3>1. ~(h <= 0)
      BY <2>1, <2>2, <2>5
    <3> QED
      BY <2>3, <2>5, <3>1 DEF Loop, h
  <2> QED
    BY <2>4, <2>5
<1>2. PICK f \in [0..n -> SUBSET Int] : \A m \in 0..n : f[m] = Loop(m, faults, f)
  BY LoopsExist
<1>3. Loops(n, faults, f)
  BY <1>1, <1>2 DEF Loops
<1>4. Loops(n, faults, F)
  BY <1>3
<1>5. ReadResults(n, n, faults) = IF n = 0 THEN {0, -1} ELSE F[n]
  BY DEF ReadResults, Loops
<1> HIDE DEF F
<1>6. \A m \in 0..n : F[m] = Loop(m, faults, F)
  <2>1. ASSUME NEW m \in 0..n PROVE F[m] = Loop(m, faults, F)
    BY <1>1, <1>4 DEF Loops
  <2> QED
    BY <2>1
<1> DEFINE S == {k \in Nat : \A m \in 0..k : m <= n => F[m] \in SUBSET Int}
<1>7. 0 \in S
  <2>0. F[0] = {0}
    <3>1. 0 \in 0..n
      OBVIOUS
    <3>2. F[0] = Loop(0, faults, F)
      BY <1>6, <3>1
    <3>3. Loop(0, faults, F) = {0}
      BY DEF Loop
    <3> QED
      BY <3>2, <3>3
  <2>1. F[0] \in SUBSET Int
    BY <2>0
  <2>2. ASSUME NEW m \in 0..0 PROVE F[m] \in SUBSET Int
    <3>1. m = 0
      OBVIOUS
    <3> QED
      BY <2>1, <3>1
  <2>3. \A m \in 0..0 : m <= n => F[m] \in SUBSET Int
    BY <2>2
  <2> QED
    BY <2>3
<1>8. ASSUME NEW k \in Nat, k \in S PROVE k + 1 \in S
  <2>0. \A m \in 0..k : m <= n => F[m] \in SUBSET Int
    BY <1>8
  <2> SUFFICES ASSUME k + 1 <= n PROVE F[k + 1] \in SUBSET Int
    <3>1. \A m \in 0..(k + 1) : m \in 0..k \/ m = k + 1
      OBVIOUS
    <3> QED
      BY <2>0, <3>1
  <2>1. ASSUME NEW r \in 1..(k + 1) PROVE F[(k + 1) - r] \in SUBSET Int
    <3>1. (k + 1) - r \in 0..k /\ (k + 1) - r <= n
      OBVIOUS
    <3> QED
      BY <2>0, <3>1
  <2>2. UNION {F[(k + 1) - r] : r \in 1..(k + 1)} \in SUBSET Int
    BY <2>1
  <2>3. F[k + 1] = Loop(k + 1, faults, F)
    BY <1>6
  <2> QED
    BY <2>2, <2>3 DEF Loop
<1> HIDE DEF S
<1>9. n \in S
  BY <1>7, <1>8, Induction
<1>10. F[n] \in SUBSET Int
  BY <1>9 DEF S
<1> QED
  BY <1>5, <1>10
-----------------------------------------------------------------------------
(***************************************************************************)
(* The layout of the merged database.                                      *)
(***************************************************************************)

\* What the loop of the merge has trimmed once it has come down to entry n.
Cut(E, n, f) ==
    IF n = 0 THEN [db |-> 0, log |-> 0] ELSE Trim(E[n], f[n - 1])

\* There is a function that says so.
LEMMA CutsExist ==
  ASSUME NEW E
  PROVE  \A n \in Nat : \E f : f = [k \in 0..n |-> Cut(E, k, f)]
<1> DEFINE S == {n \in Nat : \E f : f = [k \in 0..n |-> Cut(E, k, f)]}
<1>1. 0 \in S
  <2> DEFINE f == [k \in 0..0 |-> [db |-> 0, log |-> 0]]
  <2>1. f = [k \in 0..0 |-> Cut(E, k, f)]
    BY DEF Cut
  <2> QED
    BY <2>1
<1>2. ASSUME NEW n \in Nat, n \in S PROVE n + 1 \in S
  <2>1. PICK f : f = [k \in 0..n |-> Cut(E, k, f)]
    BY <1>2
  <2> DEFINE g == [k \in 0..(n + 1) |-> Cut(E, k, f)]
  <2>2. ASSUME NEW k \in 0..n PROVE g[k] = f[k]
    <3>1. k \in 0..(n + 1)
      OBVIOUS
    <3>2. g[k] = Cut(E, k, f)
      BY <3>1
    <3> HIDE DEF g
    <3> QED
      BY <2>1, <3>2
  <2>3. ASSUME NEW k \in 0..(n + 1) PROVE Cut(E, k, g) = Cut(E, k, f)
    <3>1. k # 0 => k - 1 \in 0..n
      OBVIOUS
    <3>2. k # 0 => g[k - 1] = f[k - 1]
      BY <2>2, <3>1
    <3> HIDE DEF g
    <3> QED
      BY <3>2 DEF Cut
  <2>4. g = [k \in 0..(n + 1) |-> Cut(E, k, g)]
    BY <2>3
  <2> HIDE DEF g
  <2> QED
    BY <2>4
<1> HIDE DEF S
<1>3. \A n \in Nat : n \in S
  BY <1>1, <1>2, Induction
<1> QED
  BY <1>3 DEF S

\* The merge trims the entries without data at the end, their sections, and
\* what the last section with data does not use.
LEMMA TrimmedIs ==
  ASSUME NEW E \in Seq(0..(Section - 1))
  PROVE  \E k \in 0..Len(E) :
            /\ \A j \in (k + 1)..Len(E) : E[j] = 0
            /\ k > 0 => E[k] > 0
            /\ Trimmed(E).db = (Len(E) - k) * Section + (IF k = 0 THEN 0 ELSE Section - E[k])
            /\ Trimmed(E).log = EntrySize * (Len(E) - k)
<1> DEFINE N == Len(E)
           F == CHOOSE f : f = [n \in 0..N |-> Cut(E, n, f)]
<1>0. N \in Nat /\ Section \in Nat /\ Section > 0
  BY LayoutAssumption DEF LayoutAssumption
<1>1. ASSUME NEW j \in 1..N PROVE E[j] \in 0..(Section - 1)
  <2> DEFINE D == 0..(Section - 1)
  <2>1. E \in Seq(D)
    OBVIOUS
  <2> HIDE DEF D
  <2>2. E[j] \in D
    BY <2>1
  <2> QED
    BY <2>2 DEF D
<1>2. F = [n \in 0..N |-> Cut(E, n, F)]
  BY <1>0, CutsExist
<1>3. Trimmed(E) = F[N]
  BY DEF Trimmed, Cut
<1> HIDE DEF F
<1>4. ASSUME NEW n \in 0..N PROVE F[n] = Cut(E, n, F)
  BY <1>2
<1> DEFINE P(n, k) == /\ \A j \in (k + 1)..n : E[j] = 0
                      /\ k > 0 => E[k] > 0
                      /\ F[n].db = (n - k) * Section + (IF k = 0 THEN 0 ELSE Section - E[k])
                      /\ F[n].log = EntrySize * (n - k)
           S == {n \in Nat : n <= N => \E k \in 0..n : P(n, k)}
<1>5. 0 \in S
  <2>1. F[0] = [db |-> 0, log |-> 0]
    <3>1. 0 \in 0..N
      BY <1>0
    <3> QED
      BY <1>4, <3>1 DEF Cut
  <2>2. (0 - 0) * Section = 0
    BY <1>0
  <2>3. P(0, 0)
    BY <2>1, <2>2 DEF EntrySize
  <2> HIDE DEF P
  <2> QED
    BY <2>3
<1>6. ASSUME NEW n \in Nat, n \in S PROVE n + 1 \in S
  <2>0. n <= N => \E k \in 0..n : P(n, k)
    BY <1>6
  <2> SUFFICES ASSUME n + 1 <= N PROVE \E k \in 0..(n + 1) : P(n + 1, k)
    <3> HIDE DEF P
    <3> QED
      OBVIOUS
  <2>a. n + 1 \in 0..N /\ n + 1 \in 1..N /\ n <= N
    BY <1>0
  <2>1. F[n + 1] = Cut(E, n + 1, F) /\ n + 1 # 0 /\ (n + 1) - 1 = n
    BY <1>4, <2>a
  <2>2. E[n + 1] \in 0..(Section - 1)
    BY <1>1, <2>a
  <2>3. CASE E[n + 1] # 0
    <3>1. F[n + 1].db = Section - E[n + 1] /\ F[n + 1].log = 0
      BY <2>1, <2>3 DEF Cut, Trim, Spare
    <3>2. ((n + 1) - (n + 1)) * Section = 0 /\ E[n + 1] > 0 /\ (n + 1) - (n + 1) = 0
      BY <1>0, <2>2, <2>3
    <3>3. F[n + 1].db = ((n + 1) - (n + 1)) * Section + (Section - E[n + 1])
      BY <1>0, <2>2, <3>1, <3>2
    <3>4. F[n + 1].log = EntrySize * ((n + 1) - (n + 1))
      BY <3>1, <3>2 DEF EntrySize
    <3>5. P(n + 1, n + 1)
      BY <2>1, <3>2, <3>3, <3>4
    <3>6. n + 1 \in 0..(n + 1)
      OBVIOUS
    <3> HIDE DEF P
    <3> QED
      BY <3>5, <3>6
  <2>4. CASE E[n + 1] = 0
    <3>1. PICK k \in 0..n : P(n, k)
      BY <2>0, <2>a
    <3>2. F[n + 1].db = Section + F[n].db /\ F[n + 1].log = EntrySize + F[n].log
      <4>1. F[n + 1] = [db |-> Spare(0) + F[n].db, log |-> EntrySize + F[n].log]
        BY <2>1, <2>4 DEF Cut, Trim
      <4>2. Spare(0) = Section
        BY <1>0 DEF Spare
      <4> QED
        BY <4>1, <4>2
    <3> DEFINE rest == IF k = 0 THEN 0 ELSE Section - E[k]
               d == n - k
    <3>3. rest \in Int /\ d \in Int /\ (n + 1) - k = d + 1
      <4>1. k # 0 => E[k] \in 0..(Section - 1)
        BY <1>0, <2>a
      <4> QED
        BY <1>0, <4>1
    <3>4. (d + 1) * Section = d * Section + Section /\ d * Section \in Int
      BY <1>0, <3>3
    <3>5. F[n].db = d * Section + rest /\ F[n].log = EntrySize * d
      BY <3>1
    <3>6. (\A j \in (k + 1)..n : E[j] = 0) /\ (k > 0 => E[k] > 0)
      BY <3>1
    <3> HIDE DEF rest, d
    <3>7. F[n + 1].db = (d + 1) * Section + rest
      BY <1>0, <3>2, <3>3, <3>4, <3>5
    <3>8. F[n + 1].log = EntrySize * (d + 1)
      BY <3>2, <3>3, <3>5 DEF EntrySize
    <3>9. ASSUME NEW j \in (k + 1)..(n + 1) PROVE E[j] = 0
      <4>1. j \in (k + 1)..n \/ j = n + 1
        OBVIOUS
      <4> QED
        BY <2>4, <3>6, <4>1
    <3>10. P(n + 1, k)
      BY <3>3, <3>6, <3>7, <3>8, <3>9 DEF rest
    <3>11. k \in 0..(n + 1)
      OBVIOUS
    <3> HIDE DEF P
    <3> QED
      BY <3>10, <3>11
  <2> QED
    BY <2>3, <2>4
<1> HIDE DEF S
<1>7. N \in S
  BY <1>0, <1>5, <1>6, Induction
<1>8. \E k \in 0..N : P(N, k)
  <2> HIDE DEF P
  <2> QED
    BY <1>0, <1>7 DEF S
<1> QED
  BY <1>3, <1>8

\* Products of section numbers and the size of a section do not wrap.
LEMMA OffsetIs ==
  ASSUME NEW i \in Nat, i <= MaxSections
  PROVE  /\ i * Section \in Nat /\ i * Section >= 0
         /\ logdb_connection_offset(i) = DbHeader + i * Section
<1>1. /\ Section \in Nat /\ Section > 0 /\ Wrap \in Nat /\ MaxSections \in Nat
      /\ MaxSections * Section < Wrap
  BY LayoutAssumption, IterAssumption DEF LayoutAssumption, IterAssumption
<1> DEFINE d == MaxSections - i
<1>2. d \in Nat /\ MaxSections = i + d
  BY <1>1
<1> HIDE DEF d
<1>3. i * Section \in Nat /\ d * Section \in Nat
  BY <1>1, <1>2
<1>4. (i + d) * Section = i * Section + d * Section
  BY <1>1, <1>2
<1> DEFINE p == i * Section
           q == d * Section
<1>5. p \in Nat /\ q \in Nat /\ p + q < Wrap
  BY <1>1, <1>2, <1>3, <1>4
<1> HIDE DEF p, q
<1>6. p % Wrap = p
  BY <1>1, <1>5
<1>7. logdb_connection_offset(i) = DbHeader + p
  BY <1>6 DEF logdb_connection_offset, p
<1> QED
  BY <1>5, <1>7 DEF p

\* The merged database ends with the last section that has data, and the log
\* that is made from it has the entries up to that one.
LEMMA MergedIs ==
  ASSUME NEW E \in Seq(0..(Section - 1)), Len(E) <= MaxSections
  PROVE  \E k \in 0..Len(E) :
            /\ \A j \in (k + 1)..Len(E) : E[j] = 0
            /\ k > 0 => E[k] > 0
            /\ Merged(E).ok
            /\ Merged(E).minsz = DbHeader + (IF k = 0 THEN 0 ELSE (k - 1) * Section + E[k])
            /\ Created(Merged(E)) = SubSeq(SubSeq(E, 1, k), 1, k)
<1> DEFINE N == Len(E)
<1>0. N \in Nat /\ Section \in Nat /\ Section > 0
  BY LayoutAssumption DEF LayoutAssumption
<1>1. ASSUME NEW j \in 1..N PROVE E[j] \in 0..(Section - 1)
  <2> DEFINE D == 0..(Section - 1)
  <2>1. E \in Seq(D)
    OBVIOUS
  <2> HIDE DEF D
  <2>2. E[j] \in D
    BY <2>1
  <2> QED
    BY <2>2 DEF D
<1>2. PICK k \in 0..N :
            /\ \A j \in (k + 1)..N : E[j] = 0
            /\ k > 0 => E[k] > 0
            /\ Trimmed(E).db = (N - k) * Section + (IF k = 0 THEN 0 ELSE Section - E[k])
            /\ Trimmed(E).log = EntrySize * (N - k)
  BY TrimmedIs
<1>3. logdb_connection_offset(N) = DbHeader + N * Section
  BY <1>0, OffsetIs
<1>4. \A n \in Nat : logdb_log_index_from_offset(LogHeader + n * EntrySize) = n
  BY DEF logdb_log_index_from_offset, LogHeader, EntrySize
<1>5. logdb_log_offset(N) = LogHeader + N * EntrySize /\ k \in Nat
  BY <1>0 DEF logdb_log_offset
<1>6. (LogHeader + N * EntrySize) - EntrySize * (N - k) = LogHeader + k * EntrySize
  BY <1>0, <1>5 DEF LogHeader, EntrySize
<1> DEFINE minsz == DbHeader + (IF k = 0 THEN 0 ELSE (k - 1) * Section + E[k])
           logsz == LogHeader + k * EntrySize
<1>7. (DbHeader + N * Section) - Trimmed(E).db = minsz /\ minsz \in Nat /\ minsz >= DbHeader
  <2> DEFINE d == N - k
  <2>1. d \in Nat /\ N = k + d
    BY <1>0
  <2> HIDE DEF d
  <2>2. /\ (k + d) * Section = k * Section + d * Section
        /\ (k - 1) * Section = k * Section - Section
        /\ k * Section \in Nat /\ d * Section \in Nat
        /\ k > 0 => (k - 1) * Section \in Nat
    BY <1>0, <1>5, <2>1
  <2>3. Trimmed(E).db = d * Section + (IF k = 0 THEN 0 ELSE Section - E[k])
    BY <1>2 DEF d
  <2>4. N * Section = k * Section + d * Section
    BY <2>1, <2>2
  <2>5. CASE k = 0
    <3>1. k * Section = 0
      BY <1>0, <2>5
    <3> QED
      BY <2>2, <2>3, <2>4, <2>5, <3>1 DEF DbHeader
  <2>6. CASE k > 0
    <3>1. E[k] \in 0..(Section - 1)
      BY <1>1, <2>6
    <3> DEFINE a == k * Section
               b == d * Section
               c == (k - 1) * Section
               e == E[k]
    <3>2. a \in Nat /\ b \in Nat /\ c \in Nat /\ e \in Nat /\ e <= Section /\ c = a - Section
      BY <1>0, <2>2, <2>6, <3>1
    <3>3. N * Section = a + b /\ Trimmed(E).db = b + (Section - e) /\ minsz = DbHeader + (c + e)
      BY <2>3, <2>4, <2>6
    <3> HIDE DEF a, b, c, e, minsz
    <3> QED
      BY <1>0, <3>2, <3>3 DEF DbHeader
  <2> QED
    BY <1>5, <2>5, <2>6
<1> HIDE DEF minsz
<1>8. /\ logdb_log_index_from_offset(LogHeader + N * EntrySize) = N
      /\ logdb_log_index_from_offset(logsz) = k
      /\ logsz \in Nat /\ logsz >= LogHeader /\ (logsz + TrailerSize) - TrailerSize = logsz
  BY <1>0, <1>4, <1>5 DEF LogHeader, EntrySize, TrailerSize
<1> DEFINE size == logdb_log_offset(N)
<1>9. /\ size = LogHeader + N * EntrySize
      /\ logdb_connection_offset(logdb_log_index_from_offset(size)) - Trimmed(E).db = minsz
      /\ size - Trimmed(E).log = logsz
  BY <1>2, <1>3, <1>5, <1>6, <1>7, <1>8
<1>10. Merged(E) = [ok |-> minsz >= 0, minsz |-> minsz, entries |-> SubSeq(E, 1, k),
                    trailer |-> logsz + TrailerSize, dbsz |-> minsz + logsz + TrailerSize]
  <2> HIDE DEF size, logsz
  <2>1. Merged(E) = [ok |-> minsz >= 0, minsz |-> minsz,
                     entries |-> SubSeq(E, 1, logdb_log_index_from_offset(logsz)),
                     trailer |-> logsz + TrailerSize, dbsz |-> minsz + logsz + TrailerSize]
    BY <1>9 DEF Merged, size
  <2> QED
    BY <1>8, <2>1
<1> HIDE DEF logsz
<1>11. /\ Merged(E).ok = (minsz >= 0) /\ Merged(E).minsz = minsz
       /\ Merged(E).entries = SubSeq(E, 1, k) /\ Merged(E).trailer = logsz + TrailerSize
       /\ Merged(E).dbsz = minsz + logsz + TrailerSize
  BY <1>10
<1>12. minsz >= 0 /\ minsz + logsz + TrailerSize >= MinSize
       /\ (minsz + logsz + TrailerSize) - (logsz + TrailerSize) = minsz
  BY <1>7, <1>8 DEF MinSize, DbHeader, LogHeader, TrailerSize
<1>13. Created(Merged(E)) = SubSeq(SubSeq(E, 1, k), 1, k)
  BY <1>8, <1>11, <1>12 DEF Created
<1>14. Merged(E).ok
  BY <1>11, <1>12
<1> QED
  BY <1>2, <1>11, <1>13, <1>14 DEF minsz

\* What the merge does, put the way the properties need it.
LEMMA MergeKeeps ==
  ASSUME NEW E \in Seq(0..(Section - 1)), Len(E) <= MaxSections
  PROVE  /\ Merged(E).ok
         /\ Len(Created(Merged(E))) \in 0..Len(E)
         /\ \A i \in 1..Len(E) : E[i] > 0 =>
                /\ i <= Len(Created(Merged(E)))
                /\ Created(Merged(E))[i] = E[i]
                /\ logdb_connection_offset(i - 1) + E[i] <= Merged(E).minsz
<1> DEFINE N == Len(E)
<1>0. N \in Nat /\ Section \in Nat /\ Section > 0
  BY LayoutAssumption DEF LayoutAssumption
<1>1. ASSUME NEW j \in 1..N PROVE E[j] \in 0..(Section - 1)
  <2> DEFINE D == 0..(Section - 1)
  <2>1. E \in Seq(D)
    OBVIOUS
  <2> HIDE DEF D
  <2>2. E[j] \in D
    BY <2>1
  <2> QED
    BY <2>2 DEF D
<1>2. PICK k \in 0..N :
            /\ \A j \in (k + 1)..N : E[j] = 0
            /\ k > 0 => E[k] > 0
            /\ Merged(E).ok
            /\ Merged(E).minsz = DbHeader + (IF k = 0 THEN 0 ELSE (k - 1) * Section + E[k])
            /\ Created(Merged(E)) = SubSeq(SubSeq(E, 1, k), 1, k)
  BY MergedIs
<1>3. /\ Len(SubSeq(SubSeq(E, 1, k), 1, k)) = k
      /\ \A i \in 1..k : SubSeq(SubSeq(E, 1, k), 1, k)[i] = E[i]
  <2> DEFINE D == 0..(Section - 1)
             e == SubSeq(E, 1, k)
  <2>1. E \in Seq(D)
    OBVIOUS
  <2> HIDE DEF D
  <2>2. e \in Seq(D) /\ Len(e) = k /\ \A i \in 1..k : e[i] = E[i]
    BY <1>0, <2>1
  <2> HIDE DEF e
  <2>3. Len(SubSeq(e, 1, k)) = k /\ \A i \in 1..k : SubSeq(e, 1, k)[i] = e[i]
    BY <1>0, <2>2
  <2> QED
    BY <2>2, <2>3 DEF e
<1>4. ASSUME NEW i \in 1..N, E[i] > 0
      PROVE  i \in 1..k /\ logdb_connection_offset(i - 1) + E[i] <= Merged(E).minsz
  <2>1. i \in 1..k
    <3>1. ~(i \in (k + 1)..N)
      BY <1>2, <1>4
    <3> QED
      BY <1>0, <3>1
  <2>2. logdb_connection_offset(i - 1) = DbHeader + (i - 1) * Section
    BY <1>0, OffsetIs, IterAssumption DEF IterAssumption
  <2>3. Merged(E).minsz = DbHeader + (k - 1) * Section + E[k]
    <3> DEFINE a == (k - 1) * Section
               e == E[k]
    <3>1. a \in Int /\ e \in Int
      BY <1>0, <1>1, <2>1
    <3>2. Merged(E).minsz = DbHeader + (a + e)
      BY <1>2, <2>1
    <3> HIDE DEF a, e
    <3>3. DbHeader + (a + e) = DbHeader + a + e
      BY <3>1 DEF DbHeader
    <3> QED
      BY <3>2, <3>3 DEF a, e
  <2>4. E[i] \in 0..(Section - 1) /\ E[k] \in 0..(Section - 1) /\ E[k] > 0
    BY <1>1, <1>2, <2>1
  <2>5. CASE i = k
    <3>1. (i - 1) * Section \in Int
      BY <1>0
    <3> QED
      BY <2>1, <2>2, <2>3, <2>4, <2>5, <3>1 DEF DbHeader
  <2>6. CASE i < k
    <3> DEFINE d == k - 1 - i
    <3>1. d \in Nat /\ k - 1 = i + d
      BY <1>0, <2>1, <2>6
    <3> HIDE DEF d
    <3>2. /\ (i + d) * Section = i * Section + d * Section
          /\ (i - 1) * Section = i * Section - Section
          /\ i * Section \in Nat /\ d * Section \in Nat
      BY <1>0, <3>1
    <3>3. (k - 1) * Section = i * Section + d * Section
      BY <3>1, <3>2
    <3> DEFINE a == i * Section
               b == d * Section
               e == E[k]
               l == E[i]
    <3>4. /\ a \in Nat /\ b \in Nat /\ e \in Nat /\ l \in Nat /\ l < Section
          /\ (i - 1) * Section = a - Section
      BY <1>0, <2>4, <3>2
    <3>5. /\ logdb_connection_offset(i - 1) = DbHeader + (a - Section)
          /\ Merged(E).minsz = DbHeader + (a + b) + e
      BY <2>2, <2>3, <3>2, <3>3
    <3>6. (DbHeader + (a - Section)) + l <= DbHeader + (a + b) + e
      <4> HIDE DEF a, b, e, l
      <4> QED
        BY <1>0, <3>4 DEF DbHeader
    <3> QED
      BY <2>1, <3>5, <3>6
  <2> QED
    BY <1>0, <2>1, <2>5, <2>6
<1> QED
  BY <1>0, <1>2, <1>3, <1>4

\* The merge keeps every section that has data, for every log whose entries are
\* in range and whose offsets do not wrap: the sections do not overlap, and the
\* new log finds them where they were.
THEOREM SectionsKept == Spec => []LayoutSound
<1>0. MaxSections \in Nat /\ Section \in Nat /\ Section > 0
  BY LayoutAssumption, IterAssumption DEF LayoutAssumption, IterAssumption
<1>1. ASSUME NEW n \in 0..MaxSections, NEW E \in [1..n -> 0..(Section - 1)]
      PROVE  /\ Merged(E).ok
             /\ \A i \in 1..n :
                 /\ E[i] > 0 => i <= Len(Created(Merged(E))) /\ Created(Merged(E))[i] = E[i]
                 /\ E[i] > 0 => logdb_connection_offset(i - 1) + E[i] <= Merged(E).minsz
                 /\ logdb_connection_offset(i - 1) + Section <= logdb_connection_offset(i)
  <2>1. E \in Seq(0..(Section - 1)) /\ Len(E) = n
    <3> DEFINE D == 0..(Section - 1)
    <3>1. E \in [1..n -> D] /\ n \in Nat
      BY <1>0
    <3> HIDE DEF D
    <3>2. E \in Seq(D) /\ Len(E) = n
      BY <3>1
    <3> QED
      BY <3>2 DEF D
  <2>2. ASSUME NEW i \in 1..n
        PROVE  logdb_connection_offset(i - 1) + Section <= logdb_connection_offset(i)
    <3>1. i - 1 \in Nat /\ i \in Nat /\ i <= MaxSections /\ i - 1 <= MaxSections
      BY <1>0
    <3>2. /\ logdb_connection_offset(i - 1) = DbHeader + (i - 1) * Section
          /\ logdb_connection_offset(i) = DbHeader + i * Section
      BY <3>1, OffsetIs
    <3>3. (i - 1) * Section = i * Section - Section /\ i * Section \in Int
      BY <1>0, <3>1
    <3> QED
      BY <1>0, <3>2, <3>3 DEF DbHeader
  <2>3. n <= MaxSections
    BY <1>0
  <2> QED
    BY <2>1, <2>2, <2>3, MergeKeeps
<1>2. LayoutSound
  BY <1>1 DEF LayoutSound
<1> QED
  BY <1>2, PTL
-----------------------------------------------------------------------------
(***************************************************************************)
(* The inductive invariant.  The log is a parameter, so that a step that   *)
(* changes it can be spoken about.                                         *)
(***************************************************************************)

Places == {"idle", "scan", "acquire", "header", "putting", "put", "closing"}
Results == {"none", "freed", "record", "end", "failed", "skipped"}

IterRec ==
    [lease : BOOLEAN, index : Nat, offset : Int, len : Int,
     record : [key : Nat, value : Nat], key : Int, value : Int,
     last : Nat \X Nat, seen : SUBSET (Nat \X Nat), there : SUBSET (Nat \X (Nat \ {0})),
     result : Results, slipped : BOOLEAN]

\* A log as correct writers leave it.
Written(log) ==
    /\ log \in Seq(Seq(Records))
    /\ Len(log) <= MaxSections
    /\ \A i \in 1..Len(log) : EntryLen(log[i]) < Section

\* The threads that commit, and those that still may, are within the bound.
Writing == {u \in Threads : at[u] \in {"putting", "put"}}
Counted ==
    /\ writes \in Nat /\ made \in Nat /\ made <= MaxIters
    /\ writes + Cardinality(Writing) <= MaxWrites

\* What an iterator may look like in each place: a lease keeps the connection
\* open, and is on a section that there is.
Shaped(log, isopen, x, place) ==
    /\ x \in IterRec
    /\ place \in Places
    /\ x.result = "freed" => x = NoIter
    /\ x.result = "record" => x.lease
    /\ place = "header" => x.lease
    /\ place \in {"scan", "acquire"} => ~x.lease
    /\ place \in {"scan", "acquire", "header"} => x.result = "none"
    /\ x.lease \/ place = "put" => isopen
    /\ x.lease \/ (isopen /\ place = "acquire") => x.index < Len(log)

\* All that was there when the pass began, up to record n of section i, was
\* returned.
Passed(x, i, n) ==
    \A q \in x.there : q[1] < i \/ (q[1] = i /\ q[2] <= n) => q \in x.seen

\* The records in the lease of x are the first N of its section s, among them
\* all that were there when the pass began.
Leased(x, s, N) ==
    /\ N <= Len(s)
    /\ x.offset + x.len = Start(s, N + 1)
    /\ \A q \in x.there : q[1] = x.index => q[2] <= N

\* The next header is that of record n, or at the end of the lease.
AtHeader(x, s, n, N) ==
    /\ Leased(x, s, N)
    /\ n <= N + 1
    /\ x.offset = Start(s, n)
    /\ Passed(x, x.index, n - 1)
    /\ IF n > 1 THEN x.last = <<x.index, n - 1>> ELSE x.last[2] > 0 => x.last[1] < x.index

\* Record n was returned; the offset is behind what was read of it.
AtRecord(x, s, n, N) ==
    LET front == Start(s, n) + Hdr IN
    /\ Leased(x, s, N)
    /\ n <= N
    /\ x.result = "record"
    /\ x.record = s[n]
    /\ x.last = <<x.index, n>>
    /\ Passed(x, x.index, n)
    /\ \/ x.key = Unset /\ x.value = Unset /\ x.offset = front
       \/ x.key = front /\ x.value = Unset /\ x.offset = front + x.record.key
       \/ x.key = front /\ x.value = front + x.record.key
          /\ x.offset = front + x.record.key + x.record.value

\* The last record of a section was skipped, and the lease is empty.
AtEnd(x, s, n, N) ==
    /\ AtHeader(x, s, n, N)
    /\ n = N + 1
    /\ x.result = "skipped"
    /\ x.len < Hdr

\* Where an iterator is in its pass, unless a read failed or had no length.
Placed(log, isopen, x, place) ==
    ~x.slipped =>
        /\ x.result = "end" => x.there \subseteq x.seen
        /\ isopen => \A q \in x.there : q[1] < Len(log) /\ q[2] \in 1..Len(log[q[1] + 1])
        /\ place \in {"scan", "acquire"} =>
            /\ Passed(x, x.index, 0)
            /\ x.last[2] > 0 => x.last[1] < x.index
        /\ place = "header" => \E n, N \in Nat : n > 0 /\ AtHeader(x, log[x.index + 1], n, N)
        /\ x.lease /\ place # "header" =>
            \E n, N \in Nat : n > 0 /\ (AtRecord(x, log[x.index + 1], n, N)
                                        \/ AtEnd(x, log[x.index + 1], n, N))

IterInv ==
    /\ Written(recs)
    /\ open \in BOOLEAN
    /\ at \in [Threads -> Places] /\ iter \in [Threads -> IterRec]
    /\ Counted
    /\ \A t \in Threads : Shaped(recs, open, iter[t], at[t])
    /\ \A t \in Threads : Placed(recs, open, iter[t], at[t])
-----------------------------------------------------------------------------
(***************************************************************************)
(* Iterators that change.                                                  *)
(***************************************************************************)

\* The fields of an iterator.
LEMMA IterFields ==
  ASSUME NEW x \in IterRec
  PROVE  /\ x.lease \in BOOLEAN /\ x.index \in Nat /\ x.offset \in Int /\ x.len \in Int
         /\ x.record \in [key : Nat, value : Nat] /\ x.key \in Int /\ x.value \in Int
         /\ x.last \in Nat \X Nat /\ x.seen \in SUBSET (Nat \X Nat)
         /\ x.there \in SUBSET (Nat \X (Nat \ {0})) /\ x.result \in Results /\ x.slipped \in BOOLEAN
  BY DEF IterRec

\* A constant that is positive.
LEMMA WrapIs == Wrap \in Nat /\ Wrap > 0 /\ Section \in Nat /\ Section > 0 /\ Hdr \in Nat /\ Hdr > 0
<1>1. /\ Wrap \in Nat /\ Section \in Nat /\ Section > 0 /\ Hdr \in Nat /\ Hdr > 0
      /\ MaxSections \in Nat /\ MaxSections * Section < Wrap
  BY LayoutAssumption, IterAssumption DEF LayoutAssumption, IterAssumption
<1>2. MaxSections * Section >= 0 /\ MaxSections * Section \in Nat
  BY <1>1
<1> QED
  BY <1>1, <1>2

\* Iterators that have just been made, or freed.
LEMMA FreshIs ==
  Fresh \in IterRec /\ NoIter \in IterRec /\ NoIter.result = "freed"
  /\ ~NoIter.lease /\ ~NoIter.slipped /\ NoIter.there = {}
<1>1. Unset \in Int
  BY DEF Unset
<1>2. Fresh \in IterRec
  BY <1>1 DEF Fresh, IterRec, Results
<1> QED
  BY <1>1, <1>2 DEF Fresh, NoIter, IterRec, Results

\* A lease that was moved: it either slipped, or is n further.
LEMMA MovedIs ==
  ASSUME NEW x \in IterRec, NEW n \in Nat, NEW r \in Int
  PROVE  /\ Moved(x, n, r) \in IterRec
         /\ Moved(x, n, r).lease = x.lease /\ Moved(x, n, r).index = x.index
         /\ Moved(x, n, r).record = x.record /\ Moved(x, n, r).result = x.result
         /\ Moved(x, n, r).key = x.key /\ Moved(x, n, r).value = x.value
         /\ x.slipped => Moved(x, n, r).slipped
         /\ r = 0 /\ n > 0 => Moved(x, n, r).slipped = x.slipped
         /\ ~Moved(x, n, r).slipped =>
              /\ r = 0 /\ n > 0
              /\ Moved(x, n, r).offset = x.offset + n
              /\ Moved(x, n, r).len = (x.len - n) % Wrap
              /\ Moved(x, n, r).last = x.last /\ Moved(x, n, r).seen = x.seen
              /\ Moved(x, n, r).there = x.there
<1>1. x.offset \in Int /\ x.len \in Int /\ Wrap \in Nat /\ Wrap > 0
  BY IterFields, WrapIs
<1> DEFINE o == x.offset + n - r
           l == (x.len - (n - r)) % Wrap
           y == [x EXCEPT !.offset = x.offset + n - r, !.len = (x.len - (n - r)) % Wrap]
           z == [y EXCEPT !.slipped = TRUE, !.last = <<0, 0>>, !.seen = {}, !.there = {}]
<1>2. o \in Int /\ l \in Int
  BY <1>1
<1>3. /\ y \in IterRec /\ y.offset = o /\ y.len = l /\ y.lease = x.lease /\ y.index = x.index
      /\ y.record = x.record /\ y.result = x.result /\ y.key = x.key /\ y.value = x.value
      /\ y.slipped = x.slipped /\ y.last = x.last /\ y.seen = x.seen /\ y.there = x.there
  <2> HIDE DEF o, l
  <2>1. y = [x EXCEPT !.offset = o, !.len = l]
    BY DEF o, l
  <2> HIDE DEF y
  <2> QED
    BY <1>2, <2>1 DEF IterRec
<1>4. Moved(x, n, r) = IF r = 0 /\ n > 0 THEN y ELSE z
  BY DEF Moved
<1> HIDE DEF y, o, l
<1>5. /\ z \in IterRec /\ z.lease = y.lease /\ z.index = y.index
      /\ z.record = y.record /\ z.result = y.result /\ z.key = y.key /\ z.value = y.value
      /\ z.slipped
  <2>1. <<0, 0>> \in Nat \X Nat /\ {} \in SUBSET (Nat \X Nat) /\ {} \in SUBSET (Nat \X (Nat \ {0}))
    OBVIOUS
  <2> QED
    BY <1>3, <2>1 DEF IterRec
<1> HIDE DEF z
<1>6. CASE r = 0 /\ n > 0
  <2>1. o = x.offset + n /\ l = (x.len - n) % Wrap
    BY <1>1, <1>6 DEF o, l
  <2>2. Moved(x, n, r) = y
    BY <1>4, <1>6
  <2> QED
    BY <1>3, <1>6, <2>1, <2>2
<1>7. CASE ~(r = 0 /\ n > 0)
  <2>1. Moved(x, n, r) = z
    BY <1>4, <1>7
  <2> QED
    BY <1>3, <1>5, <1>7, <2>1
<1> QED
  BY <1>6, <1>7

\* What logdb_lease_read may do to the lease.
LEMMA ReadsAre ==
  ASSUME NEW x \in IterRec, NEW n \in Nat, NEW r \in Reads(x, n)
  PROVE  /\ r.ok \in BOOLEAN
         /\ r.lease \in IterRec
         /\ r.lease.lease = x.lease /\ r.lease.index = x.index
         /\ r.lease.record = x.record /\ r.lease.result = x.result
         /\ r.lease.key = x.key /\ r.lease.value = x.value
         /\ x.slipped => r.lease.slipped
         /\ r.ok /\ n > 0 => r.lease.slipped = x.slipped
         /\ \/ n > x.len /\ ~r.ok /\ r.lease = x
            \/ r.lease.slipped
            \/ /\ n <= x.len /\ n > 0 /\ r.ok
               /\ r.lease.offset = x.offset + n
               /\ r.lease.len = (x.len - n) % Wrap
               /\ r.lease.last = x.last /\ r.lease.seen = x.seen /\ r.lease.there = x.there
<1>0. x.len \in Int
  BY IterFields
<1>1. CASE n > x.len
  <2>1. r = [ok |-> FALSE, lease |-> x]
    BY <1>1 DEF Reads
  <2>2. r.ok = FALSE /\ r.lease = x
    BY <2>1
  <2> QED
    BY <1>1, <2>2
<1>2. CASE n <= x.len
  <2>0. r \in {[ok |-> q = 0, lease |-> Moved(x, n, q)] : q \in ReadResults(n, n, Faults)}
    BY <1>0, <1>2 DEF Reads
  <2>1. PICK q \in ReadResults(n, n, Faults) : r = [ok |-> q = 0, lease |-> Moved(x, n, q)]
    BY <2>0
  <2>2. q \in Int
    BY <2>1, ReadResultsType
  <2> DEFINE m == Moved(x, n, q)
  <2>3. r.ok = (q = 0) /\ r.lease = m
    BY <2>1
  <2>4. /\ m \in IterRec
        /\ m.lease = x.lease /\ m.index = x.index
        /\ m.record = x.record /\ m.result = x.result
        /\ m.key = x.key /\ m.value = x.value
        /\ x.slipped => m.slipped
        /\ q = 0 /\ n > 0 => m.slipped = x.slipped
    BY <2>2, MovedIs
  <2>5. ~m.slipped => /\ q = 0 /\ n > 0
                      /\ m.offset = x.offset + n
                      /\ m.len = (x.len - n) % Wrap
                      /\ m.last = x.last /\ m.seen = x.seen /\ m.there = x.there
    BY <2>2, MovedIs
  <2> HIDE DEF m
  <2>6. r.ok \in BOOLEAN /\ (q = 0 <=> r.ok)
    BY <2>3
  <2>7. ~m.slipped => n <= x.len /\ n > 0 /\ r.ok
    BY <1>2, <2>5, <2>6
  <2>8. /\ r.lease \in IterRec
        /\ r.lease.lease = x.lease /\ r.lease.index = x.index
        /\ r.lease.record = x.record /\ r.lease.result = x.result
        /\ r.lease.key = x.key /\ r.lease.value = x.value
        /\ x.slipped => r.lease.slipped
        /\ r.ok /\ n > 0 => r.lease.slipped = x.slipped
    BY <2>3, <2>4, <2>6
  <2>9. ~r.lease.slipped =>
               /\ n <= x.len /\ n > 0 /\ r.ok
               /\ r.lease.offset = x.offset + n
               /\ r.lease.len = (x.len - n) % Wrap
               /\ r.lease.last = x.last /\ r.lease.seen = x.seen /\ r.lease.there = x.there
    BY <2>3, <2>5, <2>7
  <2> QED
    BY <2>6, <2>8, <2>9
<1> QED
  BY <1>0, <1>1, <1>2
-----------------------------------------------------------------------------
(***************************************************************************)
(* Leases on sections.                                                     *)
(***************************************************************************)

\* Later records do not start earlier.
LEMMA StartUpTo ==
  ASSUME NEW s \in Seq(Records), NEW m \in 1..(Len(s) + 1), NEW n \in 1..(Len(s) + 1), m <= n
  PROVE  Start(s, m) \in Nat /\ Start(s, n) \in Nat /\ Start(s, m) <= Start(s, n)
<1>0. Start(s, m) \in Nat /\ Start(s, n) \in Nat /\ Len(s) \in Nat
  BY StartType
<1>1. CASE m = n
  BY <1>0, <1>1
<1>2. CASE m < n
  <2>1. Start(s, m) + Size(s[m]) <= Start(s, n)
    BY <1>2, StartLess
  <2>2. m \in 1..Len(s)
    BY <1>0, <1>2
  <2>3. s[m] \in Records
    BY <2>2
  <2>4. Size(s[m]) \in Nat
    BY <2>3, SizeIs
  <2> QED
    BY <1>0, <2>1, <2>4
<1> QED
  BY <1>1, <1>2

\* The bytes of a record that is followed by those up to N.
LEMMA RecordFits ==
  ASSUME NEW s \in Seq(Records), EntryLen(s) < Section,
         NEW n \in Nat, n > 0, NEW N \in Nat, n <= N, N <= Len(s)
  PROVE  /\ s[n] \in Records /\ s[n].key \in Nat /\ s[n].value \in Nat
         /\ Start(s, n) \in Nat /\ Start(s, n + 1) \in Nat /\ Start(s, N + 1) \in Nat
         /\ Start(s, n + 1) = Start(s, n) + Hdr + s[n].key + s[n].value
         /\ Start(s, n + 1) <= Start(s, N + 1)
         /\ n < N => Start(s, n + 1) + Hdr <= Start(s, N + 1)
         /\ Start(s, N + 1) < Section
<1>0. Len(s) \in Nat /\ n \in 1..Len(s)
  OBVIOUS
<1>1. s[n] \in Records
  BY <1>0
<1>2. /\ s[n].key \in Nat /\ s[n].value \in Nat /\ Hdr \in Nat
      /\ Size(s[n]) = Hdr + s[n].key + s[n].value
  BY <1>1, SizeIs
<1>3. /\ n \in 1..(Len(s) + 1) /\ n + 1 \in 1..(Len(s) + 1) /\ N + 1 \in 1..(Len(s) + 1)
      /\ Len(s) + 1 \in 1..(Len(s) + 1) /\ n + 1 <= N + 1 /\ N + 1 <= Len(s) + 1
  BY <1>0
<1>4. /\ Start(s, n) \in Nat /\ Start(s, n + 1) \in Nat /\ Start(s, N + 1) \in Nat
      /\ Start(s, Len(s) + 1) \in Nat
  BY <1>3, StartType
<1>5. Start(s, n + 1) = Start(s, n) + Size(s[n])
  BY <1>0, StartIs
<1>6. Start(s, n + 1) <= Start(s, N + 1)
  BY <1>3, StartUpTo
<1>7. Start(s, N + 1) <= Start(s, Len(s) + 1)
  BY <1>3, StartUpTo
<1>8. Start(s, N + 1) < Section
  BY <1>4, <1>7, WrapIs DEF EntryLen
<1>9. ASSUME n < N PROVE Start(s, n + 1) + Hdr <= Start(s, N + 1)
  <2>1. n + 1 < N + 1
    BY <1>9
  <2>2. Start(s, n + 1) + Size(s[n + 1]) <= Start(s, N + 1)
    BY <1>3, <2>1, StartLess
  <2>3. n + 1 \in 1..Len(s)
    BY <1>0, <1>9
  <2>4. s[n + 1] \in Records
    BY <2>3
  <2>5. Size(s[n + 1]) \in Nat /\ Size(s[n + 1]) >= Hdr
    BY <2>4, SizeIs
  <2> QED
    BY <1>2, <1>4, <2>2, <2>5
<1>10. Start(s, n + 1) = Start(s, n) + Hdr + s[n].key + s[n].value
  BY <1>2, <1>4, <1>5
<1> QED
  BY <1>1, <1>2, <1>4, <1>6, <1>8, <1>9, <1>10

\* A section of a log, with the length of a lease on it.
LEMMA SectionIs ==
  ASSUME NEW log, Written(log), NEW i \in Nat, i < Len(log)
  PROVE  /\ log[i + 1] \in Seq(Records)
         /\ EntryLen(log[i + 1]) < Section
         /\ \A l \in Int : 0 <= l /\ l < Section => l % Wrap = l
<1>1. log \in Seq(Seq(Records)) /\ Len(log) \in Nat /\ i + 1 \in 1..Len(log) /\ Len(log) <= MaxSections
  BY DEF Written
<1>2. log[i + 1] \in Seq(Records)
  BY <1>1
<1>3. EntryLen(log[i + 1]) < Section
  BY <1>1 DEF Written
<1>4. Section < Wrap
  <2>1. MaxSections \in Nat /\ MaxSections >= 1 /\ MaxSections * Section < Wrap
    BY <1>1, IterAssumption DEF IterAssumption
  <2> DEFINE d == MaxSections - 1
  <2>2. d \in Nat /\ MaxSections = d + 1
    BY <2>1
  <2> HIDE DEF d
  <2>3. (d + 1) * Section = d * Section + Section /\ d * Section \in Nat
    BY <2>2, WrapIs
  <2>4. d * Section + Section < Wrap
    BY <2>1, <2>2, <2>3
  <2> QED
    BY <2>3, <2>4, WrapIs
<1>5. ASSUME NEW l \in Int, 0 <= l, l < Section PROVE l % Wrap = l
  BY <1>4, <1>5, WrapIs
<1> QED
  BY <1>2, <1>3, <1>5

\* The number of bytes of a record that are still to be skipped.
LEMMA UnreadIs ==
  ASSUME NEW x \in IterRec
  PROVE  Unread(x) \in Nat
<1>1. x.record.key \in Nat /\ x.record.value \in Nat
  BY IterFields
<1> QED
  BY <1>1 DEF Unread

\* logdb_lease_seek goes to the next header, whatever was read of the record.
LEMMA SeekSkips ==
  ASSUME NEW x \in IterRec, NEW s \in Seq(Records), EntryLen(s) < Section,
         \A l \in Int : 0 <= l /\ l < Section => l % Wrap = l,
         NEW n \in Nat, n > 0, NEW N \in Nat, AtRecord(x, s, n, N),
         NEW y \in IterRec, y.offset = x.offset + Unread(x), y.len = (x.len - Unread(x)) % Wrap,
         y.index = x.index, y.last = x.last, y.seen = x.seen, y.there = x.there
  PROVE  AtHeader(y, s, n + 1, N)
<1> DEFINE front == Start(s, n) + Hdr
           k == x.record.key
           v == x.record.value
<1>1. /\ n <= N /\ N <= Len(s) /\ x.record = s[n] /\ x.offset + x.len = Start(s, N + 1)
      /\ \A q \in x.there : q[1] = x.index => q[2] <= N
      /\ x.last = <<x.index, n>> /\ Passed(x, x.index, n)
      /\ \/ x.key = Unset /\ x.value = Unset /\ x.offset = front
         \/ x.key = front /\ x.value = Unset /\ x.offset = front + k
         \/ x.key = front /\ x.value = front + k /\ x.offset = front + k + v
  BY DEF AtRecord, Leased
<1>2. /\ k \in Nat /\ v \in Nat /\ Hdr \in Nat
      /\ Start(s, n) \in Nat /\ Start(s, n + 1) \in Nat /\ Start(s, N + 1) \in Nat
      /\ Start(s, n + 1) = Start(s, n) + Hdr + k + v
      /\ Start(s, n + 1) <= Start(s, N + 1) /\ Start(s, N + 1) < Section
  BY <1>1, RecordFits, WrapIs
<1>3. Unread(x) = (IF x.key # Unset THEN 0 ELSE k) + (IF x.value # Unset THEN 0 ELSE v)
  BY DEF Unread
<1>4. front \in Nat /\ front # Unset /\ front + k # Unset
  BY <1>2 DEF Unset
<1>5. x.offset \in Int /\ x.len \in Int
  BY IterFields
<1>6. x.offset + Unread(x) = Start(s, n + 1)
  <2>1. front + k + v = Start(s, n + 1)
    BY <1>2
  <2> HIDE DEF front, k, v
  <2>2. CASE x.key = Unset /\ x.value = Unset /\ x.offset = front
    <3>1. Unread(x) = k + v
      BY <1>3, <2>2
    <3> QED
      BY <1>2, <1>4, <2>1, <2>2, <3>1
  <2>3. CASE x.key = front /\ x.value = Unset /\ x.offset = front + k
    <3>1. Unread(x) = 0 + v
      BY <1>3, <1>4, <2>3
    <3> QED
      BY <1>2, <1>4, <2>1, <2>3, <3>1
  <2>4. CASE x.key = front /\ x.value = front + k /\ x.offset = front + k + v
    <3>1. Unread(x) = 0 + 0
      BY <1>3, <1>4, <2>4
    <3> QED
      BY <1>2, <1>4, <2>1, <2>4, <3>1
  <2> QED
    BY <1>1, <2>2, <2>3, <2>4
<1>7. Unread(x) \in Nat
  BY UnreadIs
<1>8. x.len - Unread(x) = Start(s, N + 1) - Start(s, n + 1)
  <2> DEFINE a == x.offset
             b == x.len
             u == Unread(x)
             c == Start(s, N + 1)
             d == Start(s, n + 1)
  <2>1. a \in Int /\ b \in Int /\ u \in Nat /\ c \in Nat /\ d \in Nat /\ a + b = c /\ a + u = d
    BY <1>1, <1>2, <1>5, <1>6, <1>7
  <2> HIDE DEF a, b, u, c, d
  <2>2. b - u = c - d
    BY <2>1
  <2> QED
    BY <2>2 DEF a, b, u, c, d
<1>9. y.len = Start(s, N + 1) - Start(s, n + 1)
  <2> DEFINE l == Start(s, N + 1) - Start(s, n + 1)
  <2>1. l \in Int /\ 0 <= l /\ l < Section
    BY <1>2, WrapIs
  <2>2. y.len = l % Wrap
    BY <1>8
  <2> HIDE DEF l
  <2>3. l % Wrap = l
    BY <2>1
  <2> QED
    BY <2>2, <2>3 DEF l
<1>10. y.offset + y.len = Start(s, N + 1) /\ y.offset = Start(s, n + 1)
  BY <1>2, <1>6, <1>9
<1>11. Leased(y, s, N)
  BY <1>1, <1>10 DEF Leased
<1>12. Passed(y, y.index, (n + 1) - 1)
  BY <1>1 DEF Passed
<1>13. y.last = <<y.index, (n + 1) - 1>> /\ n + 1 > 1 /\ n + 1 <= N + 1
  BY <1>1
<1> QED
  BY <1>10, <1>11, <1>12, <1>13 DEF AtHeader

\* What is left of a lease that ends at e, before a part of length k.
LEMMA RoomIs ==
  ASSUME NEW o \in Nat, NEW l \in Int, NEW e \in Nat, NEW k \in Nat,
         o + l = e, o + k <= e, e < Section
  PROVE  l >= k /\ l < Section /\ l - k \in Int /\ 0 <= l - k /\ l - k < Section
  BY WrapIs

\* There is a header in the lease unless its last record was passed.
LEMMA HeaderRoom ==
  ASSUME NEW x \in IterRec, NEW s \in Seq(Records), EntryLen(s) < Section,
         NEW n \in Nat, n > 0, NEW N \in Nat, AtHeader(x, s, n, N)
  PROVE  /\ N <= Len(s) /\ n <= Len(s) + 1
         /\ n <= N => x.len >= Hdr /\ x.len < Section
         /\ n > N => n = N + 1 /\ x.len = 0
<1>1. N <= Len(s) /\ x.offset + x.len = Start(s, N + 1) /\ n <= N + 1 /\ x.offset = Start(s, n)
  BY DEF AtHeader, Leased
<1>2. Len(s) \in Nat /\ x.offset \in Int /\ x.len \in Int
  BY IterFields
<1>3. ASSUME n <= N PROVE x.len >= Hdr /\ x.len < Section
  <2>1. /\ s[n].key \in Nat /\ s[n].value \in Nat
        /\ Start(s, n) \in Nat /\ Start(s, n + 1) \in Nat /\ Start(s, N + 1) \in Nat
        /\ Start(s, n + 1) = Start(s, n) + Hdr + s[n].key + s[n].value
        /\ Start(s, n + 1) <= Start(s, N + 1) /\ Start(s, N + 1) < Section
    BY <1>1, <1>3, RecordFits
  <2>2. Start(s, n) + Hdr <= Start(s, N + 1)
    <3> DEFINE k == s[n].key
               v == s[n].value
    <3>1. k \in Nat /\ v \in Nat /\ Start(s, n + 1) = Start(s, n) + Hdr + k + v
      BY <2>1
    <3> HIDE DEF k, v
    <3> QED
      BY <2>1, <3>1, WrapIs
  <2>3. Start(s, n) + x.len = Start(s, N + 1)
    BY <1>1
  <2> DEFINE o == Start(s, n)
             l == x.len
             e == Start(s, N + 1)
  <2>4. o \in Nat /\ l \in Int /\ e \in Nat /\ e < Section /\ o + l = e /\ o + Hdr <= e
    BY <1>2, <2>1, <2>2, <2>3
  <2> HIDE DEF o, l, e
  <2>5. l >= Hdr /\ l < Section
    BY <2>4, WrapIs, RoomIs
  <2> QED
    BY <2>5 DEF l
<1>4. ASSUME n > N PROVE n = N + 1 /\ x.len = 0
  <2>1. n = N + 1
    BY <1>1, <1>4
  <2>2. x.offset = Start(s, N + 1)
    BY <1>1, <2>1
  <2> QED
    BY <1>1, <1>2, <2>1, <2>2
<1> QED
  BY <1>1, <1>2, <1>3, <1>4

\* A header that is read is that of the next record.
LEMMA HeaderTaken ==
  ASSUME NEW x \in IterRec, NEW s \in Seq(Records), EntryLen(s) < Section,
         \A l \in Int : 0 <= l /\ l < Section => l % Wrap = l,
         NEW n \in Nat, n > 0, NEW N \in Nat, AtHeader(x, s, n, N), n <= N,
         NEW y \in IterRec, y.offset = x.offset + Hdr, y.len = (x.len - Hdr) % Wrap,
         y.index = x.index, y.there = x.there, y.record = s[n], y.result = "record",
         y.key = Unset, y.value = Unset,
         y.last = <<x.index, n>>, y.seen = x.seen \cup {<<x.index, n>>}
  PROVE  AtRecord(y, s, n, N)
<1>1. /\ N <= Len(s) /\ x.offset + x.len = Start(s, N + 1) /\ x.offset = Start(s, n)
      /\ \A q \in x.there : q[1] = x.index => q[2] <= N
      /\ Passed(x, x.index, n - 1)
  BY DEF AtHeader, Leased
<1>2. x.offset \in Int /\ x.len \in Int /\ x.there \in SUBSET (Nat \X (Nat \ {0})) /\ x.index \in Nat
  BY IterFields
<1>3. x.len >= Hdr /\ x.len < Section
  BY HeaderRoom
<1>4. y.len = x.len - Hdr
  <2> DEFINE l == x.len - Hdr
  <2>1. l \in Int /\ 0 <= l /\ l < Section
    BY <1>2, <1>3, WrapIs
  <2> HIDE DEF l
  <2>2. l % Wrap = l
    BY <2>1
  <2> QED
    BY <2>2 DEF l
<1>5. y.offset + y.len = Start(s, N + 1) /\ y.offset = Start(s, n) + Hdr
  BY <1>1, <1>2, <1>4, WrapIs
<1>6. Leased(y, s, N)
  BY <1>1, <1>5 DEF Leased
<1>7. Passed(y, y.index, n)
  <2> SUFFICES ASSUME NEW q \in x.there, q[1] < x.index \/ (q[1] = x.index /\ q[2] <= n)
               PROVE  q \in x.seen \cup {<<x.index, n>>}
    BY DEF Passed
  <2>1. q \in Nat \X (Nat \ {0}) /\ q = <<q[1], q[2]>> /\ q[2] \in Nat
    BY <1>2
  <2>2. CASE q[1] < x.index \/ (q[1] = x.index /\ q[2] <= n - 1)
    BY <1>1, <2>2 DEF Passed
  <2>3. CASE q[1] = x.index /\ q[2] = n
    BY <2>1, <2>3
  <2> QED
    BY <2>1, <2>2, <2>3
<1> QED
  BY <1>5, <1>6, <1>7 DEF AtRecord

\* The key of the current record can be read, from where it is.
LEMMA KeyTaken ==
  ASSUME NEW x \in IterRec, NEW s \in Seq(Records), EntryLen(s) < Section,
         \A l \in Int : 0 <= l /\ l < Section => l % Wrap = l,
         NEW n \in Nat, n > 0, NEW N \in Nat, AtRecord(x, s, n, N), x.key = Unset
  PROVE  /\ x.record.key \in Nat /\ x.record.key <= x.len
         /\ \A y \in IterRec :
              /\ y.offset = x.offset + x.record.key /\ y.len = (x.len - x.record.key) % Wrap
              /\ y.index = x.index /\ y.last = x.last /\ y.seen = x.seen /\ y.there = x.there
              /\ y.record = x.record /\ y.result = x.result
              /\ y.key = x.offset /\ y.value = x.value
              => AtRecord(y, s, n, N) /\ y.key # Unset
<1> DEFINE front == Start(s, n) + Hdr
           k == x.record.key
           v == x.record.value
<1>1. /\ n <= N /\ N <= Len(s) /\ x.record = s[n] /\ x.offset + x.len = Start(s, N + 1)
      /\ \A q \in x.there : q[1] = x.index => q[2] <= N
      /\ x.last = <<x.index, n>> /\ Passed(x, x.index, n) /\ x.result = "record"
      /\ \/ x.key = Unset /\ x.value = Unset /\ x.offset = front
         \/ x.key = front /\ x.value = Unset /\ x.offset = front + k
         \/ x.key = front /\ x.value = front + k /\ x.offset = front + k + v
  BY DEF AtRecord, Leased
<1>2. /\ k \in Nat /\ v \in Nat /\ Hdr \in Nat
      /\ Start(s, n) \in Nat /\ Start(s, n + 1) \in Nat /\ Start(s, N + 1) \in Nat
      /\ Start(s, n + 1) = Start(s, n) + Hdr + k + v
      /\ Start(s, n + 1) <= Start(s, N + 1) /\ Start(s, N + 1) < Section
  BY <1>1, RecordFits, WrapIs
<1>3. front \in Nat /\ front # Unset
  BY <1>2 DEF Unset
<1>4. x.key = Unset /\ x.value = Unset /\ x.offset = front
  BY <1>1, <1>3
<1>5. /\ x.len \in Int /\ x.len >= k /\ x.len < Section
      /\ x.len - k \in Int /\ 0 <= x.len - k /\ x.len - k < Section
  <2>1. x.len \in Int /\ front + x.len = Start(s, N + 1) /\ front + k + v <= Start(s, N + 1)
    BY <1>1, <1>2, <1>4, IterFields
  <2> HIDE DEF front, k, v
  <2>2. front + k <= Start(s, N + 1)
    BY <1>2, <1>3, <2>1
  <2> DEFINE l == x.len
             e == Start(s, N + 1)
  <2>8. l \in Int /\ e \in Nat /\ e < Section /\ front + l = e /\ front + k <= e
    BY <1>2, <2>1, <2>2
  <2> HIDE DEF l, e
  <2>9. l >= k /\ l < Section /\ l - k \in Int /\ 0 <= l - k /\ l - k < Section
    BY <1>2, <1>3, <2>8, RoomIs
  <2> QED
    BY <2>8, <2>9 DEF l
<1>6. (x.len - k) % Wrap = x.len - k
  <2> DEFINE l == x.len - k
  <2>1. l \in Int /\ 0 <= l /\ l < Section
    BY <1>5
  <2> HIDE DEF l
  <2>2. l % Wrap = l
    BY <2>1
  <2> QED
    BY <2>2 DEF l
<1>7. ASSUME NEW y \in IterRec,
             y.offset = x.offset + x.record.key, y.len = (x.len - x.record.key) % Wrap,
             y.index = x.index, y.last = x.last, y.seen = x.seen, y.there = x.there,
             y.record = x.record, y.result = x.result, y.key = x.offset, y.value = x.value
      PROVE  AtRecord(y, s, n, N) /\ y.key # Unset
  <2>1. y.offset = front + k /\ y.len = x.len - k /\ y.key = front /\ y.value = Unset
    BY <1>4, <1>6, <1>7
  <2>2. y.offset + y.len = Start(s, N + 1)
    <3>1. front + x.len = Start(s, N + 1)
      BY <1>1, <1>4
    <3> HIDE DEF front, k
    <3> QED
      BY <1>2, <1>3, <1>5, <2>1, <3>1
  <2>3. Leased(y, s, N)
    BY <1>1, <1>7, <2>2 DEF Leased
  <2>4. Passed(y, y.index, n)
    BY <1>1, <1>7 DEF Passed
  <2> QED
    BY <1>1, <1>3, <1>7, <2>1, <2>3, <2>4 DEF AtRecord
<1> QED
  BY <1>2, <1>5, <1>7

\* And so can the value, once the key has been read.
LEMMA ValueTaken ==
  ASSUME NEW x \in IterRec, NEW s \in Seq(Records), EntryLen(s) < Section,
         \A l \in Int : 0 <= l /\ l < Section => l % Wrap = l,
         NEW n \in Nat, n > 0, NEW N \in Nat, AtRecord(x, s, n, N), x.key # Unset, x.value = Unset
  PROVE  /\ x.record.value \in Nat /\ x.record.value <= x.len
         /\ \A y \in IterRec :
              /\ y.offset = x.offset + x.record.value /\ y.len = (x.len - x.record.value) % Wrap
              /\ y.index = x.index /\ y.last = x.last /\ y.seen = x.seen /\ y.there = x.there
              /\ y.record = x.record /\ y.result = x.result
              /\ y.key = x.key /\ y.value = x.offset
              => AtRecord(y, s, n, N)
<1> DEFINE front == Start(s, n) + Hdr
           k == x.record.key
           v == x.record.value
<1>1. /\ n <= N /\ N <= Len(s) /\ x.record = s[n] /\ x.offset + x.len = Start(s, N + 1)
      /\ \A q \in x.there : q[1] = x.index => q[2] <= N
      /\ x.last = <<x.index, n>> /\ Passed(x, x.index, n) /\ x.result = "record"
      /\ \/ x.key = Unset /\ x.value = Unset /\ x.offset = front
         \/ x.key = front /\ x.value = Unset /\ x.offset = front + k
         \/ x.key = front /\ x.value = front + k /\ x.offset = front + k + v
  BY DEF AtRecord, Leased
<1>2. /\ k \in Nat /\ v \in Nat /\ Hdr \in Nat
      /\ Start(s, n) \in Nat /\ Start(s, n + 1) \in Nat /\ Start(s, N + 1) \in Nat
      /\ Start(s, n + 1) = Start(s, n) + Hdr + k + v
      /\ Start(s, n + 1) <= Start(s, N + 1) /\ Start(s, N + 1) < Section
  BY <1>1, RecordFits, WrapIs
<1>3. front \in Nat /\ front + k \in Nat /\ front + k # Unset
  <2>1. front \in Nat
    BY <1>2
  <2> HIDE DEF front, k
  <2> QED
    BY <1>2, <2>1 DEF Unset
<1>4. x.key = front /\ x.value = Unset /\ x.offset = front + k
  BY <1>1, <1>3
<1>5. /\ x.len \in Int /\ x.len >= v /\ x.len < Section
      /\ x.len - v \in Int /\ 0 <= x.len - v /\ x.len - v < Section
  <2>1. x.len \in Int /\ front + k + x.len = Start(s, N + 1) /\ front + k + v <= Start(s, N + 1)
    BY <1>1, <1>2, <1>4, IterFields
  <2> DEFINE o == front + k
  <2>2. o \in Nat /\ o + x.len = Start(s, N + 1) /\ o + v <= Start(s, N + 1)
    BY <1>3, <2>1
  <2> HIDE DEF front, k, v, o
  <2> DEFINE l == x.len
             e == Start(s, N + 1)
  <2>8. l \in Int /\ e \in Nat /\ e < Section /\ o + l = e /\ o + v <= e
    BY <1>2, <2>1, <2>2
  <2> HIDE DEF l, e
  <2>9. l >= v /\ l < Section /\ l - v \in Int /\ 0 <= l - v /\ l - v < Section
    BY <1>2, <2>2, <2>8, RoomIs
  <2> QED
    BY <2>8, <2>9 DEF l
<1>6. (x.len - v) % Wrap = x.len - v
  <2> DEFINE l == x.len - v
  <2>1. l \in Int /\ 0 <= l /\ l < Section
    BY <1>5
  <2> HIDE DEF l
  <2>2. l % Wrap = l
    BY <2>1
  <2> QED
    BY <2>2 DEF l
<1>7. ASSUME NEW y \in IterRec,
             y.offset = x.offset + x.record.value, y.len = (x.len - x.record.value) % Wrap,
             y.index = x.index, y.last = x.last, y.seen = x.seen, y.there = x.there,
             y.record = x.record, y.result = x.result, y.key = x.key, y.value = x.offset
      PROVE  AtRecord(y, s, n, N)
  <2>1. y.offset = front + k + v /\ y.len = x.len - v /\ y.key = front /\ y.value = front + k
    BY <1>4, <1>6, <1>7
  <2>2. y.offset + y.len = Start(s, N + 1)
    <3> DEFINE o == front + k
               l == x.len
               e == Start(s, N + 1)
    <3>1. o + l = e /\ o \in Nat /\ l \in Int /\ v \in Nat /\ e \in Nat
      BY <1>1, <1>2, <1>3, <1>4, <1>5
    <3>2. y.offset = o + v /\ y.len = l - v
      BY <2>1
    <3> HIDE DEF o, l, e, v
    <3>3. (o + v) + (l - v) = e
      BY <3>1
    <3> QED
      BY <3>2, <3>3 DEF e
  <2>3. Leased(y, s, N)
    BY <1>1, <1>7, <2>2 DEF Leased
  <2>4. Passed(y, y.index, n)
    BY <1>1, <1>7 DEF Passed
  <2> QED
    BY <1>1, <1>3, <1>7, <2>1, <2>3, <2>4 DEF AtRecord
<1> QED
  BY <1>2, <1>5, <1>7

\* A lease without room for a header has been read to its end.
LEMMA SectionDone ==
  ASSUME NEW x \in IterRec, NEW s \in Seq(Records), EntryLen(s) < Section,
         NEW n \in Nat, n > 0, NEW N \in Nat, AtRecord(x, s, n, N) \/ AtEnd(x, s, n, N), x.len < Hdr
  PROVE  Passed(x, x.index + 1, 0) /\ (x.last[2] > 0 => x.last[1] < x.index + 1)
<1>0. /\ x.there \in SUBSET (Nat \X (Nat \ {0})) /\ x.index \in Nat /\ x.last \in Nat \X Nat
      /\ x.len \in Int /\ x.offset \in Int
  BY IterFields
<1>1. CASE AtRecord(x, s, n, N)
  <2> DEFINE front == Start(s, n) + Hdr
             k == x.record.key
             v == x.record.value
  <2>1. /\ n <= N /\ N <= Len(s) /\ x.record = s[n] /\ x.offset + x.len = Start(s, N + 1)
        /\ \A q \in x.there : q[1] = x.index => q[2] <= N
        /\ x.last = <<x.index, n>> /\ Passed(x, x.index, n)
        /\ \/ x.key = Unset /\ x.value = Unset /\ x.offset = front
           \/ x.key = front /\ x.value = Unset /\ x.offset = front + k
           \/ x.key = front /\ x.value = front + k /\ x.offset = front + k + v
    BY <1>1 DEF AtRecord, Leased
  <2>2. /\ k \in Nat /\ v \in Nat /\ Hdr \in Nat
        /\ Start(s, n) \in Nat /\ Start(s, n + 1) \in Nat /\ Start(s, N + 1) \in Nat
        /\ Start(s, n + 1) = Start(s, n) + Hdr + k + v
        /\ n < N => Start(s, n + 1) + Hdr <= Start(s, N + 1)
    BY <2>1, RecordFits, WrapIs
  <2>3. x.offset <= Start(s, n + 1)
    <3>1. front + k + v = Start(s, n + 1) /\ front \in Nat
      BY <2>2
    <3>2. x.offset = front \/ x.offset = front + k \/ x.offset = front + k + v
      BY <2>1
    <3> HIDE DEF front, k, v
    <3> QED
      BY <2>2, <3>1, <3>2
  <2>4. n = N
    <3> DEFINE o == x.offset
               l == x.len
               a == Start(s, n + 1)
               e == Start(s, N + 1)
    <3>1. /\ o \in Int /\ l \in Int /\ a \in Nat /\ e \in Nat /\ o + l = e /\ o <= a /\ l < Hdr
          /\ n < N => a + Hdr <= e
      BY <1>0, <2>1, <2>2, <2>3
    <3> HIDE DEF o, l, a, e
    <3>2. ~(n < N)
      BY <3>1, WrapIs
    <3> QED
      BY <2>1, <3>2
  <2>5. Passed(x, x.index + 1, 0)
    <3> SUFFICES ASSUME NEW q \in x.there, q[1] < x.index + 1 \/ (q[1] = x.index + 1 /\ q[2] <= 0)
                 PROVE  q \in x.seen
      BY DEF Passed
    <3>1. q[1] \in Nat /\ q[2] \in Nat \ {0}
      BY <1>0
    <3>2. q[1] < x.index \/ q[1] = x.index
      BY <1>0, <2>1, <3>1
    <3>3. q[1] = x.index => q[2] <= n
      BY <2>1, <2>4
    <3> QED
      BY <2>1, <3>2, <3>3 DEF Passed
  <2> QED
    BY <1>0, <2>1, <2>5
<1>2. CASE AtEnd(x, s, n, N)
  <2>1. /\ n = N + 1 /\ \A q \in x.there : q[1] = x.index => q[2] <= N
        /\ Passed(x, x.index, n - 1)
        /\ IF n > 1 THEN x.last = <<x.index, n - 1>> ELSE x.last[2] > 0 => x.last[1] < x.index
    BY <1>2 DEF AtEnd, AtHeader, Leased
  <2>2. Passed(x, x.index + 1, 0)
    <3> SUFFICES ASSUME NEW q \in x.there, q[1] < x.index + 1 \/ (q[1] = x.index + 1 /\ q[2] <= 0)
                 PROVE  q \in x.seen
      BY DEF Passed
    <3>1. q[1] \in Nat /\ q[2] \in Nat \ {0}
      BY <1>0
    <3>2. q[1] < x.index \/ q[1] = x.index
      BY <1>0, <2>1, <3>1
    <3>3. q[1] = x.index => q[2] <= n - 1
      BY <2>1
    <3> QED
      BY <2>1, <3>2, <3>3 DEF Passed
  <2>3. x.last[2] > 0 => x.last[1] < x.index + 1
    BY <1>0, <2>1
  <2> QED
    BY <2>2, <2>3
<1> QED
  BY <1>1, <1>2
-----------------------------------------------------------------------------
(***************************************************************************)
(* What the steps do to one iterator.                                      *)
(***************************************************************************)

\* The log new has what log has, and perhaps more behind it.
Grows(log, new) ==
    /\ Len(log) <= Len(new)
    /\ \A j \in 1..Len(log) :
        /\ Len(log[j]) <= Len(new[j])
        /\ \A k \in 1..Len(log[j]) : new[j][k] = log[j][k]

\* Records that are published do not disturb the iterators.
LEMMA GrowthKeeps ==
  ASSUME NEW log, Written(log), NEW new, Written(new), Grows(log, new),
         NEW isopen, NEW x, NEW place, Shaped(log, isopen, x, place), Placed(log, isopen, x, place)
  PROVE  Shaped(new, isopen, x, place) /\ Placed(new, isopen, x, place)
<1>0. x \in IterRec
  BY DEF Shaped
<1>1. Len(log) \in Nat /\ Len(new) \in Nat /\ Len(log) <= Len(new) /\ x.index \in Nat
  BY <1>0, IterFields DEF Written, Grows
<1>2. Shaped(new, isopen, x, place)
  BY <1>1 DEF Shaped
<1>3. ASSUME NEW i \in Nat, i < Len(log)
      PROVE  /\ log[i + 1] \in Seq(Records) /\ new[i + 1] \in Seq(Records)
             /\ Len(log[i + 1]) \in Nat /\ Len(new[i + 1]) \in Nat
             /\ Len(log[i + 1]) <= Len(new[i + 1])
             /\ \A k \in 1..Len(log[i + 1]) : new[i + 1][k] = log[i + 1][k]
             /\ \A k \in 1..(Len(log[i + 1]) + 1) : Start(new[i + 1], k) = Start(log[i + 1], k)
  <2>1. i < Len(new) /\ i + 1 \in 1..Len(log)
    BY <1>1, <1>3
  <2>2. log[i + 1] \in Seq(Records) /\ new[i + 1] \in Seq(Records)
    BY <1>3, <2>1, SectionIs
  <2>3. Len(log[i + 1]) \in Nat /\ Len(new[i + 1]) \in Nat
    BY <2>2
  <2>4. /\ Len(log[i + 1]) <= Len(new[i + 1])
        /\ \A k \in 1..Len(log[i + 1]) : new[i + 1][k] = log[i + 1][k]
    BY <2>1 DEF Grows
  <2>5. \A k \in 1..(Len(log[i + 1]) + 1) : Start(new[i + 1], k) = Start(log[i + 1], k)
    BY <2>3, <2>4, StartKept
  <2> QED
    BY <2>2, <2>3, <2>4, <2>5
<1> SUFFICES ASSUME ~x.slipped PROVE Placed(new, isopen, x, place)
  BY <1>2 DEF Placed
<1>4. ASSUME isopen, NEW q \in x.there PROVE q[1] < Len(new) /\ q[2] \in 1..Len(new[q[1] + 1])
  <2>1. q[1] < Len(log) /\ q[2] \in 1..Len(log[q[1] + 1])
    BY <1>4 DEF Placed
  <2>2. q[1] \in Nat
    BY <1>0, IterFields
  <2>3. Len(log[q[1] + 1]) <= Len(new[q[1] + 1]) /\ Len(log[q[1] + 1]) \in Nat /\ Len(new[q[1] + 1]) \in Nat
    BY <1>3, <2>1, <2>2
  <2> QED
    BY <1>1, <2>1, <2>2, <2>3
<1> DEFINE s == log[x.index + 1]
           u == new[x.index + 1]
<1>5. ASSUME x.index < Len(log), NEW n \in Nat, n > 0, NEW N \in Nat, N <= Len(s), n <= N + 1
      PROVE  /\ N <= Len(u) /\ Start(u, N + 1) = Start(s, N + 1) /\ Start(u, n) = Start(s, n)
             /\ n <= N => u[n] = s[n]
  <2>1. /\ Len(s) \in Nat /\ Len(u) \in Nat /\ Len(s) <= Len(u)
        /\ \A k \in 1..Len(s) : u[k] = s[k]
        /\ \A k \in 1..(Len(s) + 1) : Start(u, k) = Start(s, k)
    BY <1>1, <1>3, <1>5
  <2> HIDE DEF s, u
  <2>2. N + 1 \in 1..(Len(s) + 1) /\ n \in 1..(Len(s) + 1) /\ (n <= N => n \in 1..Len(s))
    BY <1>5, <2>1
  <2> QED
    BY <1>5, <2>1, <2>2
<1>6. ASSUME x.index < Len(log), NEW n \in Nat, n > 0, NEW N \in Nat, AtHeader(x, s, n, N)
      PROVE  AtHeader(x, u, n, N)
  <2>1. N <= Len(s) /\ n <= N + 1
    BY <1>6 DEF AtHeader, Leased
  <2> HIDE DEF s, u
  <2>2. N <= Len(u) /\ Start(u, N + 1) = Start(s, N + 1) /\ Start(u, n) = Start(s, n)
    BY <1>5, <1>6, <2>1
  <2> QED
    BY <1>6, <2>2 DEF AtHeader, Leased
<1>7. ASSUME x.index < Len(log), NEW n \in Nat, n > 0, NEW N \in Nat, AtRecord(x, s, n, N)
      PROVE  AtRecord(x, u, n, N)
  <2>1. N <= Len(s) /\ n <= N /\ n <= N + 1
    BY <1>7 DEF AtRecord, Leased
  <2> HIDE DEF s, u
  <2>2. N <= Len(u) /\ Start(u, N + 1) = Start(s, N + 1) /\ Start(u, n) = Start(s, n) /\ u[n] = s[n]
    BY <1>5, <1>7, <2>1
  <2> QED
    BY <1>7, <2>2 DEF AtRecord, Leased
<1>8. ASSUME x.index < Len(log), NEW n \in Nat, n > 0, NEW N \in Nat, AtEnd(x, s, n, N)
      PROVE  AtEnd(x, u, n, N)
  BY <1>6, <1>8 DEF AtEnd
<1>9. x.lease => x.index < Len(log)
  BY DEF Shaped
<1>10. place = "header" => x.lease
  BY DEF Shaped
<1>11. place = "header" => \E n, N \in Nat : n > 0 /\ AtHeader(x, u, n, N)
  <2> HIDE DEF s, u
  <2>1. place = "header" => \E n, N \in Nat : n > 0 /\ AtHeader(x, s, n, N)
    BY DEF Placed, s
  <2> QED
    BY <1>6, <1>9, <1>10, <2>1
<1>12. x.lease /\ place # "header" =>
          \E n, N \in Nat : n > 0 /\ (AtRecord(x, u, n, N) \/ AtEnd(x, u, n, N))
  <2> HIDE DEF s, u
  <2>1. x.lease /\ place # "header" =>
          \E n, N \in Nat : n > 0 /\ (AtRecord(x, s, n, N) \/ AtEnd(x, s, n, N))
    BY DEF Placed, s
  <2> QED
    BY <1>7, <1>8, <1>9, <2>1
<1>13. /\ x.result = "end" => x.there \subseteq x.seen
       /\ place \in {"scan", "acquire"} =>
            Passed(x, x.index, 0) /\ (x.last[2] > 0 => x.last[1] < x.index)
  BY DEF Placed
<1> QED
  BY <1>4, <1>11, <1>12, <1>13 DEF Placed

\* An iterator whose record was read further.
LEMMA RecordPlaced ==
  ASSUME NEW log, NEW isopen, NEW x, Shaped(log, isopen, x, "idle"),
         Placed(log, isopen, x, "idle"), x.result = "record",
         NEW y \in IterRec, y.lease, y.index = x.index, y.result = "record",
         ~y.slipped => /\ ~x.slipped /\ y.there = x.there
                       /\ \E n, N \in Nat : n > 0 /\ AtRecord(y, log[x.index + 1], n, N)
  PROVE  Shaped(log, isopen, y, "idle") /\ Placed(log, isopen, y, "idle")
<1>1. x.lease /\ isopen /\ x.index < Len(log)
  BY DEF Shaped
<1>2. Shaped(log, isopen, y, "idle")
  BY <1>1 DEF Shaped, Places
<1>3. Placed(log, isopen, y, "idle")
  <2> SUFFICES ASSUME ~y.slipped PROVE Placed(log, isopen, y, "idle")
    BY DEF Placed
  <2>1. \A q \in y.there : q[1] < Len(log) /\ q[2] \in 1..Len(log[q[1] + 1])
    BY <1>1 DEF Placed
  <2> QED
    BY <2>1 DEF Placed
<1> QED
  BY <1>2, <1>3

\* logdb_iter_current_key of an iterator on a record.
LEMMA KeyReadsKeep ==
  ASSUME NEW log, Written(log), NEW x \in IterRec, x.index < Len(log),
         ~x.slipped => \E n, N \in Nat : n > 0 /\ AtRecord(x, log[x.index + 1], n, N),
         NEW y \in KeyReads(x)
  PROVE  /\ y \in IterRec /\ y.lease = x.lease /\ y.index = x.index /\ y.result = x.result
         /\ y.record = x.record /\ y.value = x.value
         /\ ~y.slipped =>
              /\ ~x.slipped /\ y.there = x.there /\ y.key # Unset
              /\ \E n, N \in Nat : n > 0 /\ AtRecord(y, log[x.index + 1], n, N)
<1> DEFINE s == log[x.index + 1]
<1>0. /\ x.index \in Nat /\ x.record.key \in Nat /\ x.offset \in Int /\ Unset \in Int
      /\ x.len \in Int /\ x.slipped \in BOOLEAN
  BY IterFields DEF Unset
<1>1. CASE x.key # Unset
  <2>1. y = x
    BY <1>1 DEF KeyReads
  <2> QED
    BY <1>1, <2>1
<1>2. CASE x.key = Unset
  <2>0. y \in {[r.lease EXCEPT !.key = IF r.ok THEN x.offset ELSE Unset] : r \in Reads(x, x.record.key)}
    BY <1>2 DEF KeyReads
  <2>1. PICK r \in Reads(x, x.record.key) : y = [r.lease EXCEPT !.key = IF r.ok THEN x.offset ELSE Unset]
    BY <2>0
  <2> DEFINE z == r.lease
             key == IF r.ok THEN x.offset ELSE Unset
  <2>2. /\ z \in IterRec /\ z.lease = x.lease /\ z.index = x.index /\ z.result = x.result
        /\ z.record = x.record /\ z.value = x.value /\ (x.slipped => z.slipped)
        /\ r.ok \in BOOLEAN
        /\ \/ x.record.key > x.len /\ ~r.ok /\ z = x
           \/ z.slipped
           \/ /\ r.ok /\ z.offset = x.offset + x.record.key
              /\ z.len = (x.len - x.record.key) % Wrap
              /\ z.last = x.last /\ z.seen = x.seen /\ z.there = x.there
    BY <1>0, ReadsAre
  <2>3. key \in Int /\ (r.ok => key = x.offset)
    BY <1>0
  <2>4. y = [z EXCEPT !.key = key]
    BY <2>1
  <2> HIDE DEF z, key
  <2>5. /\ y \in IterRec /\ y.key = key /\ y.lease = z.lease /\ y.index = z.index
        /\ y.result = z.result /\ y.record = z.record /\ y.value = z.value
        /\ y.slipped = z.slipped /\ y.offset = z.offset /\ y.len = z.len
        /\ y.last = z.last /\ y.seen = z.seen /\ y.there = z.there
    BY <2>2, <2>3, <2>4 DEF IterRec
  <2>6. ASSUME ~y.slipped
        PROVE  /\ ~x.slipped /\ y.there = x.there /\ y.key # Unset
               /\ \E n, N \in Nat : n > 0 /\ AtRecord(y, s, n, N)
    <3>1. ~x.slipped /\ ~z.slipped
      BY <2>2, <2>5, <2>6
    <3>2. PICK n \in Nat, N \in Nat : n > 0 /\ AtRecord(x, s, n, N)
      BY <3>1
    <3>3. s \in Seq(Records) /\ EntryLen(s) < Section /\ \A l \in Int : 0 <= l /\ l < Section => l % Wrap = l
      BY <1>0, SectionIs
    <3> HIDE DEF s
    <3>4. x.record.key <= x.len
      BY <1>2, <3>2, <3>3, KeyTaken
    <3>5. /\ r.ok /\ z.offset = x.offset + x.record.key
          /\ z.len = (x.len - x.record.key) % Wrap
          /\ z.last = x.last /\ z.seen = x.seen /\ z.there = x.there
      BY <1>0, <2>2, <3>1, <3>4
    <3>6. AtRecord(y, s, n, N) /\ y.key # Unset
      BY <1>2, <2>2, <2>3, <2>5, <3>2, <3>3, <3>5, KeyTaken
    <3> QED
      BY <2>5, <3>1, <3>2, <3>5, <3>6
  <2> QED
    BY <2>2, <2>5, <2>6
<1> QED
  BY <1>1, <1>2

\* And logdb_iter_current_value, once the key has been read.
LEMMA ValueReadsKeep ==
  ASSUME NEW log, Written(log), NEW x \in IterRec, x.index < Len(log),
         ~x.slipped => /\ x.key # Unset
                       /\ \E n, N \in Nat : n > 0 /\ AtRecord(x, log[x.index + 1], n, N),
         NEW y \in ValueReads(x)
  PROVE  /\ y \in IterRec /\ y.lease = x.lease /\ y.index = x.index /\ y.result = x.result
         /\ ~y.slipped =>
              /\ ~x.slipped /\ y.there = x.there
              /\ \E n, N \in Nat : n > 0 /\ AtRecord(y, log[x.index + 1], n, N)
<1> DEFINE s == log[x.index + 1]
<1>0. /\ x.index \in Nat /\ x.record.value \in Nat /\ x.offset \in Int /\ Unset \in Int
      /\ x.len \in Int /\ x.slipped \in BOOLEAN
  BY IterFields DEF Unset
<1>1. CASE x.value # Unset
  <2>1. y = x
    BY <1>1 DEF ValueReads
  <2> QED
    BY <1>1, <2>1
<1>2. CASE x.value = Unset
  <2>0. y \in {[r.lease EXCEPT !.value = IF r.ok THEN x.offset ELSE Unset] : r \in Reads(x, x.record.value)}
    BY <1>2 DEF ValueReads
  <2>1. PICK r \in Reads(x, x.record.value) : y = [r.lease EXCEPT !.value = IF r.ok THEN x.offset ELSE Unset]
    BY <2>0
  <2> DEFINE z == r.lease
             value == IF r.ok THEN x.offset ELSE Unset
  <2>2. /\ z \in IterRec /\ z.lease = x.lease /\ z.index = x.index /\ z.result = x.result
        /\ z.record = x.record /\ z.key = x.key /\ (x.slipped => z.slipped)
        /\ r.ok \in BOOLEAN
        /\ \/ x.record.value > x.len /\ ~r.ok /\ z = x
           \/ z.slipped
           \/ /\ r.ok /\ z.offset = x.offset + x.record.value
              /\ z.len = (x.len - x.record.value) % Wrap
              /\ z.last = x.last /\ z.seen = x.seen /\ z.there = x.there
    BY <1>0, ReadsAre
  <2>3. value \in Int /\ (r.ok => value = x.offset)
    BY <1>0
  <2>4. y = [z EXCEPT !.value = value]
    BY <2>1
  <2> HIDE DEF z, value
  <2>5. /\ y \in IterRec /\ y.value = value /\ y.lease = z.lease /\ y.index = z.index
        /\ y.result = z.result /\ y.record = z.record /\ y.key = z.key
        /\ y.slipped = z.slipped /\ y.offset = z.offset /\ y.len = z.len
        /\ y.last = z.last /\ y.seen = z.seen /\ y.there = z.there
    BY <2>2, <2>3, <2>4 DEF IterRec
  <2>6. ASSUME ~y.slipped
        PROVE  /\ ~x.slipped /\ y.there = x.there
               /\ \E n, N \in Nat : n > 0 /\ AtRecord(y, s, n, N)
    <3>1. ~x.slipped /\ ~z.slipped
      BY <2>2, <2>5, <2>6
    <3>2. PICK n \in Nat, N \in Nat : n > 0 /\ AtRecord(x, s, n, N)
      BY <3>1
    <3>3. s \in Seq(Records) /\ EntryLen(s) < Section /\ \A l \in Int : 0 <= l /\ l < Section => l % Wrap = l
      BY <1>0, SectionIs
    <3>a. x.key # Unset
      BY <3>1
    <3> HIDE DEF s
    <3>4. x.record.value <= x.len
      BY <1>2, <3>2, <3>3, <3>a, ValueTaken
    <3>5. /\ r.ok /\ z.offset = x.offset + x.record.value
          /\ z.len = (x.len - x.record.value) % Wrap
          /\ z.last = x.last /\ z.seen = x.seen /\ z.there = x.there
      BY <1>0, <2>2, <3>1, <3>4
    <3>6. AtRecord(y, s, n, N)
      BY <1>2, <2>2, <2>3, <2>5, <3>2, <3>3, <3>5, <3>a, ValueTaken
    <3> QED
      BY <2>5, <3>1, <3>2, <3>5, <3>6
  <2> QED
    BY <2>2, <2>5, <2>6
<1> QED
  BY <1>1, <1>2

\* What y, the iterator returned, keeps of z and what it records.
ReturnedAs(y, z, n, i, d) ==
    /\ y \in IterRec /\ y.lease = z.lease /\ y.index = z.index /\ y.offset = z.offset
    /\ y.len = z.len /\ y.key = z.key /\ y.value = z.value /\ y.there = z.there
    /\ y.slipped = z.slipped /\ y.record = d /\ y.result = "record"
    /\ ~y.slipped => y.last = <<i, n>> /\ y.seen = z.seen \cup {<<i, n>>}

\* The record under an iterator.
LEMMA ReturnedIs ==
  ASSUME NEW z \in IterRec, NEW n \in Nat, NEW i \in Nat, NEW d \in [key : Nat, value : Nat]
  PROVE  ReturnedAs(Returned(z, n, i, d), z, n, i, d)
<1> DEFINE y == Returned(z, n, i, d)
           w == [z EXCEPT !.record = d, !.result = "record"]
           v == [w EXCEPT !.last = <<i, n>>, !.seen = w.seen \cup {<<i, n>>}]
<1>1. /\ w \in IterRec /\ w.lease = z.lease /\ w.index = z.index /\ w.offset = z.offset
      /\ w.len = z.len /\ w.key = z.key /\ w.value = z.value /\ w.there = z.there
      /\ w.slipped = z.slipped /\ w.record = d /\ w.result = "record" /\ w.seen = z.seen
  BY DEF IterRec, Results
<1>2. y = IF w.slipped THEN w ELSE v
  BY DEF Returned
<1> HIDE DEF w
<1>3. <<i, n>> \in Nat \X Nat /\ w.seen \cup {<<i, n>>} \in SUBSET (Nat \X Nat)
  BY <1>1, IterFields
<1>4. /\ v \in IterRec /\ v.lease = w.lease /\ v.index = w.index /\ v.offset = w.offset
      /\ v.len = w.len /\ v.key = w.key /\ v.value = w.value /\ v.there = w.there
      /\ v.slipped = w.slipped /\ v.record = w.record /\ v.result = w.result
      /\ v.last = <<i, n>> /\ v.seen = w.seen \cup {<<i, n>>}
  <2> DEFINE a == <<i, n>>
             b == w.seen \cup {<<i, n>>}
  <2>1. a \in Nat \X Nat /\ b \in SUBSET (Nat \X Nat) /\ v = [w EXCEPT !.last = a, !.seen = b]
    BY <1>3
  <2> HIDE DEF a, b, v
  <2>2. /\ v \in IterRec /\ v.lease = w.lease /\ v.index = w.index /\ v.offset = w.offset
        /\ v.len = w.len /\ v.key = w.key /\ v.value = w.value /\ v.there = w.there
        /\ v.slipped = w.slipped /\ v.record = w.record /\ v.result = w.result
        /\ v.last = a /\ v.seen = b
    BY <1>1, <2>1 DEF IterRec
  <2> QED
    BY <2>2 DEF a, b
<1> HIDE DEF v
<1> HIDE DEF y
<1> SUFFICES /\ y \in IterRec /\ y.lease = z.lease /\ y.index = z.index /\ y.offset = z.offset
             /\ y.len = z.len /\ y.key = z.key /\ y.value = z.value /\ y.there = z.there
             /\ y.slipped = z.slipped /\ y.record = d /\ y.result = "record"
             /\ ~y.slipped => y.last = <<i, n>> /\ y.seen = z.seen \cup {<<i, n>>}
  BY DEF ReturnedAs, y
<1>5. CASE w.slipped
  <2>1. y = w
    BY <1>2, <1>5
  <2> QED
    BY <1>1, <1>5, <2>1
<1>6. CASE ~w.slipped
  <2>1. y = v
    BY <1>2, <1>6
  <2>2. /\ y \in IterRec /\ y.lease = z.lease /\ y.index = z.index /\ y.offset = z.offset
        /\ y.len = z.len /\ y.key = z.key /\ y.value = z.value /\ y.there = z.there
        /\ y.slipped = z.slipped /\ y.record = d /\ y.result = "record"
        /\ y.last = <<i, n>> /\ y.seen = z.seen \cup {<<i, n>>}
    BY <1>1, <1>4, <2>1
  <2> QED
    BY <2>2
<1> QED
  BY <1>5, <1>6

\* It is the last one that was returned.
LEMMA ReturnedLast ==
  ASSUME NEW z \in IterRec, NEW n \in Nat, NEW i \in Nat, NEW d \in [key : Nat, value : Nat]
  PROVE  /\ Returned(z, n, i, d).slipped = z.slipped
         /\ ~z.slipped => Returned(z, n, i, d).last = <<i, n>>
<1> DEFINE y == Returned(z, n, i, d)
<1>1. ReturnedAs(y, z, n, i, d)
  BY ReturnedIs
<1> HIDE DEF y
<1>2. y.slipped = z.slipped /\ (~z.slipped => y.last = <<i, n>>)
  BY <1>1 DEF ReturnedAs
<1> QED
  BY <1>2 DEF y

\* An iterator that is to read a header, with its old key and value freed.
Ready(log, x) ==
    /\ x \in IterRec /\ x.lease /\ x.index < Len(log)
    /\ x.key = Unset /\ x.value = Unset
    /\ ~x.slipped =>
        /\ \E n, N \in Nat : n > 0 /\ AtHeader(x, log[x.index + 1], n, N)
        /\ \A q \in x.there : q[1] < Len(log) /\ q[2] \in 1..Len(log[q[1] + 1])

\* What reading the header does to the lease.
LEMMA HeaderReads ==
  ASSUME NEW x \in IterRec, NEW r \in Reads(x, Hdr)
  PROVE  /\ r.ok \in BOOLEAN /\ r.lease \in IterRec
         /\ r.lease.lease = x.lease /\ r.lease.index = x.index
         /\ r.lease.key = x.key /\ r.lease.value = x.value
         /\ x.slipped => r.lease.slipped
         /\ r.ok => r.lease.slipped = x.slipped
         /\ \/ Hdr > x.len /\ ~r.ok /\ r.lease = x
            \/ r.lease.slipped
            \/ /\ Hdr <= x.len /\ r.ok
               /\ r.lease.offset = x.offset + Hdr
               /\ r.lease.len = (x.len - Hdr) % Wrap
               /\ r.lease.last = x.last /\ r.lease.seen = x.seen /\ r.lease.there = x.there
<1>1. Hdr \in Nat /\ Hdr > 0
  BY WrapIs
<1> QED
  BY <1>1, ReadsAre

\* logdb_iter_next returns a record, the next one unless the lease slipped.
LEMMA HeaderReturns ==
  ASSUME NEW log, Written(log), NEW x, Ready(log, x), NEW z \in IterRec,
         z.lease = x.lease, z.index = x.index, z.key = x.key, z.value = x.value,
         x.slipped => z.slipped,
         ~z.slipped => /\ Hdr <= x.len
                       /\ z.offset = x.offset + Hdr /\ z.len = (x.len - Hdr) % Wrap
                       /\ z.last = x.last /\ z.seen = x.seen /\ z.there = x.there,
         NEW n \in Nat, NEW d \in Records,
         ~z.slipped => /\ n \in 1..Len(log[x.index + 1])
                       /\ Start(log[x.index + 1], n) = x.offset
                       /\ d = log[x.index + 1][n]
  PROVE  /\ Shaped(log, TRUE, Returned(z, n, x.index, d), "idle")
         /\ Placed(log, TRUE, Returned(z, n, x.index, d), "idle")
<1> DEFINE s == log[x.index + 1]
           y == Returned(z, n, x.index, d)
<1>1. x \in IterRec /\ x.lease /\ x.index < Len(log) /\ x.key = Unset /\ x.value = Unset
  BY DEF Ready
<1>2. x.index \in Nat /\ x.len \in Int
  BY <1>1, IterFields
<1>3. /\ s \in Seq(Records) /\ EntryLen(s) < Section
      /\ \A l \in Int : 0 <= l /\ l < Section => l % Wrap = l
  BY <1>1, <1>2, SectionIs
<1>4. d \in [key : Nat, value : Nat]
  BY IterAssumption DEF IterAssumption
<1>0. ReturnedAs(y, z, n, x.index, d)
  BY <1>2, <1>4, ReturnedIs
<1> HIDE DEF y
<1>5. /\ y \in IterRec /\ y.lease = z.lease /\ y.index = z.index /\ y.offset = z.offset
      /\ y.len = z.len /\ y.key = z.key /\ y.value = z.value /\ y.there = z.there
      /\ y.slipped = z.slipped /\ y.record = d /\ y.result = "record"
      /\ ~y.slipped => y.last = <<x.index, n>> /\ y.seen = z.seen \cup {<<x.index, n>>}
  BY <1>0 DEF ReturnedAs
<1>6. Shaped(log, TRUE, y, "idle")
  BY <1>1, <1>5 DEF Shaped, Places
<1>7. ASSUME ~y.slipped
      PROVE  /\ \E m, N \in Nat : m > 0 /\ AtRecord(y, s, m, N)
             /\ \A q \in y.there : q[1] < Len(log) /\ q[2] \in 1..Len(log[q[1] + 1])
  <2>1. ~z.slipped /\ ~x.slipped
    BY <1>5, <1>7
  <2>2. /\ Hdr <= x.len /\ z.offset = x.offset + Hdr /\ z.len = (x.len - Hdr) % Wrap
        /\ z.last = x.last /\ z.seen = x.seen /\ z.there = x.there
        /\ n \in 1..Len(s) /\ Start(s, n) = x.offset /\ d = s[n]
    BY <2>1
  <2>3. PICK m \in Nat, N \in Nat : m > 0 /\ AtHeader(x, s, m, N)
    BY <2>1 DEF Ready
  <2> HIDE DEF s
  <2>4. x.offset = Start(s, m)
    BY <2>3 DEF AtHeader
  <2>5. /\ N <= Len(s) /\ m <= Len(s) + 1
        /\ m <= N => x.len >= Hdr /\ x.len < Section
        /\ m > N => m = N + 1 /\ x.len = 0
    BY <1>1, <1>3, <2>3, HeaderRoom
  <2>6. Len(s) \in Nat
    BY <1>3
  <2>7. m = n
    <3>1. m \in 1..(Len(s) + 1) /\ n \in 1..(Len(s) + 1)
      BY <2>2, <2>3, <2>5, <2>6
    <3> QED
      BY <1>3, <2>2, <2>4, <3>1, StartsApart
  <2>8. m <= N
    BY <1>2, <2>2, <2>3, <2>5, WrapIs
  <2>9. /\ y.offset = x.offset + Hdr /\ y.len = (x.len - Hdr) % Wrap
        /\ y.index = x.index /\ y.there = x.there /\ y.record = s[m] /\ y.result = "record"
        /\ y.key = Unset /\ y.value = Unset
        /\ y.last = <<x.index, m>> /\ y.seen = x.seen \cup {<<x.index, m>>}
    BY <1>1, <1>5, <1>7, <2>2, <2>7
  <2>10. AtRecord(y, s, m, N)
    BY <1>1, <1>3, <1>5, <2>3, <2>8, <2>9, HeaderTaken
  <2>11. \A q \in x.there : q[1] < Len(log) /\ q[2] \in 1..Len(log[q[1] + 1])
    BY <2>1 DEF Ready
  <2> QED
    BY <1>5, <2>2, <2>3, <2>10, <2>11
<1>8. Placed(log, TRUE, y, "idle")
  BY <1>1, <1>5, <1>7 DEF Placed
<1> QED
  BY <1>6, <1>8 DEF y

\* logdb_iter_next returns 0 although it has a lease.
LEMMA HeaderFails ==
  ASSUME NEW log, Written(log), NEW x, Ready(log, x), NEW z \in IterRec,
         z.lease = x.lease, z.index = x.index,
         ~z.slipped => Hdr > x.len /\ z = x,
         NEW res \in {"skipped", "failed"}, ~z.slipped => res = "skipped"
  PROVE  /\ Shaped(log, TRUE, [z EXCEPT !.result = res], "idle")
         /\ Placed(log, TRUE, [z EXCEPT !.result = res], "idle")
<1> DEFINE s == log[x.index + 1]
           y == [z EXCEPT !.result = res]
<1>1. x \in IterRec /\ x.lease /\ x.index < Len(log)
  BY DEF Ready
<1>2. x.index \in Nat /\ x.len \in Int
  BY <1>1, IterFields
<1>3. s \in Seq(Records) /\ EntryLen(s) < Section
  BY <1>1, <1>2, SectionIs
<1>4. /\ y \in IterRec /\ y.result = res /\ y.lease = z.lease /\ y.index = z.index
      /\ y.offset = z.offset /\ y.len = z.len /\ y.there = z.there /\ y.seen = z.seen
      /\ y.last = z.last /\ y.slipped = z.slipped
  BY DEF IterRec, Results
<1> HIDE DEF y
<1>5. Shaped(log, TRUE, y, "idle")
  BY <1>1, <1>4 DEF Shaped, Places
<1>6. ASSUME ~y.slipped
      PROVE  /\ \E m, N \in Nat : m > 0 /\ AtEnd(y, s, m, N)
             /\ \A q \in y.there : q[1] < Len(log) /\ q[2] \in 1..Len(log[q[1] + 1])
  <2>1. ~z.slipped /\ Hdr > x.len /\ z = x /\ res = "skipped"
    BY <1>4, <1>6
  <2>2. PICK m \in Nat, N \in Nat : m > 0 /\ AtHeader(x, s, m, N)
    BY <2>1 DEF Ready
  <2> HIDE DEF s
  <2>3. /\ m <= N => x.len >= Hdr
        /\ m > N => m = N + 1
    BY <1>1, <1>3, <2>2, HeaderRoom
  <2>4. m = N + 1 /\ y.len < Hdr
    BY <1>2, <1>4, <2>1, <2>2, <2>3, WrapIs
  <2>5. AtHeader(y, s, m, N)
    BY <1>4, <2>1, <2>2 DEF AtHeader, Leased, Passed
  <2>6. AtEnd(y, s, m, N)
    BY <1>4, <2>1, <2>4, <2>5 DEF AtEnd
  <2>7. \A q \in x.there : q[1] < Len(log) /\ q[2] \in 1..Len(log[q[1] + 1])
    BY <2>1 DEF Ready
  <2> QED
    BY <1>4, <2>1, <2>2, <2>6, <2>7
<1>7. Placed(log, TRUE, y, "idle")
  BY <1>1, <1>4, <1>6 DEF Placed
<1> QED
  BY <1>5, <1>7 DEF y
-----------------------------------------------------------------------------
(***************************************************************************)
(* The invariant is inductive.                                             *)
(***************************************************************************)

\* Every step keeps what it says of each thread.
LEMMA ThreadKept ==
  ASSUME NEW t \in Threads, NEW place \in Places, NEW x \in IterRec,
         at \in [Threads -> Places], iter \in [Threads -> IterRec], Set(t, place, x)
  PROVE  /\ at' \in [Threads -> Places] /\ iter' \in [Threads -> IterRec]
         /\ at'[t] = place /\ iter'[t] = x
         /\ \A u \in Threads \ {t} : at'[u] = at[u] /\ iter'[u] = iter[u]
  BY DEF Set

\* The number of threads that write is finite.
LEMMA WritingFinite == IsFiniteSet(Writing) /\ Cardinality(Writing) \in Nat
<1>1. IsFiniteSet(Threads) /\ Writing \subseteq Threads
  BY IterAssumption DEF IterAssumption, Writing
<1> QED
  BY <1>1, FS_Subset, FS_CardinalityType

\* A step of one thread that does not write and leaves the log alone.
LEMMA OneThread ==
  ASSUME IterInv, NEW t \in Threads, NEW place, NEW x, Set(t, place, x),
         recs' = recs, open' = open, writes' = writes, made' \in Nat, made' <= MaxIters,
         place \in {"putting", "put"} => at[t] \in {"putting", "put"},
         Shaped(recs, open, x, place), Placed(recs, open, x, place)
  PROVE  IterInv'
<1>1. place \in Places /\ x \in IterRec
  BY DEF Shaped
<1>2. /\ at' \in [Threads -> Places] /\ iter' \in [Threads -> IterRec]
      /\ at'[t] = place /\ iter'[t] = x
      /\ \A u \in Threads \ {t} : at'[u] = at[u] /\ iter'[u] = iter[u]
  BY <1>1, ThreadKept DEF IterInv
<1>3. Writing' \subseteq Writing
  BY <1>2 DEF Writing
<1>4. Cardinality(Writing') \in Nat /\ Cardinality(Writing') <= Cardinality(Writing)
  BY <1>3, WritingFinite, FS_Subset, FS_CardinalityType
<1>5. Counted'
  <2>1. writes \in Nat /\ writes + Cardinality(Writing) <= MaxWrites /\ Cardinality(Writing) \in Nat
        /\ MaxWrites \in Nat
    BY WritingFinite, IterAssumption DEF IterInv, Counted, IterAssumption
  <2>2. writes + Cardinality(Writing') <= MaxWrites
    BY <1>4, <2>1
  <2> QED
    BY <2>1, <2>2 DEF Counted
<1>6. ASSUME NEW u \in Threads
      PROVE  Shaped(recs, open, iter'[u], at'[u]) /\ Placed(recs, open, iter'[u], at'[u])
  BY <1>2 DEF IterInv
<1>7. Written(recs') /\ open' \in BOOLEAN
  BY DEF IterInv
<1>8. \A u \in Threads : Shaped(recs', open', iter'[u], at'[u]) /\ Placed(recs', open', iter'[u], at'[u])
  BY <1>6
<1> QED
  BY <1>2, <1>5, <1>7, <1>8 DEF IterInv, Written

\* What is known of a thread and its iterator.
LEMMA ThreadIs ==
  ASSUME IterInv, NEW t \in Threads
  PROVE  /\ Shaped(recs, open, iter[t], at[t]) /\ Placed(recs, open, iter[t], at[t])
         /\ iter[t] \in IterRec /\ Written(recs) /\ open \in BOOLEAN
         /\ made \in Nat /\ made <= MaxIters
  BY DEF IterInv, Counted

\* The published records, by section and number.
LEMMA PublishedIs ==
  ASSUME Written(recs)
  PROVE  /\ Published \in SUBSET (Nat \X (Nat \ {0}))
         /\ \A q \in Published : q[1] < Len(recs) /\ q[2] \in 1..Len(recs[q[1] + 1])
         /\ \A i \in Nat, n \in Nat : i < Len(recs) /\ n \in 1..Len(recs[i + 1]) => <<i, n>> \in Published
<1>0. Len(recs) \in Nat /\ \A i \in 1..Len(recs) : Len(recs[i]) \in Nat
  BY DEF Written
<1>1. ASSUME NEW q \in Published
      PROVE  /\ q \in Nat \X (Nat \ {0})
             /\ q[1] < Len(recs) /\ q[2] \in 1..Len(recs[q[1] + 1])
  <2>1. PICK i \in 1..Len(recs) : q \in {i - 1} \X (1..Len(recs[i]))
    BY DEF Published
  <2>2. Len(recs[i]) \in Nat /\ i \in Nat /\ i - 1 \in Nat
    BY <1>0
  <2>3. q = <<q[1], q[2]>> /\ q[1] = i - 1 /\ q[2] \in 1..Len(recs[i])
    BY <2>1
  <2>4. q[1] + 1 = i /\ q[1] \in Nat /\ q[1] < Len(recs)
    BY <1>0, <2>2, <2>3
  <2>5. q[2] \in Nat \ {0}
    BY <2>2, <2>3
  <2> QED
    BY <2>3, <2>4, <2>5
<1>2. ASSUME NEW i \in Nat, NEW n \in Nat, i < Len(recs), n \in 1..Len(recs[i + 1])
      PROVE  <<i, n>> \in Published
  <2>1. i + 1 \in 1..Len(recs) /\ (i + 1) - 1 = i
    BY <1>0, <1>2
  <2> DEFINE j == i + 1
             Part(m) == {m - 1} \X (1..Len(recs[m]))
  <2>2. <<i, n>> \in Part(j)
    BY <1>2, <2>1
  <2>3. Published = UNION {Part(m) : m \in 1..Len(recs)} /\ j \in 1..Len(recs)
    BY <2>1 DEF Published
  <2> HIDE DEF j, Part
  <2> QED
    BY <2>2, <2>3
<1> QED
  BY <1>1, <1>2

\* A fresh pass over the log.
LEMMA FreshPass ==
  ASSUME IterInv, NEW x \in IterRec, NEW place \in {"idle", "scan"},
         ~x.lease, x.result = "none", x.index = 0, x.last = <<0, 0>>, x.there = Published
  PROVE  Shaped(recs, open, x, place) /\ Placed(recs, open, x, place)
<1>1. Written(recs)
  BY DEF IterInv
<1>2. Shaped(recs, open, x, place)
  BY DEF Shaped, Places
<1>3. \A q \in x.there : q[1] \in Nat /\ q[2] \in Nat \ {0} /\ q[1] < Len(recs) /\ q[2] \in 1..Len(recs[q[1] + 1])
  BY <1>1, PublishedIs
<1>4. Passed(x, x.index, 0)
  BY <1>3 DEF Passed
<1>5. ~(x.last[2] > 0)
  OBVIOUS
<1> QED
  BY <1>2, <1>3, <1>4, <1>5 DEF Placed

\* logdb_iter_all.
LEMMA IterAllKeeps ==
  ASSUME IterInv, NEW t \in Threads, IterAll(t)
  PROVE  IterInv'
<1> DEFINE x == [Fresh EXCEPT !.there = Published]
<1>1. Written(recs) /\ made \in Nat /\ MaxIters \in Nat
  BY IterAssumption DEF IterInv, Counted, IterAssumption
<1>2. Published \in SUBSET (Nat \X (Nat \ {0}))
  BY <1>1, PublishedIs
<1>3. /\ x \in IterRec /\ x.there = Published /\ x.lease = Fresh.lease /\ x.result = Fresh.result
      /\ x.index = Fresh.index /\ x.last = Fresh.last
  BY <1>2, FreshIs DEF IterRec
<1>4. Fresh.lease = FALSE /\ Fresh.result = "none" /\ Fresh.index = 0 /\ Fresh.last = <<0, 0>>
  BY DEF Fresh
<1>5. Set(t, "idle", x) /\ made' = made + 1 /\ made < MaxIters /\ UNCHANGED <<recs, open, writes>>
  BY DEF IterAll
<1> HIDE DEF x
<1>6. Shaped(recs, open, x, "idle") /\ Placed(recs, open, x, "idle")
  BY <1>3, <1>4, FreshPass
<1> QED
  BY <1>1, <1>5, <1>6, OneThread

\* logdb_iter_next gives a lease back, or begins.
LEMMA NextSectionKeeps ==
  ASSUME IterInv, NEW t \in Threads, NextSection(t)
  PROVE  IterInv'
<1> DEFINE w == iter[t]
<1>1. /\ Shaped(recs, open, w, at[t]) /\ Placed(recs, open, w, at[t]) /\ w \in IterRec
      /\ Written(recs) /\ made \in Nat /\ made <= MaxIters
  BY ThreadIs
<1>2. at[t] = "idle" /\ open /\ w.len < Hdr /\ UNCHANGED <<recs, open, writes, made>>
  BY DEF NextSection
<1>3. CASE w.lease
  <2> DEFINE x == [Released(w) EXCEPT !.index = NextIndex(w), !.result = "none"]
  <2>1. Set(t, "scan", x)
    BY <1>3 DEF NextSection
  <2> HIDE DEF w
  <2>2. NextIndex(w) = w.index + 1 /\ w.index \in Nat
    BY <1>1, <1>3, IterFields DEF NextIndex
  <2>3. x = [[w EXCEPT !.lease = FALSE] EXCEPT !.index = w.index + 1, !.result = "none"]
    BY <2>2 DEF Released
  <2> HIDE DEF x
  <2>4. w.index + 1 \in Nat /\ "none" \in Results
    BY <2>2 DEF Results
  <2>5. /\ x \in IterRec /\ x.index = w.index + 1 /\ x.result = "none" /\ ~x.lease
        /\ x.last = w.last /\ x.seen = w.seen /\ x.there = w.there /\ x.slipped = w.slipped
    BY <1>1, <2>3, <2>4 DEF IterRec
  <2>6. Shaped(recs, open, x, "scan")
    BY <2>5 DEF Shaped, Places
  <2>7. ASSUME ~x.slipped
        PROVE  /\ Passed(x, x.index, 0) /\ (x.last[2] > 0 => x.last[1] < x.index)
               /\ \A q \in x.there : q[1] < Len(recs) /\ q[2] \in 1..Len(recs[q[1] + 1])
    <3> DEFINE s == recs[w.index + 1]
    <3>1. /\ \E n, N \in Nat : n > 0 /\ (AtRecord(w, s, n, N) \/ AtEnd(w, s, n, N))
          /\ \A q \in w.there : q[1] < Len(recs) /\ q[2] \in 1..Len(recs[q[1] + 1])
      BY <1>1, <1>2, <1>3, <2>5, <2>7 DEF Placed
    <3>2. w.index < Len(recs)
      BY <1>1, <1>3 DEF Shaped
    <3>3. s \in Seq(Records) /\ EntryLen(s) < Section
      BY <1>1, <2>2, <3>2, SectionIs
    <3> HIDE DEF s
    <3>4. Passed(w, w.index + 1, 0) /\ (w.last[2] > 0 => w.last[1] < w.index + 1)
      BY <1>1, <1>2, <3>1, <3>3, SectionDone
    <3>5. Passed(x, x.index, 0)
      BY <2>5, <3>4 DEF Passed
    <3> QED
      BY <2>5, <3>1, <3>4, <3>5
  <2>8. Placed(recs, open, x, "scan")
    BY <2>5, <2>7 DEF Placed
  <2> QED
    BY <1>1, <1>2, <2>1, <2>6, <2>8, OneThread
<1>4. CASE ~w.lease
  <2> DEFINE x == [Fresh EXCEPT !.index = NextIndex(w), !.record = w.record,
                                !.key = w.key, !.value = w.value, !.there = Published]
  <2>1. Set(t, "scan", x)
    BY <1>4 DEF NextSection
  <2> HIDE DEF w
  <2>2. NextIndex(w) = 0
    BY <1>4 DEF NextIndex
  <2>3. /\ w.record \in [key : Nat, value : Nat] /\ w.key \in Int /\ w.value \in Int
        /\ Published \in SUBSET (Nat \X (Nat \ {0}))
    BY <1>1, IterFields, PublishedIs
  <2>4. Fresh.lease = FALSE /\ Fresh.result = "none" /\ Fresh.last = <<0, 0>>
    BY DEF Fresh
  <2>5. /\ x \in IterRec /\ x.index = 0 /\ x.there = Published /\ x.lease = Fresh.lease
        /\ x.result = Fresh.result /\ x.last = Fresh.last
    <3> DEFINE a == w.record
               b == w.key
               c == w.value
               p == Published
               f == Fresh
    <3>1. /\ a \in [key : Nat, value : Nat] /\ b \in Int /\ c \in Int
          /\ p \in SUBSET (Nat \X (Nat \ {0})) /\ f \in IterRec
          /\ x = [f EXCEPT !.index = 0, !.record = a, !.key = b, !.value = c, !.there = p]
      BY <2>2, <2>3, FreshIs
    <3> HIDE DEF a, b, c, p, f, x
    <3>2. /\ x \in IterRec /\ x.index = 0 /\ x.there = p /\ x.lease = f.lease
          /\ x.result = f.result /\ x.last = f.last
      BY <3>1 DEF IterRec
    <3> QED
      BY <3>2 DEF p, f
  <2> HIDE DEF x
  <2>6. Shaped(recs, open, x, "scan") /\ Placed(recs, open, x, "scan")
    BY <2>4, <2>5, FreshPass
  <2> QED
    BY <1>1, <1>2, <2>1, <2>6, OneThread
<1> QED
  BY <1>3, <1>4

\* logdb_iter_next skips what was not read.
LEMMA NextRecordKeeps ==
  ASSUME IterInv, NEW t \in Threads, NextRecord(t)
  PROVE  IterInv'
<1> DEFINE w == iter[t]
           x == [w EXCEPT !.offset = w.offset + Unread(w), !.len = (w.len - Unread(w)) % Wrap,
                          !.result = "none"]
<1>1. /\ Shaped(recs, open, w, at[t]) /\ Placed(recs, open, w, at[t]) /\ w \in IterRec
      /\ Written(recs) /\ made \in Nat /\ made <= MaxIters
  BY ThreadIs
<1>2. /\ at[t] = "idle" /\ w.lease /\ w.len >= Hdr /\ Set(t, "header", x)
      /\ UNCHANGED <<recs, open, writes, made>>
  BY DEF NextRecord
<1> HIDE DEF w
<1>3. w.offset \in Int /\ w.len \in Int /\ Unread(w) \in Nat /\ w.index \in Nat
  BY <1>1, IterFields, UnreadIs
<1>4. /\ x \in IterRec /\ x.offset = w.offset + Unread(w) /\ x.len = (w.len - Unread(w)) % Wrap
      /\ x.result = "none" /\ x.lease = w.lease /\ x.index = w.index /\ x.last = w.last
      /\ x.seen = w.seen /\ x.there = w.there /\ x.slipped = w.slipped
  <2> DEFINE o == w.offset + Unread(w)
             l == (w.len - Unread(w)) % Wrap
  <2>1. o \in Int /\ l \in Int
    BY <1>3, WrapIs
  <2>2. x = [w EXCEPT !.offset = o, !.len = l, !.result = "none"]
    OBVIOUS
  <2> HIDE DEF o, l, x
  <2>3. /\ x \in IterRec /\ x.offset = o /\ x.len = l
        /\ x.result = "none" /\ x.lease = w.lease /\ x.index = w.index /\ x.last = w.last
        /\ x.seen = w.seen /\ x.there = w.there /\ x.slipped = w.slipped
    BY <1>1, <2>1, <2>2 DEF IterRec, Results
  <2> QED
    BY <2>3 DEF o, l
<1> HIDE DEF x
<1>5. open /\ w.index < Len(recs)
  BY <1>1, <1>2 DEF Shaped
<1>6. Shaped(recs, open, x, "header")
  BY <1>2, <1>4, <1>5 DEF Shaped, Places
<1>7. ASSUME ~x.slipped
      PROVE  /\ \E n, N \in Nat : n > 0 /\ AtHeader(x, recs[x.index + 1], n, N)
             /\ \A q \in x.there : q[1] < Len(recs) /\ q[2] \in 1..Len(recs[q[1] + 1])
  <2> DEFINE s == recs[w.index + 1]
  <2>1. /\ \E n, N \in Nat : n > 0 /\ (AtRecord(w, s, n, N) \/ AtEnd(w, s, n, N))
        /\ \A q \in w.there : q[1] < Len(recs) /\ q[2] \in 1..Len(recs[q[1] + 1])
    BY <1>1, <1>2, <1>4, <1>5, <1>7 DEF Placed
  <2>2. /\ s \in Seq(Records) /\ EntryLen(s) < Section
        /\ \A l \in Int : 0 <= l /\ l < Section => l % Wrap = l
    BY <1>1, <1>3, <1>5, SectionIs
  <2> HIDE DEF s
  <2>3. PICK n \in Nat, N \in Nat : n > 0 /\ (AtRecord(w, s, n, N) \/ AtEnd(w, s, n, N))
    BY <2>1
  <2>4. ~AtEnd(w, s, n, N)
    BY <1>2, <1>3, WrapIs DEF AtEnd
  <2>5. AtHeader(x, s, n + 1, N)
    BY <1>1, <1>4, <2>2, <2>3, <2>4, SeekSkips
  <2>6. n + 1 \in Nat /\ n + 1 > 0
    BY <2>3
  <2>7. \E m, M \in Nat : m > 0 /\ AtHeader(x, s, m, M)
    BY <2>3, <2>5, <2>6
  <2> QED
    BY <1>4, <2>1, <2>7 DEF s
<1>8. Placed(recs, open, x, "header")
  BY <1>4, <1>7 DEF Placed
<1> QED
  BY <1>1, <1>2, <1>6, <1>8, OneThread

\* The lengths in the log.
LEMMA EntriesAre ==
  ASSUME Written(recs)
  PROVE  /\ Entries \in Seq(0..(Section - 1)) /\ Len(Entries) = Len(recs) /\ Len(recs) \in Nat
         /\ \A i \in Nat : i < Len(recs) =>
                /\ Entries[i + 1] = EntryLen(recs[i + 1])
                /\ Entries[i + 1] \in Nat
                /\ Entries[i + 1] = Start(recs[i + 1], Len(recs[i + 1]) + 1)
                /\ Entries[i + 1] = 0 => Len(recs[i + 1]) = 0
<1>0. Len(recs) \in Nat
  BY DEF Written
<1>1. ASSUME NEW j \in 1..Len(recs)
      PROVE  EntryLen(recs[j]) \in 0..(Section - 1) /\ EntryLen(recs[j]) >= Len(recs[j]) /\ Len(recs[j]) \in Nat
  <2>1. recs[j] \in Seq(Records) /\ EntryLen(recs[j]) < Section
    BY DEF Written
  <2>2. EntryLen(recs[j]) \in Nat /\ EntryLen(recs[j]) >= Len(recs[j])
    BY <2>1, EntryLenIs
  <2> QED
    BY <2>1, <2>2, WrapIs
<1>2. Entries \in Seq(0..(Section - 1)) /\ Len(Entries) = Len(recs)
  <2> DEFINE D == 0..(Section - 1)
             f == [i \in 1..Len(recs) |-> EntryLen(recs[i])]
  <2>1. f \in [1..Len(recs) -> D] /\ Entries = f
    BY <1>1 DEF Entries
  <2> HIDE DEF D, f
  <2>2. f \in Seq(D) /\ Len(f) = Len(recs)
    BY <1>0, <2>1
  <2> QED
    BY <2>1, <2>2 DEF D
<1>3. ASSUME NEW i \in Nat, i < Len(recs)
      PROVE  /\ Entries[i + 1] = EntryLen(recs[i + 1]) /\ Entries[i + 1] \in Nat
             /\ Entries[i + 1] = Start(recs[i + 1], Len(recs[i + 1]) + 1)
             /\ Entries[i + 1] = 0 => Len(recs[i + 1]) = 0
  <2>1. i + 1 \in 1..Len(recs)
    BY <1>0, <1>3
  <2>2. Entries[i + 1] = EntryLen(recs[i + 1])
    BY <2>1 DEF Entries
  <2>3. EntryLen(recs[i + 1]) \in 0..(Section - 1) /\ EntryLen(recs[i + 1]) >= Len(recs[i + 1]) /\ Len(recs[i + 1]) \in Nat
    BY <1>1, <2>1
  <2>4. EntryLen(recs[i + 1]) = Start(recs[i + 1], Len(recs[i + 1]) + 1)
    BY DEF EntryLen
  <2> QED
    BY <2>2, <2>3, <2>4, WrapIs
<1> QED
  BY <1>0, <1>2, <1>3

\* A call of logdb_iter_next that ends without a lease.
LEMMA NextFails ==
  ASSUME NEW log, NEW isopen, NEW w, NEW place \in {"scan", "acquire"},
         Shaped(log, isopen, w, place), Placed(log, isopen, w, place),
         NEW res \in {"end", "failed"}, res = "end" /\ ~w.slipped => w.there \subseteq w.seen
  PROVE  /\ Shaped(log, isopen, [w EXCEPT !.result = res], "idle")
         /\ Placed(log, isopen, [w EXCEPT !.result = res], "idle")
<1> DEFINE x == [w EXCEPT !.result = res]
<1>1. w \in IterRec /\ ~w.lease
  BY DEF Shaped
<1>2. /\ x \in IterRec /\ x.result = res /\ x.lease = w.lease /\ x.there = w.there
      /\ x.seen = w.seen /\ x.slipped = w.slipped
  BY <1>1 DEF IterRec, Results
<1> HIDE DEF x
<1>3. Shaped(log, isopen, x, "idle")
  BY <1>1, <1>2 DEF Shaped, Places
<1>4. Placed(log, isopen, x, "idle")
  BY <1>1, <1>2 DEF Placed
<1> QED
  BY <1>3, <1>4 DEF x

\* logdb_iter_next looks for an entry with data.
LEMMA ScanKeeps ==
  ASSUME IterInv, NEW t \in Threads, Scan(t)
  PROVE  IterInv'
<1> DEFINE w == iter[t]
<1>1. /\ Shaped(recs, open, w, "scan") /\ Placed(recs, open, w, "scan") /\ w \in IterRec
      /\ Written(recs) /\ made \in Nat /\ made <= MaxIters
  BY ThreadIs DEF Scan
<1>2. at[t] = "scan" /\ open /\ UNCHANGED <<recs, open, writes, made>>
  BY DEF Scan
<1>3. \/ Set(t, Scanned(w),
              CASE Scanned(w) = "idle" -> [w EXCEPT !.result = "end"]
                [] Scanned(w) = "scan" -> [w EXCEPT !.index = w.index + 1]
                [] OTHER -> w)
      \/ Set(t, "idle", [w EXCEPT !.result = "failed"])
  BY DEF Scan
<1> HIDE DEF w
<1>4. w.index \in Nat /\ Len(recs) \in Nat /\ ~w.lease /\ w.result = "none"
  BY <1>1, IterFields, EntriesAre DEF Shaped
<1>5. ASSUME ~w.slipped
      PROVE  /\ Passed(w, w.index, 0) /\ (w.last[2] > 0 => w.last[1] < w.index)
             /\ \A q \in w.there : q[1] < Len(recs) /\ q[2] \in 1..Len(recs[q[1] + 1])
             /\ \A q \in w.there : q[1] \in Nat /\ q[2] \in Nat \ {0}
             /\ w.last[1] \in Nat /\ w.last[2] \in Nat
  <2>1. w.there \in SUBSET (Nat \X (Nat \ {0})) /\ w.last \in Nat \X Nat
    BY <1>1, IterFields
  <2> QED
    BY <1>1, <1>2, <1>5, <2>1 DEF Placed
<1>6. CASE Set(t, "idle", [w EXCEPT !.result = "failed"])
  <2>1. /\ Shaped(recs, open, [w EXCEPT !.result = "failed"], "idle")
        /\ Placed(recs, open, [w EXCEPT !.result = "failed"], "idle")
    BY <1>1, NextFails
  <2> QED
    BY <1>1, <1>2, <1>6, <2>1, OneThread
<1>7. CASE Set(t, Scanned(w),
              CASE Scanned(w) = "idle" -> [w EXCEPT !.result = "end"]
                [] Scanned(w) = "scan" -> [w EXCEPT !.index = w.index + 1]
                [] OTHER -> w)
  <2>1. CASE w.index >= Len(recs)
    <3>1. Scanned(w) = "idle"
      BY <1>4, <2>1 DEF Scanned
    <3>2. Set(t, "idle", [w EXCEPT !.result = "end"])
      BY <1>7, <3>1
    <3>3. ASSUME ~w.slipped PROVE w.there \subseteq w.seen
      BY <1>4, <1>5, <2>1, <3>3 DEF Passed
    <3>4. /\ Shaped(recs, open, [w EXCEPT !.result = "end"], "idle")
          /\ Placed(recs, open, [w EXCEPT !.result = "end"], "idle")
      BY <1>1, <3>3, NextFails
    <3> QED
      BY <1>1, <1>2, <3>2, <3>4, OneThread
  <2>2. CASE w.index < Len(recs) /\ Entries[w.index + 1] = 0
    <3> DEFINE x == [w EXCEPT !.index = w.index + 1]
    <3>1. Scanned(w) = "scan"
      BY <1>4, <2>2 DEF Scanned
    <3>2. Set(t, "scan", x)
      BY <1>7, <3>1
    <3>3. w.index + 1 \in Nat
      BY <1>4
    <3>4. /\ x \in IterRec /\ x.index = w.index + 1 /\ x.lease = w.lease /\ x.result = w.result
          /\ x.last = w.last /\ x.seen = w.seen /\ x.there = w.there /\ x.slipped = w.slipped
      BY <1>1, <3>3 DEF IterRec
    <3> HIDE DEF x
    <3>5. Shaped(recs, open, x, "scan")
      BY <1>4, <3>4 DEF Shaped, Places
    <3>6. ASSUME ~x.slipped
          PROVE  Passed(x, x.index, 0) /\ (x.last[2] > 0 => x.last[1] < x.index)
      <4>1. ~w.slipped
        BY <3>4, <3>6
      <4>2. Len(recs[w.index + 1]) = 0
        BY <1>1, <1>4, <2>2, EntriesAre
      <4>3. ASSUME NEW q \in w.there, q[1] < w.index + 1 \/ (q[1] = w.index + 1 /\ q[2] <= 0)
            PROVE  q \in w.seen
        <5>1. q[1] \in Nat /\ q[2] \in Nat \ {0} /\ q[2] \in 1..Len(recs[q[1] + 1])
          BY <1>5, <4>1
        <5>2. q[1] # w.index
          BY <4>2, <5>1
        <5>3. q[1] < w.index
          BY <1>4, <4>3, <5>1, <5>2
        <5> QED
          BY <1>5, <4>1, <5>3 DEF Passed
      <4>4. w.last[2] > 0 => w.last[1] < w.index + 1
        BY <1>4, <1>5, <4>1
      <4> QED
        BY <3>4, <4>3, <4>4 DEF Passed
    <3>7. Placed(recs, open, x, "scan")
      <4>1. ~x.slipped => \A q \in x.there : q[1] < Len(recs) /\ q[2] \in 1..Len(recs[q[1] + 1])
        BY <1>5, <3>4
      <4> QED
        BY <1>4, <3>4, <3>6, <4>1 DEF Placed
    <3> QED
      BY <1>1, <1>2, <3>2, <3>5, <3>7, OneThread
  <2>3. CASE w.index < Len(recs) /\ Entries[w.index + 1] # 0
    <3>1. Scanned(w) = "acquire"
      BY <1>4, <2>3 DEF Scanned
    <3>2. Set(t, "acquire", w)
      BY <1>7, <3>1
    <3>3. Shaped(recs, open, w, "acquire")
      BY <1>1, <1>4, <2>3 DEF Shaped, Places
    <3>4. Placed(recs, open, w, "acquire")
      BY <1>1, <1>4 DEF Placed
    <3> QED
      BY <1>1, <1>2, <3>2, <3>3, <3>4, OneThread
  <2> QED
    BY <1>4, <2>1, <2>2, <2>3
<1> QED
  BY <1>3, <1>6, <1>7

\* logdb_lease_acqire_read.
LEMMA AcquireReadKeeps ==
  ASSUME IterInv, NEW t \in Threads, AcquireRead(t)
  PROVE  IterInv'
<1> DEFINE w == iter[t]
           x == [w EXCEPT !.lease = TRUE, !.offset = 0, !.len = Entries[w.index + 1]]
<1>1. /\ Shaped(recs, open, w, "acquire") /\ Placed(recs, open, w, "acquire") /\ w \in IterRec
      /\ Written(recs) /\ made \in Nat /\ made <= MaxIters
  BY ThreadIs DEF AcquireRead
<1>2. at[t] = "acquire" /\ open /\ UNCHANGED <<recs, open, writes, made>>
  BY DEF AcquireRead, CanRead
<1>3. Set(t, "header", x) \/ Set(t, "idle", [w EXCEPT !.result = "failed"])
  BY DEF AcquireRead
<1> HIDE DEF w
<1>4. CASE Set(t, "idle", [w EXCEPT !.result = "failed"])
  <2>1. /\ Shaped(recs, open, [w EXCEPT !.result = "failed"], "idle")
        /\ Placed(recs, open, [w EXCEPT !.result = "failed"], "idle")
    BY <1>1, NextFails
  <2> QED
    BY <1>1, <1>2, <1>4, <2>1, OneThread
<1>5. CASE Set(t, "header", x)
  <2> DEFINE s == recs[w.index + 1]
             e == Entries[w.index + 1]
  <2>1. w.index \in Nat /\ w.index < Len(recs) /\ w.result = "none"
    BY <1>1, <1>2, IterFields DEF Shaped
  <2>2. e \in Nat /\ e = Start(s, Len(s) + 1)
    BY <1>1, <2>1, EntriesAre
  <2>3. s \in Seq(Records)
    BY <1>1, <2>1, SectionIs
  <2>4. x = [w EXCEPT !.lease = TRUE, !.offset = 0, !.len = e]
    OBVIOUS
  <2> HIDE DEF e, x, s
  <2>5. /\ x \in IterRec /\ x.lease /\ x.offset = 0 /\ x.len = e /\ x.index = w.index
        /\ x.result = w.result /\ x.last = w.last /\ x.seen = w.seen /\ x.there = w.there
        /\ x.slipped = w.slipped
    <3>1. w \in IterRec /\ e \in Int
      BY <1>1, <2>2
    <3>2. /\ x \in IterRec /\ x.lease = TRUE /\ x.offset = 0 /\ x.len = e /\ x.index = w.index
          /\ x.result = w.result /\ x.last = w.last /\ x.seen = w.seen /\ x.there = w.there
          /\ x.slipped = w.slipped
      <4>1. x \in IterRec
        <5> DEFINE b == TRUE
        <5>1. b \in BOOLEAN /\ 0 \in Int /\ x = [w EXCEPT !.lease = b, !.offset = 0, !.len = e]
          BY <2>4
        <5> HIDE DEF b
        <5> QED
          BY <3>1, <5>1 DEF IterRec
      <4>2. x.lease = TRUE
        BY <2>4, <3>1 DEF IterRec
      <4>3. x.offset = 0 /\ x.len = e
        BY <2>4, <3>1 DEF IterRec
      <4>4. /\ x.index = w.index /\ x.result = w.result /\ x.last = w.last
            /\ x.seen = w.seen /\ x.there = w.there /\ x.slipped = w.slipped
        BY <2>4, <3>1 DEF IterRec
      <4> QED
        BY <4>1, <4>2, <4>3, <4>4
    <3> QED
      BY <3>2
  <2>6. Shaped(recs, open, x, "header")
    BY <1>2, <2>1, <2>5 DEF Shaped, Places
  <2>7. ASSUME ~x.slipped
        PROVE  /\ AtHeader(x, s, 1, Len(s))
               /\ \A q \in x.there : q[1] < Len(recs) /\ q[2] \in 1..Len(recs[q[1] + 1])
    <3>1. /\ Passed(w, w.index, 0) /\ (w.last[2] > 0 => w.last[1] < w.index)
          /\ \A q \in w.there : q[1] < Len(recs) /\ q[2] \in 1..Len(recs[q[1] + 1])
      BY <1>1, <1>2, <2>5, <2>7 DEF Placed
    <3>2. \A q \in w.there : q[1] = w.index => q[2] <= Len(s)
      BY <2>3, <3>1 DEF s
    <3>3. Start(s, 1) = 0 /\ Len(s) \in Nat
      BY <2>3, StartIs
    <3>4. Leased(x, s, Len(s))
      BY <2>2, <2>5, <3>2, <3>3 DEF Leased
    <3>5. Passed(x, x.index, 1 - 1)
      BY <2>5, <3>1 DEF Passed
    <3> QED
      BY <2>5, <3>1, <3>3, <3>4, <3>5 DEF AtHeader
  <2>8. ~x.slipped => \E n, N \in Nat : n > 0 /\ AtHeader(x, recs[x.index + 1], n, N)
    <3>1. Len(s) \in Nat /\ 1 \in Nat /\ 1 > 0
      BY <2>3
    <3>2. ~x.slipped => \E n, N \in Nat : n > 0 /\ AtHeader(x, s, n, N)
      BY <2>7, <3>1
    <3> QED
      BY <2>5, <3>2 DEF s
  <2>9. Placed(recs, open, x, "header")
    BY <2>1, <2>5, <2>7, <2>8 DEF Placed
  <2> QED
    BY <1>1, <1>2, <1>5, <2>6, <2>9, OneThread
<1> QED
  BY <1>3, <1>4, <1>5

\* logdb_iter_next reads a header.
LEMMA ReadHeaderKeeps ==
  ASSUME IterInv, NEW t \in Threads, ReadHeader(t)
  PROVE  IterInv'
<1> DEFINE w == iter[t]
           x == [w EXCEPT !.key = Unset, !.value = Unset]
           s == recs[x.index + 1]
<1>1. /\ Shaped(recs, open, w, "header") /\ Placed(recs, open, w, "header") /\ w \in IterRec
      /\ Written(recs) /\ made \in Nat /\ made <= MaxIters /\ open \in BOOLEAN
  BY ThreadIs DEF ReadHeader
<1>2. at[t] = "header" /\ UNCHANGED <<recs, open, writes, made>>
  BY DEF ReadHeader
<1>3. PICK r \in Reads(x, Hdr) :
        \/ r.ok /\ \E n \in Found(x) : Set(t, "idle", Returned(r.lease, n, x.index, s[n]))
        \/ r.ok /\ Found(x) = {} /\ \E d \in Records : Set(t, "idle", Returned(r.lease, 0, x.index, d))
        \/ ~r.ok /\ Set(t, "idle", [r.lease EXCEPT !.result = IF Hdr > x.len THEN "skipped" ELSE "failed"])
  BY DEF ReadHeader
<1> HIDE DEF w
<1>4. /\ x \in IterRec /\ x.key = Unset /\ x.value = Unset
      /\ x.lease = w.lease /\ x.index = w.index /\ x.offset = w.offset /\ x.len = w.len
      /\ x.there = w.there /\ x.slipped = w.slipped /\ x.seen = w.seen /\ x.last = w.last
  <2> DEFINE no == Unset
  <2>1. no \in Int /\ x = [w EXCEPT !.key = no, !.value = no]
    BY DEF Unset
  <2> HIDE DEF no, x
  <2>2. /\ x \in IterRec /\ x.key = no /\ x.value = no
        /\ x.lease = w.lease /\ x.index = w.index /\ x.offset = w.offset /\ x.len = w.len
        /\ x.there = w.there /\ x.slipped = w.slipped /\ x.seen = w.seen /\ x.last = w.last
    BY <1>1, <2>1 DEF IterRec
  <2> QED
    BY <2>2 DEF no
<1> HIDE DEF x
<1>5. w.lease /\ open = TRUE /\ w.index < Len(recs)
  BY <1>1 DEF Shaped
<1>6. x.index \in Nat /\ x.len \in Int /\ x.index < Len(recs)
  BY <1>4, <1>5, IterFields
<1>7. Ready(recs, x)
  <2>1. ASSUME ~x.slipped
        PROVE  /\ \E n, N \in Nat : n > 0 /\ AtHeader(x, s, n, N)
               /\ \A q \in x.there : q[1] < Len(recs) /\ q[2] \in 1..Len(recs[q[1] + 1])
    <3>1. /\ \E n, N \in Nat : n > 0 /\ AtHeader(w, s, n, N)
          /\ \A q \in w.there : q[1] < Len(recs) /\ q[2] \in 1..Len(recs[q[1] + 1])
      BY <1>1, <1>4, <1>5, <2>1 DEF Placed
    <3> HIDE DEF s
    <3>2. ASSUME NEW n \in Nat, NEW N \in Nat, AtHeader(w, s, n, N) PROVE AtHeader(x, s, n, N)
      BY <1>4, <3>2 DEF AtHeader, Leased, Passed
    <3> QED
      BY <1>4, <3>1, <3>2
  <2> QED
    BY <1>4, <1>5, <1>6, <2>1 DEF Ready
<1>8. s \in Seq(Records) /\ EntryLen(s) < Section /\ Len(s) \in Nat
  BY <1>1, <1>6, SectionIs
<1> DEFINE z == r.lease
<1>9. /\ r.ok \in BOOLEAN /\ z \in IterRec
      /\ z.lease = x.lease /\ z.index = x.index /\ z.key = x.key /\ z.value = x.value
      /\ x.slipped => z.slipped
      /\ \/ Hdr > x.len /\ ~r.ok /\ z = x
         \/ z.slipped
         \/ /\ Hdr <= x.len /\ r.ok
            /\ z.offset = x.offset + Hdr /\ z.len = (x.len - Hdr) % Wrap
            /\ z.last = x.last /\ z.seen = x.seen /\ z.there = x.there
  BY <1>4, HeaderReads
<1>10. CASE r.ok /\ \E n \in Found(x) : Set(t, "idle", Returned(r.lease, n, x.index, s[n]))
  <2>1. PICK n \in Found(x) : Set(t, "idle", Returned(z, n, x.index, s[n]))
    BY <1>10
  <2>2. n \in 1..Len(s) /\ Start(s, n) = x.offset
    BY DEF Found
  <2>3. s[n] \in Records /\ n \in Nat
    BY <1>8, <2>2
  <2> HIDE DEF z
  <2>4. ~z.slipped => /\ Hdr <= x.len
                      /\ z.offset = x.offset + Hdr /\ z.len = (x.len - Hdr) % Wrap
                      /\ z.last = x.last /\ z.seen = x.seen /\ z.there = x.there
    BY <1>9, <1>10
  <2>5. /\ Shaped(recs, TRUE, Returned(z, n, x.index, s[n]), "idle")
        /\ Placed(recs, TRUE, Returned(z, n, x.index, s[n]), "idle")
    BY <1>1, <1>7, <1>9, <2>2, <2>3, <2>4, HeaderReturns
  <2>6. /\ Shaped(recs, open, Returned(z, n, x.index, s[n]), "idle")
        /\ Placed(recs, open, Returned(z, n, x.index, s[n]), "idle")
    BY <1>5, <2>5
  <2> QED
    BY <1>1, <1>2, <2>1, <2>6, OneThread
<1>11. CASE r.ok /\ Found(x) = {} /\ \E d \in Records : Set(t, "idle", Returned(r.lease, 0, x.index, d))
  <2>1. PICK d \in Records : Set(t, "idle", Returned(z, 0, x.index, d))
    BY <1>11
  <2> HIDE DEF z
  <2>2. ~z.slipped => /\ Hdr <= x.len
                      /\ z.offset = x.offset + Hdr /\ z.len = (x.len - Hdr) % Wrap
                      /\ z.last = x.last /\ z.seen = x.seen /\ z.there = x.there
    BY <1>9, <1>11
  <2>3. z.slipped
    <3> SUFFICES ASSUME ~z.slipped PROVE FALSE
      OBVIOUS
    <3>1. ~x.slipped /\ Hdr <= x.len
      BY <1>9, <2>2
    <3>2. PICK m \in Nat, N \in Nat : m > 0 /\ AtHeader(x, s, m, N)
      BY <1>7, <3>1 DEF Ready
    <3>3. x.offset = Start(s, m)
      BY <3>2 DEF AtHeader
    <3>4. N <= Len(s) /\ (m > N => x.len = 0)
      <4> HIDE DEF s
      <4> QED
        BY <1>4, <1>8, <3>2, HeaderRoom
    <3>5. m <= N
      BY <1>6, <3>1, <3>2, <3>4, WrapIs
    <3>6. m \in 1..Len(s)
      BY <1>8, <3>2, <3>4, <3>5
    <3> QED
      BY <1>11, <3>3, <3>6 DEF Found
  <2>4. 0 \in Nat
    OBVIOUS
  <2>5. /\ Shaped(recs, TRUE, Returned(z, 0, x.index, d), "idle")
        /\ Placed(recs, TRUE, Returned(z, 0, x.index, d), "idle")
    BY <1>1, <1>7, <1>9, <2>2, <2>3, <2>4, HeaderReturns
  <2>6. /\ Shaped(recs, open, Returned(z, 0, x.index, d), "idle")
        /\ Placed(recs, open, Returned(z, 0, x.index, d), "idle")
    BY <1>5, <2>5
  <2> QED
    BY <1>1, <1>2, <2>1, <2>6, OneThread
<1>12. CASE ~r.ok /\ Set(t, "idle", [r.lease EXCEPT !.result = IF Hdr > x.len THEN "skipped" ELSE "failed"])
  <2> DEFINE res == IF Hdr > x.len THEN "skipped" ELSE "failed"
  <2>1. Set(t, "idle", [z EXCEPT !.result = res])
    BY <1>12
  <2>2. res \in {"skipped", "failed"} /\ (Hdr > x.len => res = "skipped")
    OBVIOUS
  <2> HIDE DEF z, res
  <2>3. ~z.slipped => Hdr > x.len /\ z = x /\ res = "skipped"
    BY <1>9, <1>12, <2>2
  <2>4. /\ Shaped(recs, TRUE, [z EXCEPT !.result = res], "idle")
        /\ Placed(recs, TRUE, [z EXCEPT !.result = res], "idle")
    BY <1>1, <1>7, <1>9, <2>2, <2>3, HeaderFails
  <2>5. /\ Shaped(recs, open, [z EXCEPT !.result = res], "idle")
        /\ Placed(recs, open, [z EXCEPT !.result = res], "idle")
    BY <1>5, <2>4
  <2> QED
    BY <1>1, <1>2, <2>1, <2>5, OneThread
<1> QED
  BY <1>3, <1>10, <1>11, <1>12

\* What is known of an iterator on a record.
LEMMA OnRecord ==
  ASSUME IterInv, NEW t \in Threads, at[t] = "idle", iter[t].result = "record"
  PROVE  /\ iter[t].lease /\ iter[t].index < Len(recs)
         /\ ~iter[t].slipped =>
              \E n, N \in Nat : n > 0 /\ AtRecord(iter[t], recs[iter[t].index + 1], n, N)
<1> DEFINE x == iter[t]
<1>1. Shaped(recs, open, x, "idle") /\ Placed(recs, open, x, "idle")
  BY ThreadIs
<1> HIDE DEF x
<1>2. x.result = "record"
  BY DEF x
<1>3. x.lease /\ x.index < Len(recs)
  BY <1>1, <1>2 DEF Shaped
<1>4. ~x.slipped => \E n, N \in Nat : n > 0 /\ (AtRecord(x, recs[x.index + 1], n, N)
                                                \/ AtEnd(x, recs[x.index + 1], n, N))
  BY <1>1, <1>3 DEF Placed
<1>5. \A n, N : ~AtEnd(x, recs[x.index + 1], n, N)
  BY <1>2 DEF AtEnd
<1> QED
  BY <1>3, <1>4, <1>5 DEF x

\* logdb_iter_current_key.
LEMMA CurrentKeyKeeps ==
  ASSUME IterInv, NEW t \in Threads, CurrentKey(t)
  PROVE  IterInv'
<1> DEFINE x == iter[t]
<1>1. /\ at[t] = "idle" /\ x.result = "record" /\ UNCHANGED <<recs, open, writes, made>>
      /\ \E y \in KeyReads(x) : Set(t, "idle", y)
  BY DEF CurrentKey
<1>2. /\ Shaped(recs, open, x, "idle") /\ Placed(recs, open, x, "idle") /\ x \in IterRec
      /\ Written(recs) /\ made \in Nat /\ made <= MaxIters
  BY <1>1, ThreadIs
<1>3. /\ x.lease /\ x.index < Len(recs)
      /\ ~x.slipped => \E n, N \in Nat : n > 0 /\ AtRecord(x, recs[x.index + 1], n, N)
  BY <1>1, OnRecord
<1> HIDE DEF x
<1>4. PICK y \in KeyReads(x) : Set(t, "idle", y)
  BY <1>1
<1>5. /\ y \in IterRec /\ y.lease = x.lease /\ y.index = x.index /\ y.result = x.result
      /\ ~y.slipped => /\ ~x.slipped /\ y.there = x.there
                       /\ \E n, N \in Nat : n > 0 /\ AtRecord(y, recs[x.index + 1], n, N)
  BY <1>2, <1>3, KeyReadsKeep
<1>6. Shaped(recs, open, y, "idle") /\ Placed(recs, open, y, "idle")
  BY <1>1, <1>2, <1>3, <1>5, RecordPlaced
<1> QED
  BY <1>1, <1>2, <1>4, <1>6, OneThread

\* logdb_iter_current_value.
LEMMA CurrentValueKeeps ==
  ASSUME IterInv, NEW t \in Threads, CurrentValue(t)
  PROVE  IterInv'
<1> DEFINE x == iter[t]
<1>1. /\ at[t] = "idle" /\ x.result = "record" /\ UNCHANGED <<recs, open, writes, made>>
      /\ \E y \in CurrentValues(x) : Set(t, "idle", y)
  BY DEF CurrentValue
<1>2. /\ Shaped(recs, open, x, "idle") /\ Placed(recs, open, x, "idle") /\ x \in IterRec
      /\ Written(recs) /\ made \in Nat /\ made <= MaxIters
  BY <1>1, ThreadIs
<1>3. /\ x.lease /\ x.index < Len(recs)
      /\ ~x.slipped => \E n, N \in Nat : n > 0 /\ AtRecord(x, recs[x.index + 1], n, N)
  BY <1>1, OnRecord
<1> HIDE DEF x
<1>4. PICK y \in CurrentValues(x) : Set(t, "idle", y)
  BY <1>1
<1>5. CASE x.value # Unset
  <2>1. y = x
    BY <1>5 DEF CurrentValues
  <2> QED
    BY <1>1, <1>2, <1>4, <2>1, OneThread
<1>6. CASE x.value = Unset
  <2>1. PICK k \in KeyReads(x) : y \in ValueReads(k)
    BY <1>6 DEF CurrentValues
  <2>2. /\ k \in IterRec /\ k.lease = x.lease /\ k.index = x.index /\ k.result = x.result
        /\ ~k.slipped => /\ ~x.slipped /\ k.there = x.there /\ k.key # Unset
                         /\ \E n, N \in Nat : n > 0 /\ AtRecord(k, recs[x.index + 1], n, N)
    BY <1>2, <1>3, KeyReadsKeep
  <2>3. /\ k.index < Len(recs)
        /\ ~k.slipped => /\ k.key # Unset
                         /\ \E n, N \in Nat : n > 0 /\ AtRecord(k, recs[k.index + 1], n, N)
    BY <1>3, <2>2
  <2>4. /\ y \in IterRec /\ y.lease = k.lease /\ y.index = k.index /\ y.result = k.result
        /\ ~y.slipped => /\ ~k.slipped /\ y.there = k.there
                         /\ \E n, N \in Nat : n > 0 /\ AtRecord(y, recs[k.index + 1], n, N)
    BY <1>2, <2>1, <2>2, <2>3, ValueReadsKeep
  <2>5. ~y.slipped => /\ ~x.slipped /\ y.there = x.there
                      /\ \E n, N \in Nat : n > 0 /\ AtRecord(y, recs[x.index + 1], n, N)
    BY <2>2, <2>4
  <2>6. Shaped(recs, open, y, "idle") /\ Placed(recs, open, y, "idle")
    BY <1>1, <1>2, <1>3, <2>2, <2>4, <2>5, RecordPlaced
  <2> QED
    BY <1>1, <1>2, <1>4, <2>6, OneThread
<1> QED
  BY <1>5, <1>6

\* logdb_iter_free.
LEMMA IterFreeKeeps ==
  ASSUME IterInv, NEW t \in Threads, IterFree(t)
  PROVE  IterInv'
<1> DEFINE w == iter[t]
           x == [NoIter EXCEPT !.lease = Released(w).lease]
<1>1. /\ w \in IterRec /\ made \in Nat /\ made <= MaxIters
  BY ThreadIs
<1>2. Set(t, "idle", x) /\ UNCHANGED <<recs, open, writes, made>>
  BY DEF IterFree
<1> HIDE DEF w
<1>3. Released(w).lease = FALSE
  BY <1>1 DEF Released, IterRec
<1>4. x = NoIter
  <2> DEFINE f == NoIter
             l == f.lease
  <2>1. f \in IterRec /\ l = FALSE
    BY FreshIs, IterFields
  <2>2. x = [f EXCEPT !.lease = l]
    BY <1>3, <2>1
  <2> HIDE DEF f, x
  <2>3. [f EXCEPT !.lease = f.lease] = f
    BY <2>1 DEF IterRec
  <2> QED
    BY <2>2, <2>3 DEF f
<1> HIDE DEF x
<1>5. Shaped(recs, open, NoIter, "idle") /\ Placed(recs, open, NoIter, "idle")
  BY FreshIs DEF Shaped, Placed, Places
<1> QED
  BY <1>1, <1>2, <1>4, <1>5, OneThread

\* The invariant, once its parts are known.
LEMMA Assemble ==
  ASSUME Written(recs), Written(recs'), Grows(recs, recs'), open' = open, open \in BOOLEAN,
         at' \in [Threads -> Places], iter' \in [Threads -> IterRec], Counted',
         \A u \in Threads : Shaped(recs, open, iter'[u], at'[u]) /\ Placed(recs, open, iter'[u], at'[u])
  PROVE  IterInv'
<1>1. ASSUME NEW u \in Threads
      PROVE  Shaped(recs', open, iter'[u], at'[u]) /\ Placed(recs', open, iter'[u], at'[u])
  BY GrowthKeeps
<1>2. \A u \in Threads : Shaped(recs', open', iter'[u], at'[u]) /\ Placed(recs', open', iter'[u], at'[u])
  BY <1>1
<1>3. (recs \in Seq(Seq(Records)))' /\ open' \in BOOLEAN
  BY DEF Written
<1> QED
  BY <1>2, <1>3 DEF IterInv, Written

\* A thread that begins or ends a call with its iterator as it is.
LEMMA MovesOnly ==
  ASSUME NEW log, NEW isopen, NEW x, NEW p \in {"idle", "putting", "put", "closing"},
         NEW p2 \in {"idle", "putting", "put", "closing"}, p2 = "put" => isopen,
         Shaped(log, isopen, x, p), Placed(log, isopen, x, p)
  PROVE  Shaped(log, isopen, x, p2) /\ Placed(log, isopen, x, p2)
<1>1. Shaped(log, isopen, x, p2)
  BY DEF Shaped, Places
<1>2. Placed(log, isopen, x, p2)
  BY DEF Placed
<1> QED
  BY <1>1, <1>2

\* A log has grown into itself.
LEMMA GrowsSame ==
  ASSUME Written(recs)
  PROVE  Grows(recs, recs)
<1>1. Len(recs) \in Nat /\ \A j \in 1..Len(recs) : Len(recs[j]) \in Nat
  BY DEF Written
<1> QED
  BY <1>1 DEF Grows

\* A commit begins.
LEMMA PutBeginKeeps ==
  ASSUME IterInv, NEW t \in Threads, PutBegin(t)
  PROVE  IterInv'
<1> DEFINE x == iter[t]
<1>1. /\ Shaped(recs, open, x, "idle") /\ Placed(recs, open, x, "idle") /\ x \in IterRec
      /\ Written(recs) /\ open \in BOOLEAN /\ at[t] = "idle"
  BY ThreadIs DEF PutBegin
<1>2. Set(t, "putting", x) /\ UNCHANGED <<recs, open, writes, made>>
  BY DEF PutBegin
<1>3. Shaped(recs, open, x, "putting") /\ Placed(recs, open, x, "putting")
  BY <1>1, MovesOnly
<1> HIDE DEF x
<1>4. /\ at' \in [Threads -> Places] /\ iter' \in [Threads -> IterRec]
      /\ at'[t] = "putting" /\ iter'[t] = x
      /\ \A u \in Threads \ {t} : at'[u] = at[u] /\ iter'[u] = iter[u]
  <2>1. "putting" \in Places /\ at \in [Threads -> Places] /\ iter \in [Threads -> IterRec]
    BY DEF IterInv, Places
  <2> QED
    BY <1>1, <1>2, <2>1, ThreadKept
<1>5. Counted'
  <2>1. Writing' = Writing \cup {t} /\ t \notin Writing
    BY <1>1, <1>4 DEF Writing
  <2>2. Cardinality(Writing') = Cardinality(Writing) + 1 /\ Cardinality(Writing) \in Nat
    BY <2>1, WritingFinite, FS_AddElement
  <2>3. writes + Cardinality(Writing) < MaxWrites /\ writes \in Nat /\ MaxWrites \in Nat
        /\ made \in Nat /\ made <= MaxIters
    BY IterAssumption DEF PutBegin, Writing, IterInv, Counted, IterAssumption
  <2>4. writes + (Cardinality(Writing) + 1) <= MaxWrites
    BY <2>2, <2>3
  <2> QED
    BY <1>2, <2>2, <2>3, <2>4 DEF Counted
<1>6. \A u \in Threads : Shaped(recs, open, iter'[u], at'[u]) /\ Placed(recs, open, iter'[u], at'[u])
  <2>1. ASSUME NEW u \in Threads
        PROVE  Shaped(recs, open, iter'[u], at'[u]) /\ Placed(recs, open, iter'[u], at'[u])
    <3>1. CASE u = t
      BY <1>3, <1>4, <3>1
    <3>2. CASE u # t
      <4>1. at'[u] = at[u] /\ iter'[u] = iter[u]
        BY <1>4, <3>2
      <4> QED
        BY <4>1, ThreadIs
    <3> QED
      BY <3>1, <3>2
  <2> QED
    BY <2>1
<1>7. Written(recs') /\ Grows(recs, recs')
  <2>1. recs' = recs
    BY <1>2
  <2> QED
    BY <1>1, <2>1, GrowsSame
<1> QED
  BY <1>1, <1>2, <1>4, <1>5, <1>6, <1>7, Assemble

\* It gets its lease.
LEMMA PutLeaseKeeps ==
  ASSUME IterInv, NEW t \in Threads, PutLease(t)
  PROVE  IterInv'
<1> DEFINE x == iter[t]
<1>1. /\ Shaped(recs, open, x, "putting") /\ Placed(recs, open, x, "putting")
      /\ made \in Nat /\ made <= MaxIters /\ at[t] = "putting" /\ open
  BY ThreadIs DEF PutLease, CanRead
<1>2. Set(t, "put", x) /\ UNCHANGED <<recs, open, writes, made>>
  BY DEF PutLease
<1>3. Shaped(recs, open, x, "put") /\ Placed(recs, open, x, "put")
  BY <1>1, MovesOnly
<1> QED
  BY <1>1, <1>2, <1>3, OneThread

\* A log with one more record is still one.
LEMMA AddedIs ==
  ASSUME Written(recs), NEW i \in 0..Len(recs), NEW r \in Records, i < MaxSections,
         EntryLen(Added(i, r)[i + 1]) < Section
  PROVE  Written(Added(i, r)) /\ Grows(recs, Added(i, r))
<1>0. /\ recs \in Seq(Seq(Records)) /\ Len(recs) \in Nat /\ Len(recs) <= MaxSections /\ i \in Nat
      /\ \A j \in 1..Len(recs) : recs[j] \in Seq(Records) /\ Len(recs[j]) \in Nat
      /\ \A j \in 1..Len(recs) : EntryLen(recs[j]) < Section
      /\ MaxSections \in Nat
  BY IterAssumption DEF Written, IterAssumption
<1> DEFINE new == Added(i, r)
<1>1. CASE i < Len(recs)
  <2>1. new = [recs EXCEPT ![i + 1] = Append(recs[i + 1], r)]
    BY <1>1 DEF Added
  <2>2. i + 1 \in 1..Len(recs)
    BY <1>0, <1>1
  <2> DEFINE s == recs[i + 1]
             u == Append(recs[i + 1], r)
  <2>3. /\ u \in Seq(Records) /\ Len(u) = Len(s) + 1 /\ Len(s) \in Nat
        /\ \A k \in 1..Len(s) : u[k] = s[k]
    <3>1. s \in Seq(Records)
      BY <1>0, <2>2
    <3> QED
      BY <3>1
  <2>4. new = [recs EXCEPT ![i + 1] = u]
    BY <2>1
  <2> HIDE DEF u, new
  <2>5. new \in Seq(Seq(Records)) /\ Len(new) = Len(recs) /\ new[i + 1] = u
        /\ \A j \in 1..Len(recs) : j # i + 1 => new[j] = recs[j]
    <3> DEFINE D == Seq(Records)
    <3>1. recs \in Seq(D) /\ u \in D
      BY <1>0, <2>3
    <3> HIDE DEF D
    <3>2. new \in Seq(D) /\ Len(new) = Len(recs) /\ new[i + 1] = u
          /\ \A j \in 1..Len(recs) : j # i + 1 => new[j] = recs[j]
      BY <1>0, <2>2, <2>4, <3>1
    <3> QED
      BY <3>2 DEF D
  <2>6. EntryLen(new[i + 1]) < Section
    BY DEF new
  <2>7. Written(new)
    BY <1>0, <2>5, <2>6 DEF Written
  <2>8. ASSUME NEW j \in 1..Len(recs)
        PROVE  Len(recs[j]) <= Len(new[j]) /\ \A k \in 1..Len(recs[j]) : new[j][k] = recs[j][k]
    <3>1. CASE j = i + 1
      <4>1. recs[j] = s /\ new[j] = u
        BY <2>5, <3>1
      <4> HIDE DEF s
      <4> QED
        BY <2>3, <4>1
    <3>2. CASE j # i + 1
      BY <1>0, <2>5, <3>2
    <3> QED
      BY <3>1, <3>2
  <2>9. Grows(recs, new)
    BY <1>0, <2>5, <2>8 DEF Grows
  <2> QED
    BY <2>7, <2>9 DEF new
<1>2. CASE i = Len(recs)
  <2>1. new = Append(recs, <<r>>)
    BY <1>0, <1>2 DEF Added
  <2>2. <<r>> \in Seq(Records)
    OBVIOUS
  <2>3. /\ new \in Seq(Seq(Records)) /\ Len(new) = Len(recs) + 1
        /\ \A j \in 1..Len(recs) : new[j] = recs[j]
    <3> DEFINE D == Seq(Records)
               u == <<r>>
    <3>1. recs \in Seq(D) /\ u \in D /\ new = Append(recs, u)
      BY <1>0, <2>1, <2>2
    <3> HIDE DEF D, u, new
    <3>2. new \in Seq(D) /\ Len(new) = Len(recs) + 1 /\ \A j \in 1..Len(recs) : new[j] = recs[j]
      BY <1>0, <3>1
    <3> QED
      BY <3>2 DEF D
  <2> HIDE DEF new
  <2>4. EntryLen(new[Len(recs) + 1]) < Section
    BY <1>2 DEF new
  <2>5. ASSUME NEW j \in 1..Len(new) PROVE EntryLen(new[j]) < Section
    <3>1. j \in 1..Len(recs) \/ j = Len(recs) + 1
      BY <1>0, <2>3
    <3> QED
      BY <1>0, <2>3, <2>4, <3>1
  <2>6. Written(new)
    BY <1>0, <1>2, <2>3, <2>5 DEF Written
  <2>7. Grows(recs, new)
    BY <1>0, <2>3 DEF Grows
  <2> QED
    BY <2>6, <2>7 DEF new
<1> QED
  BY <1>0, <1>1, <1>2

\* The commit ends, with a record or without one.
LEMMA PutEndKeeps ==
  ASSUME IterInv, NEW t \in Threads, PutEnd(t)
  PROVE  IterInv' /\ Grows(recs, recs')
<1> DEFINE x == iter[t]
<1>1. /\ Shaped(recs, open, x, "put") /\ Placed(recs, open, x, "put") /\ x \in IterRec
      /\ Written(recs) /\ open \in BOOLEAN /\ at[t] = "put"
  BY ThreadIs DEF PutEnd
<1>2. Set(t, "idle", x) /\ UNCHANGED <<open, made>> /\ writes' = writes + 1
  BY DEF PutEnd
<1>3. Shaped(recs, open, x, "idle") /\ Placed(recs, open, x, "idle")
  BY <1>1, MovesOnly
<1> HIDE DEF x
<1>4. /\ at' \in [Threads -> Places] /\ iter' \in [Threads -> IterRec]
      /\ at'[t] = "idle" /\ iter'[t] = x
      /\ \A u \in Threads \ {t} : at'[u] = at[u] /\ iter'[u] = iter[u]
  <2>1. "idle" \in Places /\ at \in [Threads -> Places] /\ iter \in [Threads -> IterRec]
    BY DEF IterInv, Places
  <2> QED
    BY <1>1, <1>2, <2>1, ThreadKept
<1>5. Counted'
  <2>1. Writing' = Writing \ {t} /\ t \in Writing
    BY <1>1, <1>4 DEF Writing
  <2>2. Cardinality(Writing') = Cardinality(Writing) - 1 /\ Cardinality(Writing) \in Nat
    BY <2>1, WritingFinite, FS_RemoveElement
  <2>3. writes + Cardinality(Writing) <= MaxWrites /\ writes \in Nat /\ MaxWrites \in Nat
        /\ made \in Nat /\ made <= MaxIters
    BY IterAssumption DEF IterInv, Counted, IterAssumption
  <2>4. (writes + 1) + (Cardinality(Writing) - 1) <= MaxWrites /\ writes + 1 \in Nat
    BY <2>2, <2>3
  <2> QED
    BY <1>2, <2>2, <2>3, <2>4 DEF Counted
<1>6. \A u \in Threads : Shaped(recs, open, iter'[u], at'[u]) /\ Placed(recs, open, iter'[u], at'[u])
  <2>1. ASSUME NEW u \in Threads
        PROVE  Shaped(recs, open, iter'[u], at'[u]) /\ Placed(recs, open, iter'[u], at'[u])
    <3>1. CASE u = t
      BY <1>3, <1>4, <3>1
    <3>2. CASE u # t
      <4>1. at'[u] = at[u] /\ iter'[u] = iter[u]
        BY <1>4, <3>2
      <4> QED
        BY <4>1, ThreadIs
    <3> QED
      BY <3>1, <3>2
  <2> QED
    BY <2>1
<1>7. Written(recs') /\ Grows(recs, recs')
  <2>1. CASE \E i \in 0..Len(recs), r \in Records :
                i < MaxSections /\ EntryLen(Added(i, r)[i + 1]) < Section /\ recs' = Added(i, r)
    <3>1. PICK i \in 0..Len(recs), r \in Records :
                i < MaxSections /\ EntryLen(Added(i, r)[i + 1]) < Section /\ recs' = Added(i, r)
      BY <2>1
    <3>2. Written(Added(i, r)) /\ Grows(recs, Added(i, r))
      BY <1>1, <3>1, AddedIs
    <3> QED
      BY <3>1, <3>2
  <2>2. CASE recs' = recs
    BY <1>1, <2>2, GrowsSame
  <2> QED
    BY <2>1, <2>2 DEF PutEnd
<1> QED
  BY <1>1, <1>2, <1>4, <1>5, <1>6, <1>7, Assemble

\* An entry without data is appended to the log.
LEMMA ExtendKeeps ==
  ASSUME IterInv, Extend
  PROVE  IterInv' /\ Grows(recs, recs')
<1>1. Written(recs) /\ open \in BOOLEAN /\ at \in [Threads -> Places] /\ iter \in [Threads -> IterRec]
  BY DEF IterInv
<1>2. /\ Len(recs) < MaxSections /\ recs' = Append(recs, <<>>) /\ writes' = writes + 1
      /\ UNCHANGED <<open, at, iter, made>>
  BY DEF Extend
<1>3. Counted'
  <2>1. Writing' = Writing
    BY <1>2 DEF Writing
  <2>2. writes + Cardinality(Writing) < MaxWrites /\ writes \in Nat /\ MaxWrites \in Nat
        /\ made \in Nat /\ made <= MaxIters /\ Cardinality(Writing) \in Nat
    BY IterAssumption, WritingFinite DEF Extend, Writing, IterInv, Counted, IterAssumption
  <2>3. (writes + 1) + Cardinality(Writing) <= MaxWrites /\ writes + 1 \in Nat
    BY <2>2
  <2> QED
    BY <1>2, <2>1, <2>2, <2>3 DEF Counted
<1> DEFINE new == Append(recs, <<>>)
<1>4. /\ recs \in Seq(Seq(Records)) /\ Len(recs) \in Nat
      /\ \A j \in 1..Len(recs) : recs[j] \in Seq(Records) /\ Len(recs[j]) \in Nat
      /\ \A j \in 1..Len(recs) : EntryLen(recs[j]) < Section
      /\ MaxSections \in Nat
  BY <1>1, IterAssumption DEF Written, IterAssumption
<1>5. /\ new \in Seq(Seq(Records)) /\ Len(new) = Len(recs) + 1
      /\ \A j \in 1..Len(recs) : new[j] = recs[j]
      /\ new[Len(recs) + 1] = <<>>
  <2> DEFINE D == Seq(Records)
             u == <<>>
  <2>1. recs \in Seq(D) /\ u \in D /\ new = Append(recs, u)
    BY <1>4
  <2> HIDE DEF D, u, new
  <2>2. /\ new \in Seq(D) /\ Len(new) = Len(recs) + 1 /\ \A j \in 1..Len(recs) : new[j] = recs[j]
        /\ new[Len(recs) + 1] = u
    BY <1>4, <2>1
  <2> QED
    BY <2>2 DEF D, u
<1>6. EntryLen(<<>>) < Section
  <2>1. <<>> \in Seq(Records) /\ Len(<<>>) = 0
    OBVIOUS
  <2>2. EntryLen(<<>>) = 0
    BY <2>1, EntryLenIs
  <2> QED
    BY <2>2, WrapIs
<1> HIDE DEF new
<1>7. ASSUME NEW j \in 1..Len(new) PROVE EntryLen(new[j]) < Section
  <2>1. j \in 1..Len(recs) \/ j = Len(recs) + 1
    BY <1>4, <1>5
  <2> QED
    BY <1>4, <1>5, <1>6, <2>1
<1>8. Written(new)
  BY <1>2, <1>4, <1>5, <1>7 DEF Written
<1>9. Grows(recs, new)
  BY <1>4, <1>5 DEF Grows
<1>10. Written(recs') /\ Grows(recs, recs')
  BY <1>2, <1>8, <1>9 DEF new
<1>11. \A u \in Threads : Shaped(recs, open, iter'[u], at'[u]) /\ Placed(recs, open, iter'[u], at'[u])
  BY <1>2, ThreadIs
<1> QED
  BY <1>1, <1>2, <1>3, <1>10, <1>11, Assemble

\* logdb_close begins.
LEMMA CloseKeeps ==
  ASSUME IterInv, NEW t \in Threads, Close(t)
  PROVE  IterInv'
<1> DEFINE x == iter[t]
<1>1. /\ Shaped(recs, open, x, "idle") /\ Placed(recs, open, x, "idle")
      /\ made \in Nat /\ made <= MaxIters /\ at[t] = "idle"
  BY ThreadIs DEF Close
<1>2. Set(t, "closing", x) /\ UNCHANGED <<recs, open, writes, made>>
  BY DEF Close
<1>3. Shaped(recs, open, x, "closing") /\ Placed(recs, open, x, "closing")
  BY <1>1, MovesOnly
<1> QED
  BY <1>1, <1>2, <1>3, OneThread

\* What is left of the log after logdb_close.
LEMMA ClosedLog ==
  ASSUME IterInv, NEW t \in Threads, Closed(t)
  PROVE  /\ Written(recs')
         /\ \A i \in 1..Len(recs) : recs[i] # <<>> =>
                i \in 1..Len(recs') /\ recs'[i] = recs[i]
<1>1. Written(recs)
  BY DEF IterInv
<1>2. /\ Entries \in Seq(0..(Section - 1)) /\ Len(Entries) = Len(recs) /\ Len(recs) \in Nat
      /\ Len(recs) <= MaxSections
  BY <1>1, EntriesAre DEF Written
<1>3. /\ \A j \in 1..Len(recs) : recs[j] \in Seq(Records) /\ Len(recs[j]) \in Nat
      /\ \A j \in 1..Len(recs) : EntryLen(recs[j]) < Section
      /\ MaxSections \in Nat
  BY <1>1, IterAssumption DEF Written, IterAssumption
<1>4. CASE recs' = recs
  <2>1. \A i \in 1..Len(recs) : i \in 1..Len(recs') /\ recs'[i] = recs[i]
    BY <1>4
  <2> QED
    BY <1>1, <1>4, <2>1
<1>5. CASE recs' # recs
  <2> DEFINE m == Merged(Entries)
             c == Created(m)
             new == [i \in 1..Len(c) |->
                       IF logdb_connection_offset(i - 1) + c[i] <= m.minsz THEN recs[i] ELSE <<>>]
  <2>1. recs' = new
    BY <1>5 DEF Closed
  <2>2. /\ Len(c) \in 0..Len(recs)
        /\ \A i \in 1..Len(recs) : Entries[i] > 0 =>
              /\ i <= Len(c) /\ c[i] = Entries[i]
              /\ logdb_connection_offset(i - 1) + Entries[i] <= m.minsz
    BY <1>2, MergeKeeps
  <2> HIDE DEF c, m
  <2>3. Len(c) \in Nat /\ Len(c) <= Len(recs)
    BY <1>2, <2>2
  <2>4. <<>> \in Seq(Records) /\ EntryLen(<<>>) < Section
    <3>1. <<>> \in Seq(Records) /\ Len(<<>>) = 0
      OBVIOUS
    <3>2. EntryLen(<<>>) = 0
      BY <3>1, EntryLenIs
    <3> QED
      BY <3>1, <3>2, WrapIs
  <2>5. ASSUME NEW i \in 1..Len(c) PROVE new[i] \in Seq(Records) /\ EntryLen(new[i]) < Section
    <3>1. i \in 1..Len(recs)
      BY <1>2, <2>3
    <3>2. new[i] = recs[i] \/ new[i] = <<>>
      OBVIOUS
    <3> HIDE DEF new
    <3> QED
      BY <1>3, <2>4, <3>1, <3>2
  <2>6. new \in Seq(Seq(Records)) /\ Len(new) = Len(c)
    <3> DEFINE D == Seq(Records)
    <3>1. new \in [1..Len(c) -> D]
      BY <2>5
    <3> HIDE DEF new, D
    <3>2. new \in Seq(D) /\ Len(new) = Len(c)
      BY <2>3, <3>1
    <3> QED
      BY <3>2 DEF D
  <2>7. Written(new)
    <3>1. Len(new) <= MaxSections
      BY <1>2, <1>3, <2>3, <2>6
    <3> HIDE DEF new
    <3> QED
      BY <2>5, <2>6, <3>1 DEF Written
  <2>8. ASSUME NEW i \in 1..Len(recs), recs[i] # <<>> PROVE i \in 1..Len(new) /\ new[i] = recs[i]
    <3>1. recs[i] \in Seq(Records) /\ Len(recs[i]) \in Nat /\ Len(recs[i]) # 0
      BY <1>3, <2>8
    <3>2. EntryLen(recs[i]) \in Nat /\ EntryLen(recs[i]) >= Len(recs[i])
      BY <3>1, EntryLenIs
    <3>3. Entries[i] = EntryLen(recs[i])
      BY DEF Entries
    <3>4. Entries[i] > 0
      BY <3>1, <3>2, <3>3
    <3>5. /\ i <= Len(c) /\ c[i] = Entries[i]
          /\ logdb_connection_offset(i - 1) + Entries[i] <= m.minsz
      BY <2>2, <3>4
    <3>6. i \in 1..Len(c)
      BY <2>3, <3>5
    <3>7. new[i] = recs[i]
      BY <3>5, <3>6
    <3> QED
      BY <2>6, <3>6, <3>7
  <2> HIDE DEF new
  <2> QED
    BY <2>1, <2>7, <2>8
<1> QED
  BY <1>4, <1>5

\* logdb_close gets the lock.
LEMMA ClosedKeeps ==
  ASSUME IterInv, NEW t \in Threads, Closed(t)
  PROVE  IterInv'
<1> DEFINE x == iter[t]
<1>1. /\ x \in IterRec /\ at[t] = "closing" /\ open' = FALSE /\ Set(t, "idle", x)
      /\ Readers = {} /\ UNCHANGED <<writes, made>>
  BY ThreadIs DEF Closed
<1>2. /\ at' \in [Threads -> Places] /\ iter' \in [Threads -> IterRec]
      /\ at'[t] = "idle" /\ iter'[t] = x
      /\ \A u \in Threads \ {t} : at'[u] = at[u] /\ iter'[u] = iter[u]
  <2>1. "idle" \in Places /\ at \in [Threads -> Places] /\ iter \in [Threads -> IterRec]
    BY DEF IterInv, Places
  <2> QED
    BY <1>1, <2>1, ThreadKept
<1>3. Counted'
  <2>1. Writing' = Writing
    BY <1>1, <1>2 DEF Writing
  <2>2. Counted
    BY DEF IterInv
  <2> QED
    BY <1>1, <2>1, <2>2 DEF Counted
<1>4. Written(recs')
  BY ClosedLog
<1>5. ASSUME NEW u \in Threads
      PROVE  Shaped(recs', FALSE, iter'[u], at'[u]) /\ Placed(recs', FALSE, iter'[u], at'[u])
  <2> DEFINE y == iter[u]
  <2>1. Shaped(recs, open, y, at[u]) /\ Placed(recs, open, y, at[u])
    BY ThreadIs
  <2>2. ~y.lease /\ at[u] # "put"
    BY <1>1 DEF Readers
  <2>3. iter'[u] = y /\ (at'[u] = at[u] \/ (at[u] = "closing" /\ at'[u] = "idle"))
    BY <1>1, <1>2
  <2> HIDE DEF y
  <2>4. Shaped(recs', FALSE, y, at'[u])
    BY <2>1, <2>2, <2>3 DEF Shaped, Places
  <2>5. Placed(recs', FALSE, y, at'[u])
    <3>1. at[u] # "header" /\ at'[u] # "header"
      BY <2>1, <2>2, <2>3 DEF Shaped
    <3> QED
      BY <2>1, <2>2, <2>3, <3>1 DEF Placed
  <2> QED
    BY <2>3, <2>4, <2>5
<1>6. \A u \in Threads : Shaped(recs', open', iter'[u], at'[u]) /\ Placed(recs', open', iter'[u], at'[u])
  BY <1>1, <1>5
<1>7. open' \in BOOLEAN
  BY <1>1
<1> QED
  BY <1>2, <1>3, <1>4, <1>6, <1>7 DEF IterInv, Written

\* The next logdb_open.
LEMMA ReopenKeeps ==
  ASSUME IterInv, Reopen
  PROVE  IterInv'
<1>1. /\ Written(recs) /\ at \in [Threads -> Places] /\ iter \in [Threads -> IterRec] /\ Counted
  BY DEF IterInv
<1>2. open' = TRUE /\ recs' = recs /\ at' = at /\ iter' = iter /\ writes' = writes /\ made' = made
  BY DEF Reopen
<1>3. Counted'
  BY <1>1, <1>2 DEF Counted, Writing
<1>4. ASSUME NEW u \in Threads
      PROVE  Shaped(recs, TRUE, iter[u], at[u]) /\ Placed(recs, TRUE, iter[u], at[u])
  <2>1. at[u] = "idle" /\ iter[u].result = "freed"
    BY DEF Reopen, Has
  <2>2. iter[u] = NoIter
    BY <2>1, ThreadIs DEF Shaped
  <2> QED
    BY <2>1, <2>2, FreshIs DEF Shaped, Placed, Places
<1> QED
  BY <1>1, <1>2, <1>3, <1>4 DEF IterInv, Written

\* The databases that may be there at first are logs as writers leave them.
LEMMA InitKeeps == Init => IterInv
<1> SUFFICES ASSUME Init PROVE IterInv
  OBVIOUS
<1>1. /\ recs \in InitLogs /\ open = TRUE /\ at = [t \in Threads |-> "idle"]
      /\ iter = [t \in Threads |-> NoIter] /\ writes = 0 /\ made = 0
  BY DEF Init
<1>2. Written(recs)
  BY <1>1, IterAssumption, LogsAssumption DEF Written, IterAssumption, LogsAssumption
<1>3. at \in [Threads -> Places] /\ iter \in [Threads -> IterRec]
  BY <1>1, FreshIs DEF Places
<1>4. Counted
  <2>1. Writing = {}
    BY <1>1 DEF Writing
  <2>2. Cardinality(Writing) = 0
    BY <2>1, FS_EmptySet
  <2> QED
    BY <1>1, <2>2, IterAssumption DEF Counted, IterAssumption
<1>5. ASSUME NEW t \in Threads
      PROVE  Shaped(recs, open, iter[t], at[t]) /\ Placed(recs, open, iter[t], at[t])
  <2>1. iter[t] = NoIter /\ at[t] = "idle"
    BY <1>1
  <2> QED
    BY <2>1, FreshIs DEF Shaped, Placed, Places
<1> QED
  BY <1>1, <1>2, <1>3, <1>4, <1>5 DEF IterInv

\* Every step keeps the invariant.
LEMMA NextKeeps == IterInv /\ [Next]_vars => IterInv'
<1> SUFFICES ASSUME IterInv, [Next]_vars PROVE IterInv'
  OBVIOUS
<1>1. CASE UNCHANGED vars
  BY <1>1 DEF vars, IterInv, Counted, Writing, Written
<1>2. CASE Extend
  BY <1>2, ExtendKeeps
<1>3. CASE Reopen
  BY <1>3, ReopenKeeps
<1>4. ASSUME NEW t \in Threads, Step(t) PROVE IterInv'
  BY <1>4, ScanKeeps, AcquireReadKeeps, ReadHeaderKeeps, PutLeaseKeeps, PutEndKeeps, ClosedKeeps DEF Step
<1>5. ASSUME NEW t \in Threads, IterAll(t) \/ NextSection(t) \/ NextRecord(t) PROVE IterInv'
  BY <1>5, IterAllKeeps, NextSectionKeeps, NextRecordKeeps
<1>6. ASSUME NEW t \in Threads, CurrentKey(t) \/ CurrentValue(t) \/ IterFree(t) PROVE IterInv'
  BY <1>6, CurrentKeyKeeps, CurrentValueKeeps, IterFreeKeeps
<1>7. ASSUME NEW t \in Threads, PutBegin(t) \/ Close(t) PROVE IterInv'
  BY <1>7, PutBeginKeeps, CloseKeeps
<1> QED
  BY <1>1, <1>2, <1>3, <1>4, <1>5, <1>6, <1>7 DEF Next

\* So it always holds.
LEMMA Invariance == Spec => []IterInv
  BY InitKeeps, NextKeeps, PTL DEF Spec
-----------------------------------------------------------------------------
(***************************************************************************)
(* The theorems.                                                           *)
(***************************************************************************)

\* Variables keep their types, and a lease stays inside the published part of
\* its section, whatever is published beside it, unless a read failed or had
\* no length.
THEOREM IterTypesCorrect == Spec => []IterTypeOK
<1>1. IterInv => IterTypeOK
  <2> SUFFICES ASSUME IterInv PROVE IterTypeOK
    OBVIOUS
  <2>1. recs \in Seq(Seq(Records)) /\ open \in BOOLEAN
    BY DEF IterInv, Written
  <2>2. at \in [Threads -> {"idle", "scan", "acquire", "header", "putting", "put", "closing"}]
    BY DEF IterInv, Places
  <2>3. writes \in 0..MaxWrites /\ made \in 0..MaxIters
    <3>1. writes \in Nat /\ made \in Nat /\ made <= MaxIters /\ writes + Cardinality(Writing) <= MaxWrites
          /\ Cardinality(Writing) \in Nat /\ MaxWrites \in Nat /\ MaxIters \in Nat
      BY WritingFinite, IterAssumption DEF IterInv, Counted, IterAssumption
    <3> QED
      BY <3>1
  <2>4. ASSUME NEW t \in Threads
        PROVE  /\ at[t] = "header" => iter[t].lease
               /\ iter[t].result = "record" => iter[t].lease
               /\ iter[t].lease /\ ~iter[t].slipped =>
                   /\ iter[t].index < Len(recs)
                   /\ iter[t].offset + iter[t].len <= Entries[iter[t].index + 1]
    <3> DEFINE x == iter[t]
    <3>1. Shaped(recs, open, x, at[t]) /\ Placed(recs, open, x, at[t]) /\ x \in IterRec /\ Written(recs)
      BY ThreadIs
    <3> HIDE DEF x
    <3>2. (at[t] = "header" => x.lease) /\ (x.result = "record" => x.lease)
      BY <3>1 DEF Shaped
    <3>3. ASSUME x.lease, ~x.slipped
          PROVE  x.index < Len(recs) /\ x.offset + x.len <= Entries[x.index + 1]
      <4> DEFINE s == recs[x.index + 1]
      <4>1. x.index < Len(recs) /\ x.index \in Nat
        BY <3>1, <3>3, IterFields DEF Shaped
      <4>2. s \in Seq(Records) /\ Entries[x.index + 1] = Start(s, Len(s) + 1) /\ Len(s) \in Nat
        BY <3>1, <4>1, SectionIs, EntriesAre
      <4>3. \E n, N \in Nat : AtHeader(x, s, n, N) \/ AtRecord(x, s, n, N) \/ AtEnd(x, s, n, N)
        BY <3>1, <3>3 DEF Placed
      <4> HIDE DEF s
      <4>4. PICK N \in Nat : N <= Len(s) /\ x.offset + x.len = Start(s, N + 1)
        BY <4>3 DEF AtHeader, AtRecord, AtEnd, Leased
      <4>5. N + 1 \in 1..(Len(s) + 1) /\ Len(s) + 1 \in 1..(Len(s) + 1) /\ N + 1 <= Len(s) + 1
        BY <4>2, <4>4
      <4>6. Start(s, N + 1) <= Start(s, Len(s) + 1)
        BY <4>2, <4>5, StartUpTo
      <4> QED
        BY <4>1, <4>2, <4>4, <4>6
    <3> QED
      BY <3>2, <3>3 DEF x
  <2> QED
    BY <2>1, <2>2, <2>3, <2>4 DEF IterTypeOK
<1> QED
  BY <1>1, Invariance, PTL

\* What logdb_iter_next, logdb_iter_current_key and logdb_iter_current_value
\* give is a published record with its own key and value, whichever keys and
\* values were read before and whatever is published meanwhile.
THEOREM RecordsReturned == Spec => []RecordsUnlessSlipped
<1>1. IterInv => RecordsUnlessSlipped
  <2> SUFFICES ASSUME IterInv, NEW t \in Threads, iter[t].result = "record", ~iter[t].slipped
               PROVE  LET x == iter[t]
                          s == recs[x.last[1] + 1]
                          start == Start(s, x.last[2]) + Hdr IN
                      /\ x.last \in Published
                      /\ x.record = s[x.last[2]]
                      /\ x.key \in {Unset, start}
                      /\ x.value \in {Unset, start + x.record.key}
    BY DEF RecordsUnlessSlipped
  <2> DEFINE x == iter[t]
             s == recs[x.index + 1]
  <2>1. Shaped(recs, open, x, at[t]) /\ Placed(recs, open, x, at[t]) /\ x \in IterRec /\ Written(recs)
    BY ThreadIs
  <2>2. x.result = "record" /\ ~x.slipped
    OBVIOUS
  <2> HIDE DEF x
  <2>3. x.lease /\ x.index < Len(recs) /\ x.index \in Nat /\ at[t] # "header"
    BY <2>1, <2>2, IterFields DEF Shaped
  <2>4. \E n, N \in Nat : n > 0 /\ (AtRecord(x, s, n, N) \/ AtEnd(x, s, n, N))
    BY <2>1, <2>2, <2>3 DEF Placed
  <2>5. s \in Seq(Records) /\ Len(s) \in Nat
    BY <2>1, <2>3, SectionIs
  <2> HIDE DEF s
  <2>6. PICK n \in Nat, N \in Nat : n > 0 /\ AtRecord(x, s, n, N)
    BY <2>2, <2>4 DEF AtEnd
  <2> DEFINE front == Start(s, n) + Hdr
  <2>7. /\ n <= N /\ N <= Len(s) /\ x.record = s[n] /\ x.last = <<x.index, n>>
        /\ x.key \in {Unset, front} /\ x.value \in {Unset, front + x.record.key}
    BY <2>6 DEF AtRecord, Leased
  <2>8. n \in 1..Len(s)
    BY <2>5, <2>6, <2>7
  <2>9. <<x.index, n>> \in Published
    BY <2>1, <2>3, <2>8, PublishedIs DEF s
  <2>10. x.last[1] = x.index /\ x.last[2] = n
    BY <2>7
  <2>11. /\ x.last \in Published
         /\ x.record = recs[x.last[1] + 1][x.last[2]]
         /\ x.key \in {Unset, Start(recs[x.last[1] + 1], x.last[2]) + Hdr}
         /\ x.value \in {Unset, Start(recs[x.last[1] + 1], x.last[2]) + Hdr + x.record.key}
    <3>1. recs[x.last[1] + 1] = s
      BY <2>10 DEF s
    <3> QED
      BY <2>7, <2>9, <2>10, <3>1
  <2> QED
    BY <2>11 DEF x
<1> QED
  BY <1>1, Invariance, PTL

\* When logdb_iter_next says that there are no more records, all have been
\* returned that were there when the pass began.
THEOREM NoneMissed == Spec => []EndMeansAll
<1>1. IterInv => EndMeansAll
  BY ThreadIs DEF EndMeansAll, Placed
<1> QED
  BY <1>1, Invariance, PTL

\* logdb_close does not take the connection from a thread that has a lease.
THEOREM LeaseHoldsOpen == Spec => []LeaseKeepsOpen
<1>1. IterInv => LeaseKeepsOpen
  BY ThreadIs DEF LeaseKeepsOpen, Shaped
<1> QED
  BY <1>1, Invariance, PTL

\* Records stay where they are, also when the database is closed and the log
\* is merged into it.
THEOREM RecordsStay == Spec => RecordsKept
<1> DEFINE Kept == \A i \in 1..Len(recs) : recs[i] # <<>> =>
                      /\ i \in DOMAIN recs'
                      /\ \A n \in 1..Len(recs[i]) :
                          n \in DOMAIN recs'[i] /\ recs'[i][n] = recs[i][n]
<1>1. ASSUME Written(recs), Written(recs'), Grows(recs, recs') PROVE Kept
  <2> SUFFICES ASSUME NEW i \in 1..Len(recs), NEW n \in 1..Len(recs[i])
               PROVE  i \in DOMAIN recs' /\ n \in DOMAIN recs'[i] /\ recs'[i][n] = recs[i][n]
    <3>1. \A i \in 1..Len(recs) : i \in DOMAIN recs'
      BY <1>1 DEF Written, Grows
    <3> QED
      BY <3>1
  <2>1. Len(recs) \in Nat /\ Len(recs') \in Nat /\ Len(recs) <= Len(recs') /\ DOMAIN recs' = 1..Len(recs')
    BY <1>1 DEF Written, Grows
  <2>2. i \in 1..Len(recs')
    BY <2>1
  <2>3. recs'[i] \in Seq(Records) /\ recs[i] \in Seq(Records)
    BY <1>1, <2>2 DEF Written
  <2>4. Len(recs[i]) <= Len(recs'[i]) /\ recs'[i][n] = recs[i][n]
    BY <1>1 DEF Grows
  <2>5. n \in 1..Len(recs'[i]) /\ DOMAIN recs'[i] = 1..Len(recs'[i])
    BY <2>3, <2>4
  <2> QED
    BY <2>1, <2>2, <2>4, <2>5
<1>2. ASSUME IterInv, IterInv', [Next]_vars PROVE [Kept]_vars
  <2>1. Written(recs) /\ Written(recs')
    BY <1>2 DEF IterInv, Written
  <2>2. CASE recs' = recs
    BY <1>1, <2>1, <2>2, GrowsSame
  <2>3. CASE Extend
    BY <1>1, <1>2, <2>1, <2>3, ExtendKeeps
  <2>4. ASSUME NEW t \in Threads, PutEnd(t) PROVE Kept
    BY <1>1, <1>2, <2>1, <2>4, PutEndKeeps
  <2>5. ASSUME NEW t \in Threads, Closed(t) PROVE Kept
    <3>1. \A i \in 1..Len(recs) : recs[i] # <<>> => i \in 1..Len(recs') /\ recs'[i] = recs[i]
      BY <1>2, <2>5, ClosedLog
    <3>2. DOMAIN recs' = 1..Len(recs') /\ \A i \in 1..Len(recs) : DOMAIN recs[i] = 1..Len(recs[i])
      BY <2>1 DEF Written
    <3> QED
      BY <3>1, <3>2
  <2>6. recs' = recs \/ Extend \/ (\E t \in Threads : PutEnd(t) \/ Closed(t))
    BY <1>2 DEF Next, Step, vars, Scan, AcquireRead, ReadHeader, PutLease, IterAll, NextSection,
                NextRecord, CurrentKey, CurrentValue, IterFree, PutBegin, Close, Reopen
  <2> QED
    BY <2>2, <2>3, <2>4, <2>5, <2>6
<1>3. [][Kept]_vars => RecordsKept
  BY DEF RecordsKept
<1> HIDE DEF Kept
<1>4. IterInv /\ IterInv' /\ [Next]_vars => [Kept]_vars
  BY <1>2
<1>5. Spec => [][Kept]_vars
  BY <1>4, Invariance, PTL DEF Spec
<1> QED
  BY <1>3, <1>5

\* Only reading a header leads from there back to the caller.
LEMMA HeaderOnly ==
  ASSUME IterInv, Next, NEW t \in Threads, at[t] = "header", at'[t] = "idle"
  PROVE  ReadHeader(t)
<1>1. at \in [Threads -> Places]
  BY DEF IterInv
<1>2. ASSUME NEW u \in Threads, NEW place, NEW x, Set(u, place, x) PROVE u = t
  BY <1>1, <1>2 DEF Set
<1>3. ASSUME at' = at PROVE FALSE
  BY <1>3
<1>4. \E u \in Threads : \/ Step(u) \/ IterAll(u) \/ NextSection(u) \/ NextRecord(u)
                         \/ CurrentKey(u) \/ CurrentValue(u) \/ IterFree(u) \/ PutBegin(u) \/ Close(u)
  BY <1>3 DEF Next, Extend, Reopen
<1>5. PICK u \in Threads : \/ Step(u) \/ IterAll(u) \/ NextSection(u) \/ NextRecord(u)
                           \/ CurrentKey(u) \/ CurrentValue(u) \/ IterFree(u) \/ PutBegin(u) \/ Close(u)
  BY <1>4
<1>6. \E place, x : Set(u, place, x)
  <2>1. CASE Scan(u)
    BY <2>1 DEF Scan
  <2>2. CASE AcquireRead(u) \/ PutLease(u) \/ PutEnd(u) \/ Closed(u)
    BY <2>2 DEF AcquireRead, PutLease, PutEnd, Closed
  <2>3. CASE ReadHeader(u)
    BY <2>3 DEF ReadHeader
  <2>4. CASE IterAll(u) \/ NextRecord(u) \/ IterFree(u) \/ PutBegin(u) \/ Close(u)
    BY <2>4 DEF IterAll, NextRecord, IterFree, PutBegin, Close
  <2>5. CASE NextSection(u)
    BY <2>5 DEF NextSection
  <2>6. CASE CurrentKey(u) \/ CurrentValue(u)
    BY <2>6 DEF CurrentKey, CurrentValue
  <2> QED
    BY <1>5, <2>1, <2>2, <2>3, <2>4, <2>5, <2>6 DEF Step
<1>7. u = t
  BY <1>2, <1>6
<1> QED
  BY <1>5, <1>7 DEF Step, Scan, AcquireRead, PutLease, PutEnd, Closed, IterAll, NextSection,
        NextRecord, CurrentKey, CurrentValue, IterFree, PutBegin, Close

\* In one pass records come in order and none comes twice, although sections
\* grow while they are read.
THEOREM ReturnedInOrder == Spec => InOrder
<1> DEFINE After(old, new) == \/ new = <<old[1], old[2] + 1>>
                              \/ new[1] > old[1] /\ new[2] = 1
           Ordered == \A t \in Threads :
                        Delivered(t) /\ ~iter[t].slipped /\ iter[t].last[2] > 0 =>
                            After(iter[t].last, iter'[t].last)
<1>1. ASSUME IterInv, NEW t \in Threads, ReadHeader(t), iter'[t].result = "record",
             ~iter[t].slipped, iter[t].last[2] > 0
      PROVE  After(iter[t].last, iter'[t].last)
  <2> DEFINE w == iter[t]
             x == [w EXCEPT !.key = Unset, !.value = Unset]
             s == recs[x.index + 1]
  <2>1. /\ Shaped(recs, open, w, "header") /\ Placed(recs, open, w, "header") /\ w \in IterRec
        /\ Written(recs) /\ ~w.slipped /\ w.last[2] > 0 /\ iter \in [Threads -> IterRec]
    BY <1>1, ThreadIs DEF ReadHeader, IterInv
  <2>2. PICK r \in Reads(x, Hdr) :
          \/ r.ok /\ \E n \in Found(x) : Set(t, "idle", Returned(r.lease, n, x.index, s[n]))
          \/ r.ok /\ Found(x) = {} /\ \E d \in Records : Set(t, "idle", Returned(r.lease, 0, x.index, d))
          \/ ~r.ok /\ Set(t, "idle", [r.lease EXCEPT !.result = IF Hdr > x.len THEN "skipped" ELSE "failed"])
    BY <1>1 DEF ReadHeader
  <2>3. ASSUME NEW y, Set(t, "idle", y) PROVE iter'[t] = y
    BY <2>1, <2>3 DEF Set
  <2> HIDE DEF w
  <2>4. /\ x \in IterRec /\ x.lease = w.lease /\ x.index = w.index /\ x.offset = w.offset
        /\ x.len = w.len /\ x.slipped = w.slipped
    <3> DEFINE no == Unset
    <3>1. no \in Int /\ x = [w EXCEPT !.key = no, !.value = no]
      BY DEF Unset
    <3> HIDE DEF no, x
    <3> QED
      BY <2>1, <3>1 DEF IterRec
  <2> HIDE DEF x
  <2>5. w.lease /\ w.index < Len(recs) /\ w.index \in Nat /\ x.index \in Nat
    BY <2>1, <2>4, IterFields DEF Shaped
  <2>6. /\ r.ok \in BOOLEAN /\ r.lease \in IterRec
        /\ r.ok => r.lease.slipped = x.slipped
        /\ r.ok => r.lease.slipped \/ Hdr <= x.len
    BY <2>4, HeaderReads
  <2>7. s \in Seq(Records) /\ EntryLen(s) < Section /\ Len(s) \in Nat
    BY <2>1, <2>4, <2>5, SectionIs
  <2>8. PICK m \in Nat, N \in Nat : m > 0 /\ AtHeader(w, s, m, N)
    BY <2>1, <2>4, <2>5 DEF Placed
  <2>9. r.ok
    <3> SUFFICES ASSUME ~r.ok PROVE FALSE
      OBVIOUS
    <3> DEFINE res == IF Hdr > x.len THEN "skipped" ELSE "failed"
               z == r.lease
    <3>1. iter'[t] = [z EXCEPT !.result = res]
      BY <2>2, <2>3
    <3>2. res # "record"
      OBVIOUS
    <3>3. z \in IterRec
      BY <2>6
    <3> HIDE DEF res, z
    <3>4. [z EXCEPT !.result = res].result = res
      BY <3>3 DEF IterRec
    <3> QED
      BY <1>1, <3>1, <3>2, <3>4
  <2>10. Hdr <= x.len /\ ~r.lease.slipped
    BY <2>1, <2>4, <2>6, <2>9
  <2>11. /\ w.offset = Start(s, m) /\ N <= Len(s)
         /\ IF m > 1 THEN w.last = <<w.index, m - 1>> ELSE w.last[2] > 0 => w.last[1] < w.index
    BY <2>8 DEF AtHeader, Leased
  <2>12. m \in 1..Len(s)
    <3>1. m > N => w.len = 0
      <4> HIDE DEF s
      <4> QED
        BY <2>1, <2>7, <2>8, HeaderRoom
    <3>2. w.len \in Int /\ Hdr <= w.len
      BY <2>1, <2>4, <2>10, IterFields
    <3>3. m <= N
      BY <2>8, <3>1, <3>2, WrapIs
    <3>4. m <= Len(s)
      BY <2>7, <2>8, <2>11, <3>3
    <3> QED
      BY <2>7, <2>8, <3>4
  <2>13. m \in Found(x)
    BY <2>4, <2>11, <2>12 DEF Found
  <2>14. PICK n \in Found(x) : iter'[t] = Returned(r.lease, n, x.index, s[n])
    BY <2>2, <2>3, <2>9, <2>13
  <2>15. n \in 1..Len(s) /\ Start(s, n) = x.offset
    BY DEF Found
  <2>16. n = m
    <3>1. n \in 1..(Len(s) + 1) /\ m \in 1..(Len(s) + 1) /\ Start(s, n) = Start(s, m)
      BY <2>4, <2>7, <2>11, <2>12, <2>15
    <3> HIDE DEF s
    <3> QED
      BY <2>7, <3>1, StartsApart
  <2>17. iter'[t].last = <<w.index, m>>
    <3> DEFINE d == s[n]
               y == Returned(r.lease, n, x.index, d)
    <3>1. d \in Records /\ n \in Nat
      BY <2>7, <2>15
    <3>2. d \in [key : Nat, value : Nat]
      BY <3>1, IterAssumption DEF IterAssumption
    <3> HIDE DEF d
    <3>3. y.slipped = r.lease.slipped /\ (~y.slipped => y.last = <<x.index, n>>)
      BY <2>5, <2>6, <3>1, <3>2, ReturnedLast
    <3>4. y.last = <<x.index, n>>
      BY <2>10, <3>3
    <3> QED
      BY <2>4, <2>14, <2>16, <3>4 DEF d
  <2>18. CASE m > 1
    <3>1. w.last[1] = w.index /\ w.last[2] = m - 1 /\ w.last[2] + 1 = m
      BY <2>8, <2>11, <2>18
    <3> QED
      BY <2>17, <3>1 DEF w
  <2>19. CASE m = 1
    <3>1. w.last[1] < w.index /\ w.last[1] \in Nat
      BY <2>1, <2>11, <2>19, IterFields
    <3>2. <<w.index, m>>[1] > w.last[1] /\ <<w.index, m>>[2] = 1
      BY <2>5, <2>19, <3>1
    <3> QED
      BY <2>17, <3>2 DEF w
  <2> QED
    BY <2>8, <2>18, <2>19
<1>2. ASSUME IterInv, [Next]_vars PROVE [Ordered]_vars
  <2> SUFFICES ASSUME Next PROVE Ordered
    BY <1>2
  <2> SUFFICES ASSUME NEW t \in Threads, Delivered(t), ~iter[t].slipped, iter[t].last[2] > 0
               PROVE  After(iter[t].last, iter'[t].last)
    OBVIOUS
  <2>1. at[t] = "header" /\ at'[t] = "idle" /\ iter'[t].result = "record"
    BY DEF Delivered
  <2>2. ReadHeader(t)
    BY <1>2, <2>1, HeaderOnly
  <2> HIDE DEF After
  <2> QED
    BY <1>1, <1>2, <2>1, <2>2
<1>3. [][Ordered]_vars => InOrder
  BY DEF InOrder
<1> HIDE DEF Ordered
<1>4. IterInv /\ [Next]_vars => [Ordered]_vars
  BY <1>2
<1>5. Spec => [][Ordered]_vars
  BY <1>4, Invariance, PTL DEF Spec
<1> QED
  BY <1>3, <1>5
=============================================================================
