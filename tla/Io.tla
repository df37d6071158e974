--------------------------------- MODULE Io ---------------------------------
(***************************************************************************)
(* The read loops of src/src/logdb_io.c: read or pread is repeated until   *)
(* all is read, nothing is left in the file, or an error occurs.           *)
(***************************************************************************)
EXTENDS Integers

\* What logdb_io_pread may return for n bytes of which the file has avail: 0
\* when all were read, -1 at the end of the file, the bytes that remain after
\* an error.  For n = 0 the loop is not entered, and the result depends on a
\* variable that was not initialized.
ReadResults(n, avail, faults) ==
    LET loop[m \in 0..n] ==
          LET have == avail - (n - m) IN
          IF m = 0 THEN {0}
          ELSE (IF faults THEN {m} ELSE {}) \cup
               (IF have <= 0 THEN {-1}
                ELSE UNION {loop[m - r] : r \in 1..(IF m < have THEN m ELSE have)})
    IN IF n = 0 THEN {0, -1} ELSE loop[n]
=============================================================================
