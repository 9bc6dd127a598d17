------------------------------- MODULE Rescan -------------------------------
(***************************************************************************)
(* How threads share a scan over columns or tuples, and the numbers that   *)
(* the scan goes by: a range of 0 .. n-1 for each thread, the combinations *)
(* of columns in colexicographic order (util/combinadic.hpp), of which a   *)
(* thread decodes its first and steps to the next, and the place of a      *)
(* tuple in the bitmaps (Expandor::TupleToIndex), where combinations are   *)
(* in lexicographic order.  Columns count from 0.                          *)
(***************************************************************************)
EXTENDS TupleMap

StartUneven(id, n, threads) == (n \div threads) * id   \* a bug: the remainder is nobody's

(* Where the range of a thread starts; it ends where the next one starts.  *)
Start(id, n, threads) ==
  (n \div threads) * id + (IF id < n % threads THEN id ELSE n % threads)

RangeOf(id, n, threads) == Start(id, n, threads) .. Start(id + 1, n, threads) - 1

(* combinadic_nCr                                                          *)
nCr[n \in Nat] ==
  [r \in Nat |->
     CASE n < r -> 0
       [] n >= r /\ (r = 0 \/ r = n) -> 1
       [] OTHER -> nCr[n - 1][r - 1] + nCr[n - 1][r]]

(* combinadic_decode: each column, from the last on, is the greatest that  *)
(* is not beyond the rest of the number.                                   *)
Greatest(i, rest, columns) ==
  CHOOSE c \in i .. columns :
    /\ nCr[c][i + 1] <= rest
    /\ c = columns \/ nCr[c + 1][i + 1] > rest

Rests(number, k, columns) ==
  LET rest[i \in 0 .. k - 1] ==
        IF i = k - 1 THEN number
        ELSE rest[i + 1] - nCr[Greatest(i + 1, rest[i + 1], columns)][i + 2]
  IN rest

Decode(number, k, columns) ==
  LET rest == Rests(number, k, columns)
  IN [i \in 1 .. k |-> Greatest(i - 1, rest[i - 1], columns)]

(* combinadic_next: the first column that has room moves up, and those     *)
(* before it start over.                                                   *)
HasRoom(col, i) == i = Len(col) \/ col[i] + 1 < col[i + 1]

FirstRoom(col) ==
  CHOOSE i \in 1 .. Len(col) : HasRoom(col, i) /\ \A j \in 1 .. i - 1 : ~HasRoom(col, j)

NextColumns(col) ==
  [i \in 1 .. Len(col) |-> IF i < FirstRoom(col) THEN i - 1
                           ELSE IF i = FirstRoom(col) THEN col[i] + 1 ELSE col[i]]

(* TupleToIndex, of the tuple with these columns and signs.                *)
TupleToIndex(n, cols, bits) ==
  IF Len(cols) = 1 THEN bits[1] * n + cols[1] ELSE MapIndex(n, cols, bits)

=============================================================================
