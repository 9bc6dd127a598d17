------------------------------ MODULE TupleMap ------------------------------
(***************************************************************************)
(* The place CDCLCASampler gives to a tuple in its bit sets: t columns of  *)
(* n, counted from 0 and increasing, and a value for each.  First come all *)
(* combinations of columns with the values 0..0, then with 0..01, and so   *)
(* on; the combinations are in lexicographic order.                        *)
(***************************************************************************)
EXTENDS Integers, Sequences

(* The combinations of k columns, in ascending order.                      *)
Combinations(k, columns) ==
  { col \in [1 .. k -> 0 .. columns - 1] : \A i \in 1 .. k - 1 : col[i] < col[i + 1] }

(* combnum: the number of ways to choose j of i, for j from 2 on.          *)
combnum[j \in Nat] ==
  [i \in Nat |-> IF j < 2 \/ i < 2 THEN 0
                 ELSE IF j = 2 THEN (i * (i - 1)) \div 2
                 ELSE combnum[j][i - 1] + combnum[j - 1][i - 1]]

Get2Base(n, i, j) == ((2 * n - i - 1) * i) \div 2 + j - i - 1

(* Get3Base to Get6Base: the combinations whose first column is smaller    *)
(* come before; the others are those of the columns behind the first.      *)
GetBase(n, cols) ==
  LET t == Len(cols)
      after(k) == IF k = 1 THEN 0 ELSE cols[k - 1] + 1
      base[k \in 1 .. t - 1] ==
        IF k = t - 1
        THEN Get2Base(n - after(k), cols[k] - after(k), cols[k + 1] - after(k))
        ELSE combnum[t - k + 1][n - after(k)] - combnum[t - k + 1][n - cols[k]] + base[k + 1]
  IN base[1]

Number(bits) ==
  LET value[k \in 0 .. Len(bits)] == IF k = 0 THEN 0 ELSE 2 * value[k - 1] + bits[k]
  IN value[Len(bits)]

(* Get2TupleMapIndex to Get6TupleMapIndex.                                 *)
MapIndex(n, cols, bits) == Number(bits) * combnum[Len(cols)][n] + GetBase(n, cols)

=============================================================================
