--------------------------- MODULE MCBookkeeping ---------------------------
(***************************************************************************)
(* Bookkeeping on three variables at strength 2.  The rows 000 and 111 are *)
(* the array of strength 1, and each of the six other rows covers two of   *)
(* the six tuples they leave, every tuple being covered by two rows.       *)
(***************************************************************************)
EXTENDS Bookkeeping

MCClause == {[v \in {1, 2} |-> v - 1], [v \in {2, 3} |-> 0]}

Old == <<<<0, 0, 0>>, <<1, 1, 1>>>>

MCRow == {<<0, 0, 1>>, <<0, 1, 0>>, <<1, 0, 0>>, <<1, 0, 1>>}

StartWith(rows) ==
  [ tuples |-> SetToSeq({ t \in Tuple : CoveredBy(rows, t) /\ ~CoveredBy(Old, t) }),
    rows   |-> rows,
    old    |-> Old,
    known  |-> { t \in Tuple : CoveredBy(Old \o rows, t) } ]

(* Rows that share tuples; a row that is doubled; few enough for a third   *)
(* write.                                                                  *)
MCStarts ==
  { StartWith(<<<<0, 0, 1>>, <<0, 1, 0>>, <<1, 0, 0>>>>),
    StartWith(<<<<1, 0, 1>>, <<1, 0, 0>>, <<1, 0, 1>>>>),
    StartWith(<<<<0, 0, 1>>, <<0, 1, 0>>>>) }

=============================================================================
