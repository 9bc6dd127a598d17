------------------------------ MODULE MCSearch ------------------------------
(***************************************************************************)
(* Search on five variables at strength 3.  Variables 3 to 5 are a group   *)
(* of which exactly one is set (an option with three values), so a row is  *)
(* named by its first two bits and by the member that is set.              *)
(***************************************************************************)
EXTENDS Search

MCGroup == {{3, 4, 5}}
MCClause == { [v \in {3, 4, 5} |-> 1] }
              \cup { [v \in pair |-> 0] : pair \in kSubset(2, {3, 4, 5}) }

R(a, b, m) == <<a, b>> \o [i \in 1 .. 3 |-> IF m = i + 2 THEN 1 ELSE 0]

MCRow == {R(0, 0, 3), R(0, 1, 4), R(1, 0, 5), R(1, 1, 3)}

(* Disjoint rows; rows that repeat one another; a single new row; none.    *)
MCStarts ==
  { <<<<R(0, 0, 3), R(0, 1, 4)>>, <<R(1, 0, 5), R(1, 1, 3)>>>>,
    <<<<R(0, 0, 3), R(1, 1, 3)>>, <<R(0, 1, 4), R(1, 0, 5), R(0, 0, 3)>>>>,
    <<<<R(0, 0, 3), R(0, 1, 4)>>, <<R(1, 1, 3)>>>>,
    <<<<R(0, 0, 3), R(0, 1, 4)>>, <<>>>> }

MCAltLengths == {0, 2}

=============================================================================
