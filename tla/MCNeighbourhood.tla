-------------------------- MODULE MCNeighbourhood --------------------------
(***************************************************************************)
(* Neighbourhood on four variables, three of which form a group of which   *)
(* exactly one is set, at strength 2.                                      *)
(***************************************************************************)
EXTENDS Neighbourhood

MCGroup == {{1, 2, 3}}

AtMostOne(v, w) == [x \in {v, w} |-> 0]

MCClause ==
  { [x \in {1, 2, 3} |-> 1], AtMostOne(1, 2), AtMostOne(1, 3), AtMostOne(2, 3),
    [x \in {1, 4} |-> x \div 4] }

Bound(rows, old) ==
  [ tuples |-> { t \in Tuple : Tracked(t) /\ CoveredBy(rows, t) /\ ~CoveredBy(old, t) },
    rows   |-> rows ]

(* After an expansion, and the complete set that a restart may bind.       *)
MCStarts ==
  { Bound(<<<<1, 0, 0, 1>>, <<0, 1, 0, 0>>, <<0, 0, 1, 1>>>>, <<<<0, 1, 0, 1>>>>),
    Bound(<<<<0, 1, 0, 0>>, <<0, 1, 0, 1>>, <<0, 0, 1, 0>>>>, <<>>) }

ASSUME /\ GroupClauses
       /\ \A s \in MCStarts : \E t \in s.tuples : ~Listed(t)

=============================================================================
