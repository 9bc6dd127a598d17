------------------------------ MODULE MCExpand ------------------------------
(***************************************************************************)
(* Expand from strength 2 to strength 4 on six variables: three that are   *)
(* free but for two clauses, and a group of three of which one is set.     *)
(* A row is named by its first three bits and the member that is set.      *)
(***************************************************************************)
EXTENDS Expand

MCGroup == {{4, 5, 6}}

(* The first makes pairs invalid, which check_part_invalid finds; the next *)
(* make triples invalid, the second of them listed out of order.           *)
Pair == (1 :> 0 @@ 2 :> 0)
Ordered == (1 :> 1 @@ 3 :> 1 @@ 4 :> 0)
Unordered == (2 :> 0 @@ 3 :> 0 @@ 5 :> 0)

MCClause == {[v \in {4, 5, 6} |-> 1], Pair, Ordered, Unordered}
              \cup { [v \in pair |-> 0] : pair \in kSubset(2, {4, 5, 6}) }

MCSortedClause == MCClause \ {Unordered}

R(a, b, c, m) == <<a, b, c>> \o [i \in 1 .. 3 |-> IF m = i + 3 THEN 1 ELSE 0]

(* All valid rows in a fixed order, but for a few.                         *)
Except(out) ==
  LET in(m) == SetToSeq({ row \in ValidRows \ out : row[m] = 1 })
  IN in(4) \o in(5) \o in(6)

Few == {R(0, 0, 0, 5), R(0, 0, 0, 6), R(0, 0, 1, 4), R(0, 1, 0, 6)}
Others == {R(0, 0, 0, 5), R(0, 0, 1, 4), R(0, 0, 1, 6), R(0, 1, 0, 6), R(1, 0, 0, 6)}

(* Two arrays of strength 2, and one that is complete for every strength.  *)
MCArrays == {Except(Few), Except(Others), Except({})}

(* The tables by strength are what they are meant to be (and TLC evaluates *)
(* them once, here).                                                       *)
Strengths == InitStrength .. Strength

Tuples == UNION { TuplesOf(k) : k \in Strengths }

ASSUME TablesTyped ==
  /\ ListedOf \in [Strengths -> SUBSET Tuples]
  /\ TrackedOf \in [Strengths -> SUBSET Tuples]
  /\ ValidOf \in [Strengths -> SUBSET Tuples]
  /\ CoverOf \in [Strengths -> [ValidRows -> SUBSET Tuples]]

(* The model is one whose arrays are to be complete.                       *)
ASSUME Parameters == GroupsExclusive /\ EnoughColumns

MCSampled == {R(0, 0, 0, 5), R(0, 1, 0, 6)}

(* Returned by an optimization: the rows as they are, without one of them, *)
(* with one rewritten, or only as many as it takes to cover the same,      *)
(* these also in reverse order; with one row more or less among the old    *)
(* ones.                                                                   *)
Without(a) == { RemoveAt(a, i) : i \in DOMAIN a }

Rewritten(a) == { [a EXCEPT ![i] = row] : i \in DOMAIN a, row \in MCSampled }

RECURSIVE Needed(_, _, _)
Needed(k, a, i) ==
  IF i = 0 THEN a
  ELSE LET rest == RemoveAt(a, i)
       IN Needed(k, IF CoverOf[k][a[i]] \subseteq CoverIn(k, rest) THEN rest ELSE a, i - 1)

Divided(array, near) ==
  { <<SubSeq(array, 1, cut), SubSeq(array, cut + 1, Len(array))>> :
      cut \in (0 .. Len(array)) \cap (near - 1 .. near + 1) }

MCReturned(old, new) ==
  LET all == old \o new
      fewest == { Needed(k, all, Len(all)) : k \in {3, 4} }
      arrays == {all} \cup Without(all) \cup Rewritten(all)
                  \cup fewest \cup { Reverse(a) : a \in fewest }
  IN UNION { Divided(a, Len(old)) : a \in arrays }
=============================================================================
