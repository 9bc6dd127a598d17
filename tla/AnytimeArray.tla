---------------------------- MODULE AnytimeArray ----------------------------
(***************************************************************************)
(* What the optimization phase promises (Optimizer::search as its caller   *)
(* Expandor::Optimize sees it): at every moment there is an array in hand  *)
(* that covers every required tuple, it is only ever replaced by one that  *)
(* covers them too and is no larger, and it is what the phase returns.     *)
(*                                                                         *)
(* The process may also die, and then the array is gone with it.           *)
(***************************************************************************)
EXTENDS Integers, Sequences

CONSTANTS
  Row,                      \* the rows an array may hold
  Tuple                     \* what may be required: assignments of columns

VARIABLES
  required,                 \* the tuples the array has to cover
  array,                    \* the array in hand: a sequence of rows
  status                    \* "improving", "returned" or "dead"

arrayVars == <<required, array, status>>

(* Some row of the array agrees with the tuple on all of its columns.      *)
CoveredBy(rows, t) == \E i \in DOMAIN rows : \A v \in DOMAIN t : rows[i][v] = t[v]

CoversAll(rows) == \A t \in required : CoveredBy(rows, t)

Init ==
  /\ required \in SUBSET Tuple
  /\ array \in Seq(Row)
  /\ CoversAll(array)
  /\ status = "improving"

(* A complete array gives way to a complete array that is no larger.       *)
Improve ==
  /\ status = "improving"
  /\ array' \in Seq(Row)
  /\ CoversAll(array')
  /\ Len(array') <= Len(array)
  /\ UNCHANGED <<required, status>>

Return ==
  /\ status = "improving"
  /\ status' = "returned"
  /\ UNCHANGED <<required, array>>

Die ==
  /\ status = "improving"
  /\ status' = "dead"
  /\ array' = <<>>
  /\ UNCHANGED required

Next == Improve \/ Return \/ Die

Spec == Init /\ [][Next]_arrayVars

=============================================================================
