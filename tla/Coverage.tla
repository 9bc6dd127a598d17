------------------------------ MODULE Coverage ------------------------------
(***************************************************************************)
(* What the optimizer needs to know about coverage: the rows it works on   *)
(* (testcases), the tuples it is responsible for (tuplesU) and those of    *)
(* them that no row covers (uncovered).                                    *)
(*                                                                         *)
(* The three operations that change them are here over sets of tuples:     *)
(* Optimizer::rebind_pos_to_idx, UpdateInfo_remove_testcase and            *)
(* forcetestcase.  Search is built from them; Bookkeeping implements them  *)
(* with the arrays and lists of the code.                                  *)
(***************************************************************************)
EXTENDS Formula

CONSTANT Row        \* the rows that a step may write

VARIABLES
  testcases,        \* testcases
  tuplesU,          \* tuples_U
  uncovered         \* the tuples listed in uncovered_tuples

coverageVars == <<testcases, tuplesU, uncovered>>

-----------------------------------------------------------------------------
(* Coverage bookkeeping, as the counters compute it: a row that leaves     *)
(* takes with it the tuples it alone covered, a row that comes covers some *)
(* of the uncovered ones.  Tuples not listed as uncovered are not looked   *)
(* at again.                                                               *)
LostAnyway(rows, p) ==   \* a bug: the rows that share a tuple are not counted
  { t \in tuplesU \ uncovered : Covers(rows[p], t) }

Lost(rows, p) ==
  { t \in tuplesU \ uncovered :
      /\ Covers(rows[p], t)
      /\ \A q \in DOMAIN rows \ {p} : ~Covers(rows[q], t) }

(* UpdateInfo_remove_testcase: the last row takes the place of row p.      *)
WithoutRow(rows, p) == SubSeq([rows EXCEPT ![p] = rows[Len(rows)]], 1, Len(rows) - 1)

Remove(p) ==
  /\ testcases' = WithoutRow(testcases, p)
  /\ uncovered' = uncovered \cup Lost(testcases, p)

(* forcetestcase: row p becomes row.                                       *)
ForceRow(p, row) ==
  /\ testcases' = [testcases EXCEPT ![p] = row]
  /\ uncovered' = { t \in uncovered \cup Lost(testcases, p) : ~Covers(row, t) }

NoForce == UNCHANGED <<testcases, uncovered>>

(* rebind_pos_to_idx: whatever tuplesU has become counts as covered.       *)
RebindKeepsList == UNCHANGED uncovered   \* a bug: the list is not cleared

Rebind == uncovered' = {}

-----------------------------------------------------------------------------
(* The behaviours open to a caller that rebinds complete arrays only.      *)
Complete == \A t \in tuplesU : CoveredBy(testcases, t)

RowRemoved ==
  /\ \E p \in DOMAIN testcases : Remove(p)
  /\ UNCHANGED tuplesU

RowForced ==
  /\ \E p \in DOMAIN testcases, row \in Row : ForceRow(p, row)
  /\ UNCHANGED tuplesU

Rebound ==
  /\ testcases' \in Seq(Row)
  /\ tuplesU' \in SUBSET Tuple
  /\ Complete'
  /\ Rebind

CoverageInit ==
  /\ testcases \in Seq(Row)
  /\ tuplesU \in SUBSET Tuple
  /\ Complete
  /\ uncovered = {}

CoverageNext == RowRemoved \/ RowForced \/ Rebound

CoverageSpec == CoverageInit /\ [][CoverageNext]_coverageVars

=============================================================================
