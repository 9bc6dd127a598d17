------------------------------- MODULE Search -------------------------------
(***************************************************************************)
(* The optimization phase: Expandor::Optimize, Optimizer::search and       *)
(* Optimizer::restart, over whole rows and tuples.                         *)
(*                                                                         *)
(* The optimizer holds the rows of the lower strength (last) apart from    *)
(* the rows of this strength (testcases), and looks only at the tuples     *)
(* that last leaves uncovered (tuplesU).  While testcases covers them all  *)
(* it saves testcases as best and drops a row; otherwise it overwrites one *)
(* row at a time.  After altLength failed steps it restarts: best comes    *)
(* back, rows are exchanged with last, and tuplesU is computed anew.       *)
(*                                                                         *)
(* Which row a step picks, and what it writes there, is the business of    *)
(* the neighbourhoods and is left open here: what the loop promises holds  *)
(* whatever they choose.                                                   *)
(***************************************************************************)
EXTENDS Coverage, Functions, Bags

CONSTANTS
  Starts,           \* the arrays Expand hands over, <<old rows, new rows>>
  AltLengths,       \* the values of optimization.alt_length
  CellLevel,        \* optimization.configs.cell_level_percent
  ShrinkDivisor,    \* restart moves last.size() / 10 rows out of last ...
  KeepDivisor,      \* ... if tuples_U is more than 1/200 of the valid tuples
  MaxAltLength      \* bound: no restart once alt_length exceeds it

ASSUME SearchAssumption ==
  /\ Row \subseteq Assignment
  /\ Starts \subseteq Seq(Row) \X Seq(Row)
  /\ AltLengths \subseteq Nat
  /\ CellLevel \in 0 .. 100
  /\ ShrinkDivisor \in Nat \ {0}
  /\ KeepDivisor \in Nat \ {0}
  /\ MaxAltLength \in Nat

VARIABLES
  last,             \* last_strength_testcases
  best,             \* best_testcases
  bitmap,           \* saved_expandor->covered_now_strength_bitmap
  pc,               \* where the main thread is
  lastSucc,         \* last_succ_step
  altLength,        \* arguments.alt_length
  stop,             \* global_stop_flag
  expired           \* the time limit of search has passed

(* The rows of a list with their multiplicities.                           *)
BagOf(rows) ==
  [row \in Range(rows) |-> Cardinality({ i \in DOMAIN rows : rows[i] = row })]

rowVars == <<last, testcases, best>>
tupleVars == <<bitmap, tuplesU, uncovered>>
loopVars == <<lastSucc, altLength>>
vars == <<last, testcases, best, bitmap, tuplesU, uncovered, pc, lastSucc,
          altLength, stop, expired>>

(* "terminate" is std::terminate, "undefined" an access outside an empty   *)
(* vector, "killed" the quick_exit of a second signal.                     *)
Halted == {"returned", "terminate", "undefined", "killed"}

-----------------------------------------------------------------------------
(* The state Expand leaves: its bitmap has the tuples it tracks among      *)
(* those of the old rows and the ones it listed and then covered.          *)
Init ==
  /\ \E start \in Starts :
       /\ last = start[1]
       /\ testcases = start[2]
       /\ bitmap = { t \in Tuple :
                       \/ Tracked(t) /\ CoveredBy(start[1], t)
                       \/ Listed(t) /\ CoveredBy(start[2], t) }
       /\ tuplesU = { t \in Tuple :
                       /\ Listed(t)
                       /\ CoveredBy(start[2], t)
                       /\ ~CoveredBy(start[1], t) }
  /\ best = <<>>
  /\ uncovered = {}
  /\ pc = "optimize"
  /\ lastSucc = 0
  /\ altLength \in AltLengths
  /\ stop = FALSE
  /\ expired = FALSE

ValidNums == Cardinality({ t \in bitmap : Listed(t) })

(* The arrival of SIGINT or SIGTERM, at any moment.                        *)
Signal ==
  /\ pc \notin Halted
  /\ stop' = TRUE
  /\ pc' = IF stop THEN "killed" ELSE pc
  /\ UNCHANGED <<rowVars, tupleVars, loopVars, expired>>

TimeUp ==
  /\ pc \notin Halted
  /\ ~expired
  /\ expired' = TRUE
  /\ UNCHANGED <<rowVars, tupleVars, loopVars, pc, stop>>

(* Optimize has nothing to do, or constructs the Optimizer and searches.   *)
Enter ==
  /\ pc = "optimize"
  /\ pc' = IF testcases = <<>> \/ stop THEN "returned" ELSE "search"
  /\ UNCHANGED <<rowVars, tupleVars, loopVars, stop, expired>>

-----------------------------------------------------------------------------
(* One iteration of the loop of search.                                    *)
RunningOn == pc = "search" /\ ~expired   \* a bug: the flag is not looked at

Running == pc = "search" /\ ~stop /\ ~expired

(* The array is complete: save it and drop a row.                          *)
Shrink ==
  /\ Running
  /\ uncovered = {}
  /\ best' = testcases
  /\ IF testcases = <<>>
       THEN pc' = "undefined" /\ NoForce
       ELSE (\E p \in DOMAIN testcases : Remove(p)) /\ pc' = pc
  /\ lastSucc' = 0
  /\ UNCHANGED <<last, bitmap, tuplesU, altLength, stop, expired>>

RestartDue == altLength # 0 /\ lastSucc + 1 >= altLength

(* An unfinished array: one step of a neighbourhood.                       *)
PatchingForever ==   \* a bug: any step counts as a success
  /\ Running
  /\ uncovered # {}
  /\ ~RestartDue
  /\ lastSucc' = 0
  /\ UNCHANGED <<last, best, bitmap, tuplesU, altLength, stop, expired>>

Patching ==
  /\ Running
  /\ uncovered # {}
  /\ ~RestartDue
  /\ lastSucc' = IF altLength = 0 THEN 0 ELSE lastSucc + 1
  /\ UNCHANGED <<last, best, bitmap, tuplesU, altLength, stop, expired>>

CellStep == CellLevel > 0
TupleStep == CellLevel < 100

(* A step of either neighbourhood that overwrites a row.                   *)
Patch ==
  /\ Patching
  /\ \E p \in DOMAIN testcases, row \in Row : ForceRow(p, row)
  /\ UNCHANGED pc

(* A step that finds nothing to overwrite: no row passes, no bit flips.    *)
Idle ==
  /\ Patching
  /\ testcases = <<>> => TupleStep
  /\ NoForce
  /\ UNCHANGED pc

(* random_greedy_step of the cell neighbourhood goes on to backtrack_row   *)
(* after random_step, which may have flipped a bit.                        *)
PatchTwice ==
  /\ Patching
  /\ CellStep
  /\ \E p \in DOMAIN testcases, row \in Row : ForceRow(p, row)
  /\ pc' = "backtrack"

(* backtrack_row: a row of best that covers the tuple overwrites any row.  *)
Backtrack ==
  /\ pc = "backtrack"
  /\ \/ NoForce
     \/ \E p \in DOMAIN testcases, i \in DOMAIN best : ForceRow(p, best[i])
  /\ pc' = "search"
  /\ UNCHANGED <<last, best, bitmap, tuplesU, loopVars, stop, expired>>

(* The cell neighbourhood with no row to work on draws a random position.  *)
StepOnNothing ==
  /\ Patching
  /\ CellStep
  /\ testcases = <<>>
  /\ NoForce
  /\ pc' = "undefined"

-----------------------------------------------------------------------------
(* restart.  Rows are drawn out of last only if tuplesU is large enough.   *)
Popout ==
  IF Cardinality(tuplesU) * KeepDivisor > ValidNums
    THEN Len(last) \div ShrinkDivisor
    ELSE 0

Exchanged == Min({Len(last) - Popout, Len(best)})

(* Row i of last goes to order[i] and comes from there; the rows at the    *)
(* back of last are appended, the last one first.                          *)
KeptRows(order) ==
  [i \in 1 .. (Len(last) - Popout) |->
     IF i \in DOMAIN order THEN best[order[i]] ELSE last[i]]

SwappedWith(order, j) == CHOOSE i \in DOMAIN order : order[i] = j

TakenUnswapped(order) ==   \* a bug: rows are copied to last, not swapped
  [j \in 1 .. (Len(best) + Popout) |->
     IF j > Len(best) THEN last[Len(last) + 1 - (j - Len(best))] ELSE best[j]]

TakenRows(order) ==
  [j \in 1 .. (Len(best) + Popout) |->
     IF j > Len(best) THEN last[Len(last) + 1 - (j - Len(best))]
     ELSE IF \E i \in DOMAIN order : order[i] = j THEN last[SwappedWith(order, j)]
     ELSE best[j]]

(* Up to the place where restart reads the stop flag.                      *)
RestartExchange ==
  /\ Running
  /\ uncovered # {}
  /\ RestartDue
  /\ altLength <= MaxAltLength
  /\ \E order \in Injection(1 .. Exchanged, DOMAIN best) :
       /\ last' = KeptRows(order)
       /\ testcases' = TakenRows(order)
  /\ pc' = "restart"
  /\ UNCHANGED <<best, tupleVars, loopVars, stop, expired>>

(* The rest.  On a stop request restart returns with its collector thread  *)
(* still joinable.  The new tuplesU is declared covered without a look.    *)
RestartRebuild ==
  /\ pc = "restart"
  /\ IF stop
       THEN pc' = "terminate" /\ UNCHANGED <<tuplesU, uncovered, loopVars>>
       ELSE /\ tuplesU' = { t \in bitmap : ~CoveredBy(last, t) }
            /\ Rebind
            /\ pc' = "search"
            /\ lastSucc' = 0
            /\ altLength' = (altLength * 18) \div 10
  /\ UNCHANGED <<rowVars, bitmap, stop, expired>>

ExitUnfinished ==   \* a bug: the unfinished array is returned
  /\ pc = "search"
  /\ stop \/ expired
  /\ pc' = "returned"
  /\ UNCHANGED <<rowVars, tupleVars, loopVars, stop, expired>>

(* The loop ends; an unfinished array is given up for best.                *)
Exit ==
  /\ pc = "search"
  /\ stop \/ expired
  /\ testcases' = IF uncovered # {} THEN best ELSE testcases
  /\ pc' = "returned"
  /\ UNCHANGED <<last, best, tupleVars, loopVars, stop, expired>>

-----------------------------------------------------------------------------
MainStep ==
  \/ Enter
  \/ Shrink
  \/ Patch
  \/ Idle
  \/ PatchTwice
  \/ Backtrack
  \/ StepOnNothing
  \/ RestartExchange
  \/ RestartRebuild
  \/ Exit

Next == Signal \/ TimeUp \/ MainStep

(* The main thread keeps running; neither the signals nor the time limit   *)
(* need ever come.                                                         *)
Fairness == WF_vars(MainStep)

Spec == Init /\ [][Next]_vars
FairSpec == Spec /\ Fairness

-----------------------------------------------------------------------------
(* Every variable holds a value the code could hold: the fields of the     *)
(* Optimizer, the loop's locals and the two flags.                         *)
TypeOK ==
  /\ last \in Seq(Row)
  /\ testcases \in Seq(Row)
  /\ best \in Seq(Row)
  /\ bitmap \in SUBSET Tuple
  /\ tuplesU \in SUBSET Tuple
  /\ uncovered \in SUBSET tuplesU
  /\ pc \in {"optimize", "search", "backtrack", "restart"} \cup Halted
  /\ lastSucc \in Nat
  /\ altLength \in Nat
  /\ stop \in BOOLEAN
  /\ expired \in BOOLEAN

(* What the phase would return if it had to return now.  An array that is  *)
(* completed by the flip that precedes backtrack_row is not in hand yet:   *)
(* backtrack_row may spoil it before the loop sees it.                     *)
InHand ==
  CASE pc \in Halted \ {"returned"} -> <<>>
    [] pc \in {"optimize", "restart", "returned"} -> last \o testcases
    [] pc = "search" -> last \o (IF uncovered = {} THEN testcases ELSE best)
    [] pc = "backtrack" -> last \o best

Anytime == INSTANCE AnytimeArray WITH
  required <- bitmap,
  array <- InHand,
  status <- IF pc = "returned" THEN "returned"
            ELSE IF pc \in Halted THEN "dead"
            ELSE "improving"

(* At any moment of the search the rows at hand cover every tuple that was *)
(* covered when it began, and the phase returns no more rows than it was   *)
(* given: the loop, the restarts and the exit keep the promise of          *)
(* AnytimeArray.                                                           *)
KeepsThePromise == Anytime!Spec

(* The tuples listed as uncovered are exactly those of tuplesU that no row *)
(* of testcases covers, although rebind_pos_to_idx lists none of them      *)
(* without looking, and forcetestcase and UpdateInfo_remove_testcase look  *)
(* only at one row.                                                        *)
UncoveredExact ==
  pc \in {"search", "backtrack"}
    => uncovered = { t \in tuplesU : ~CoveredBy(testcases, t) }

(* restart exchanges rows between best and last; none is lost or doubled.  *)
RestartKeepsRows ==
  [][pc = "search" /\ pc' = "restart"
       => BagOf(last') (+) BagOf(testcases') = BagOf(last) (+) BagOf(best)]_vars

(* A stop request ends the phase: no loop and no restart runs on with the  *)
(* flag set.                                                               *)
StopEnds == stop ~> pc \in Halted

(* No step works on an empty array, which Optimize's early return is there *)
(* to rule out.  It does not hold: the last row may be dropped.            *)
NeverEmptyHanded == pc # "undefined"

(* A stop request leaves the program by a return or by an exit of its own. *)
(* It does not hold: restart returns past a thread that was not joined.    *)
StopIsOrderly == pc # "terminate"

(* With the alternation on, an incomplete array does not stay so: within   *)
(* alt_length steps it is completed or the search restarts from best.      *)
Recovers ==
  (altLength # 0 /\ uncovered # {})
     ~> (uncovered = {} \/ pc \in Halted \/ altLength > MaxAltLength)

=============================================================================
