--------------------------- MODULE Neighbourhood ---------------------------
(***************************************************************************)
(* How a step of the search chooses the row it writes: the cell            *)
(* neighbourhood (_Optimizer_HSCA) and the tuple neighbourhood             *)
(* (_Optimizer_Scalable), with their scores, tabu marks, validity checks,  *)
(* solver calls and random moves.  Search leaves all of this open;         *)
(* Bookkeeping shows that the counters and lists the scores are read from  *)
(* agree with the rows, so here they are functions of the rows.            *)
(*                                                                         *)
(* A tabu mark is kept as its age, greedy_limit minus the mark, up to the  *)
(* first age that is not tabu any more.                                    *)
(***************************************************************************)
EXTENDS Formula, Functions

CONSTANTS
  Starts,           \* what is bound: tuples_U and rows that cover all of it
  UseWeight,        \* optimization.configs.use_weight
  CellTabooPercent, \* optimization.configs.cell_taboo_percent
  TabooSize,        \* optimization.configs.taboo_size
  MaxWeight         \* bound: no reweighing once a tuple has this weight

ASSUME NeighbourhoodAssumption ==
  /\ \A s \in Starts :
       /\ s.tuples \subseteq { t \in Tuple : Tracked(t) /\ CoveredBy(s.rows, t) }
       /\ s.tuples # {} /\ IsFiniteSet(s.tuples)
       /\ s.rows \in Seq(ValidRows)
  /\ UseWeight \in BOOLEAN
  /\ CellTabooPercent \in Nat
  /\ TabooSize \in Nat \ {0}
  /\ MaxWeight \in Nat \ {0}

VARIABLES
  testcases,         \* testcases
  best_testcases,    \* best_testcases, once there is one
  tuplesU,           \* tuples_U
  weight,            \* weight, by tuple
  rowAge,            \* greedy_limit - last_greedy_time
  cellAge            \* greedy_limit - last_greedy_time_cell

vars == <<testcases, best_testcases, tuplesU, weight, rowAge, cellAge>>

-----------------------------------------------------------------------------
Places == DOMAIN testcases

UncoveredBy(rows) == { t \in tuplesU : ~CoveredBy(rows, t) }

Uncovered == UncoveredBy(testcases)

(* unique_covered_tuples of the row at p.                                  *)
Alone(p) ==
  { t \in tuplesU : { q \in Places : Covers(testcases[q], t) } = {p} }

Weight(ts, w) == SumFunctionOnSet(w, ts)

(* The columns where row and tuple differ, and those of two rows.          *)
Differing(row, t) == { v \in DOMAIN t : row[v] # t[v] }

(* The other members of a variable's group.                                *)
Mates == [v \in Var |-> (UNION GroupsOf(v)) \ {v}]

NoMates == [v \in Var |-> {}]

-----------------------------------------------------------------------------
(* Forcing a tuple into a row.                                             *)

(* change_bit: how the count of clause c changes when column v of the row  *)
(* is set to b.  The row itself is not changed.                            *)
ChangeBit(row, v, b, c) ==
  IF row[v] = b \/ v \notin DOMAIN c THEN 0
  ELSE IF c[v] = b THEN 1 ELSE -1

CountsWithoutMates(row, t, mates, c) ==   \* a bug: the mates are not counted
  Cardinality({ v \in DOMAIN c : row[v] = c[v] })
    + SumFunction([v \in DOMAIN t |-> ChangeBit(row, v, t[v], c)])

(* clauses_cov while the tuple is being tried: its own columns are set     *)
(* and, in the cell neighbourhood, the mates of each are reset, a column   *)
(* with two reasons being counted twice.                                   *)
Counts(row, t, mates, c) ==
  Cardinality({ v \in DOMAIN c : row[v] = c[v] })
    + SumFunction([v \in DOMAIN t |->
        ChangeBit(row, v, t[v], c) + SumFunction([x \in mates[v] |-> ChangeBit(row, x, 0, c)])])

(* check_force_tuple, and the same test in the tuple neighbourhood.        *)
Forcible(row, t, mates) == \A c \in Clause : Counts(row, t, mates, c) # 0

(* get_new_tc: the columns are written in order, and each column of the    *)
(* tuple resets its mates as it is written.                                *)
NewRow(row, t, mates) ==
  [x \in Var |->
     LET writers == { v \in DOMAIN t : x = v \/ x \in mates[v] }
     IN IF writers = {} THEN row[x] ELSE IF Max(writers) = x THEN t[x] ELSE 0]

GainOfUncovered(p, row, w) ==   \* a bug: what the row keeps is counted as lost
  Weight({ t \in Uncovered : Covers(row, t) }, w) - Weight(Alone(p), w)

(* get_gain_for_forcetestcase, as the net gain.                            *)
Gain(p, row, w) ==
  Weight({ t \in Alone(p) \cup Uncovered : Covers(row, t) }, w) - Weight(Alone(p), w)

(* get_gain_for_forcetestcase_2: the tuples that it discounts are those of *)
(* the row itself that differ from it, and there are none.                 *)
GainOnly(row, w) == Weight({ t \in Uncovered : Covers(row, t) }, w)

One == [t \in tuplesU |-> 1]

-----------------------------------------------------------------------------
(* Tabu.                                                                   *)
TabooRow(p) == rowAge[p] <= TabooSize

TabooCell(p, t) ==
  \E v \in Differing(testcases[p], t) :
    \E x \in {v} \cup Mates[v] : cellAge[p][x] <= TabooSize

(* is_taboo draws which of the two tests it makes: a row may be free, or   *)
(* is free whatever is drawn.                                              *)
MayBeFree(p, t) ==
  \/ CellTabooPercent < 100 /\ ~TabooRow(p)
  \/ CellTabooPercent > 0 /\ ~TabooCell(p, t)

SurelyFree(p, t) ==
  /\ CellTabooPercent < 100 => ~TabooRow(p)
  /\ CellTabooPercent > 0 => ~TabooCell(p, t)

Older(age) == IF age > TabooSize THEN age ELSE age + 1

(* set_taboo: time advances, and the row at p and its cells are marked.    *)
Mark(p, cells) ==
  /\ rowAge' = [q \in Places |-> IF q = p THEN 0 ELSE Older(rowAge[q])]
  /\ cellAge' = [q \in Places |->
       [v \in Var |-> IF q = p /\ v \in cells THEN 0 ELSE Older(cellAge[q][v])]]

NoMark == UNCHANGED <<rowAge, cellAge>>

ForceTestcase(p, row) == testcases' = [testcases EXCEPT ![p] = row]

(* set_taboo and forcetuple of the cell neighbourhood.                     *)
ForceTuple(p, t) ==
  /\ Mark(p, UNION { {v} \cup Mates[v] : v \in Differing(testcases[p], t) })
  /\ ForceTestcase(p, NewRow(testcases[p], t, Mates))

-----------------------------------------------------------------------------
FlippableAnyway(row, v) == TRUE   \* a bug: check_for_flip is not called

(* check_for_flip: no clause that counts on the bit loses its last.        *)
Flippable(row, v) ==
  \A c \in Clause :
    v \in DOMAIN c /\ c[v] = row[v] => \E u \in DOMAIN c \ {v} : row[u] = c[u]

Flipped(row, v) == [row EXCEPT ![v] = 1 - @]

(* random_step: the first bit of a random order that may be flipped.       *)
Flips == { f \in Places \X Var : Flippable(testcases[f[1]], f[2]) }

AfterFlip(f) == [testcases EXCEPT ![f[1]] = Flipped(@, f[2])]

(* backtrack_row: the first row of the best array that covers the tuple.   *)
BacktrackRow(t) ==
  LET covering == { q \in DOMAIN best_testcases : Covers(best_testcases[q], t) }
  IN best_testcases[Min(covering)]

(* What the solver may answer under the tuple as assumptions.              *)
Solutions(t) == { row \in ValidRows : Covers(row, t) }

-----------------------------------------------------------------------------
Init ==
  /\ \E s \in Starts :
       /\ testcases = s.rows
       /\ tuplesU = s.tuples
  /\ best_testcases = <<>>
  /\ weight = [t \in tuplesU |-> 1]
  /\ rowAge = [p \in DOMAIN testcases |-> TabooSize + 1]
  /\ cellAge = [p \in DOMAIN testcases |-> [v \in Var |-> TabooSize + 1]]

SwapOut(list, p) == SubSeq([list EXCEPT ![p] = list[Len(list)]], 1, Len(list) - 1)

(* A complete array loses a row, the last row with its marks taking the    *)
(* place: any that weighs least, or the first that is alone on fewest.     *)
Remove ==
  /\ Uncovered = {}
  /\ best_testcases' = testcases
  /\ \E p \in Places :
       /\ \/ \A q \in Places : Weight(Alone(p), weight) <= Weight(Alone(q), weight)
          \/ \A q \in Places :
               \/ Cardinality(Alone(p)) < Cardinality(Alone(q))
               \/ Cardinality(Alone(p)) = Cardinality(Alone(q)) /\ p <= q
       /\ testcases' = SwapOut(testcases, p)
       /\ rowAge' = SwapOut(rowAge, p)
       /\ cellAge' = SwapOut(cellAge, p)
  /\ UNCHANGED <<tuplesU, weight>>

-----------------------------------------------------------------------------
(* The cell neighbourhood: gradient_descent over the rows that miss a      *)
(* tuple by one column.                                                    *)
Offers(t) ==
  { p \in Places : /\ Cardinality(Differing(testcases[p], t)) = 1
                   /\ Forcible(testcases[p], t, Mates) }

Score(p, t) == Gain(p, NewRow(testcases[p], t, Mates), weight)

(* The best of the offers drawn is taken if it pays.                       *)
CellDescends(p, t) ==
  /\ p \in Offers(t) /\ MayBeFree(p, t)
  /\ Score(p, t) > 0
  /\ \A u \in Uncovered : \A q \in Offers(u) :
       SurelyFree(q, u) => Score(q, u) <= Score(p, t)
  /\ ForceTuple(p, t)
  /\ UNCHANGED <<best_testcases, tuplesU, weight>>

CellDescent == \E t \in Uncovered, p \in Places : CellDescends(p, t)

NothingPays ==
  /\ Uncovered # {}
  /\ \A u \in Uncovered : \A q \in Offers(u) : SurelyFree(q, u) => Score(q, u) <= 0

Reweighed ==
  IF UseWeight
    THEN [t \in tuplesU |-> weight[t] + (IF t \in Uncovered THEN 1 ELSE 0)]
    ELSE weight

(* When none pays, the uncovered tuples gain weight, whatever comes next.  *)
AtMinimum ==
  /\ NothingPays
  /\ \A t \in tuplesU : Reweighed[t] <= MaxWeight
  /\ weight' = Reweighed
  /\ UNCHANGED <<best_testcases, tuplesU>>

(* The best offer for the first tuple, although it does not pay.           *)
CellFirstBest ==
  /\ AtMinimum
  /\ \E t \in Uncovered : \E p \in Offers(t) :
       /\ MayBeFree(p, t)
       /\ Score(p, t) <= 0
       /\ \A q \in Offers(t) : SurelyFree(q, t) => Score(q, t) <= Score(p, t)
       /\ ForceTuple(p, t)

(* backtrack_row, now and then although there are offers.                  *)
CellBacktrack ==
  /\ AtMinimum
  /\ \E t \in Uncovered, p \in Places : ForceTestcase(p, BacktrackRow(t))
  /\ NoMark

(* random_greedy_step, when the first tuple has no offer: some tuple is    *)
(* forced where it brings most.  The gain passed in is at most 0 and rules *)
(* no row out.                                                             *)
CannotOffer(t) == \A q \in Offers(t) : ~SurelyFree(q, t)

AtLoss == AtMinimum /\ \E first \in Uncovered : CannotOffer(first)

Placeable(p, t) == Forcible(testcases[p], t, Mates)

GainPlaced(p, t) == GainOnly(NewRow(testcases[p], t, Mates), Reweighed)

CellRandomGreedy ==
  /\ AtLoss
  /\ \E t \in Uncovered, p \in Places :
       /\ Placeable(p, t) /\ MayBeFree(p, t)
       /\ \A q \in Places :
            Placeable(q, t) /\ SurelyFree(q, t) => GainPlaced(q, t) <= GainPlaced(p, t)
       /\ ForceTuple(p, t)

(* greedy_step_forced: the solver completes the tuple for every row that   *)
(* is free, and the best of its answers, which may be any, is written.     *)
CellForced ==
  /\ AtLoss
  /\ \E t \in Uncovered, p \in Places :
       /\ MayBeFree(p, t)
       /\ \E row \in Solutions(t) :
            /\ Mark(p, { v \in Var : testcases[p][v] # row[v] })
            /\ ForceTestcase(p, row)

(* No row for the tuple and no forcing: back to the best array, perhaps    *)
(* after a random flip.                                                    *)
CellGivesUp ==
  /\ AtLoss
  /\ \E t \in Uncovered :
       /\ \A q \in Places : Placeable(q, t) => ~SurelyFree(q, t)
       /\ testcases' \in { [rows EXCEPT ![p] = BacktrackRow(t)] :
            p \in Places, rows \in {testcases} \cup { AfterFlip(f) : f \in Flips } }
  /\ NoMark

-----------------------------------------------------------------------------
(* The tuple neighbourhood.  It looks at the rows' marks only, resets no   *)
(* mates, counts tuples and marks the row after writing it.                *)
Admits(p, t) == ~TabooRow(p) /\ Forcible(testcases[p], t, NoMates)

Profit(p, t) == Gain(p, NewRow(testcases[p], t, NoMates), One)

Pays(p, t) == Admits(p, t) /\ Profit(p, t) > 0

(* random_greedy_step: the first of the rows that gain most, if any gains. *)
TupleDescends(p, t) ==
  /\ Pays(p, t)
  /\ \A q \in Places : Pays(q, t) =>
       \/ Profit(q, t) < Profit(p, t)
       \/ Profit(q, t) = Profit(p, t) /\ p <= q
  /\ ForceTestcase(p, NewRow(testcases[p], t, NoMates))
  /\ Mark(p, {})
  /\ UNCHANGED <<best_testcases, tuplesU, weight>>

TupleDescent == \E t \in Uncovered, p \in Places : TupleDescends(p, t)

(* greedy_step_forced: the solver answers for each row that is not tabu,   *)
(* and the first row whose answer gains most is written.                   *)
TupleForced ==
  /\ \E t \in Uncovered :
       /\ \A q \in Places : ~Pays(q, t)
       /\ \E p \in Places, row \in Solutions(t) :
            /\ ~TabooRow(p)
            /\ \A q \in Places \ {p} : ~TabooRow(q) =>
                 \E other \in Solutions(t) :
                   \/ Gain(q, other, One) < Gain(p, row, One)
                   \/ Gain(q, other, One) = Gain(p, row, One) /\ p < q
            /\ ForceTestcase(p, row)
            /\ Mark(p, {})
  /\ UNCHANGED <<best_testcases, tuplesU, weight>>

(* random_step, now and then or because the greedy step found no row.      *)
TupleRandom ==
  /\ Uncovered # {}
  /\ \E f \in Flips : testcases' = AfterFlip(f)
  /\ NoMark
  /\ UNCHANGED <<best_testcases, tuplesU, weight>>

-----------------------------------------------------------------------------
Next ==
  \/ Remove
  \/ CellDescent \/ CellFirstBest \/ CellBacktrack
  \/ CellRandomGreedy \/ CellForced \/ CellGivesUp
  \/ TupleDescent \/ TupleForced \/ TupleRandom

Spec == Init /\ [][Next]_vars

-----------------------------------------------------------------------------
(* The formula says of each group that one of its members is set, by a     *)
(* clause of its own, and not two of them.  The clause need not name all:   *)
(* the coprocessor leaves out members that no row sets, and may say by      *)
(* other clauses that two exclude each other (GroupsKept of Convert).       *)
GroupClauses ==
  \A g \in Group :
    /\ \E some \in SUBSET g : [v \in some |-> 1] \in Clause
    /\ \A row \in ValidRows : \A v, w \in g : row[v] = 1 /\ row[w] = 1 => v = w

(* No move, forced, flipped, taken back or asked of the solver, writes a   *)
(* row that breaks a clause: every array on the way is an array of valid   *)
(* configurations, the one that is kept included.                          *)
RowsValid ==
  /\ \A p \in Places : testcases[p] \in ValidRows
  /\ \A p \in DOMAIN best_testcases : best_testcases[p] \in ValidRows

(* What check_force_tuple accepts is right although it counts some columns *)
(* twice: the row that forcetuple would write is valid and covers the      *)
(* tuple, even a tuple that names two members of one group.                *)
OffersSound ==
  \A t \in Uncovered, p \in Places :
    /\ Forcible(testcases[p], t, Mates) =>
         NewRow(testcases[p], t, Mates) \in { row \in ValidRows : Covers(row, t) }
    /\ Forcible(testcases[p], t, NoMates) =>
         NewRow(testcases[p], t, NoMates) \in { row \in ValidRows : Covers(row, t) }

(* A score read off sum_weight and the unique lists before a write is what *)
(* the write would bring: by it the uncovered weight falls, and in the     *)
(* tuple neighbourhood the number of uncovered tuples, whatever row is     *)
(* written and whatever has been reweighed since the lists were built.     *)
ScoresTrue ==
  \A p \in Places, row \in ValidRows, w \in {weight, One} :
    LET after == UncoveredBy([testcases EXCEPT ![p] = row])
    IN Weight(after, w) = Weight(Uncovered, w) - Gain(p, row, w)

=============================================================================
