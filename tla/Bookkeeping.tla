---------------------------- MODULE Bookkeeping ----------------------------
(***************************************************************************)
(* How the Optimizer keeps coverage: the counters, position maps and lists *)
(* that rebind_pos_to_idx builds and that UpdateInfo_remove_testcase and   *)
(* forcetestcase maintain, with the swap-removals and the lazily cleaned   *)
(* lists of the code.  It implements Coverage.                             *)
(*                                                                         *)
(* A tuple is named by its place in tuples_U and a row by its place in     *)
(* testcases; a row that is written gets a fresh name, its idx.  Places    *)
(* and names count from 1 here, and a name that is dead (-1) is 0.  An     *)
(* IntrusiveList is the sequence of its values; unique_node, the handle of *)
(* a tuple's only node in the unique lists, is the tuple's place there.    *)
(***************************************************************************)
EXTENDS Formula, SequencesExt, Rescan

CONSTANTS
  Row,          \* the rows that a step may write
  Starts,       \* what is bound: tuples_U, rows that cover all of it, the rows
                \* of the strength before, and the tuples that the bitmap knows
  ThreadNum,    \* thread_num (16)
  UseWeight,    \* optimization.configs.use_weight
  TabooSize,    \* optimization.configs.taboo_size
  MaxIdx,       \* bound: no row is written once its name would exceed it
  MaxWeight     \* bound: no reweighing once a tuple has this weight

ASSUME BookkeepingAssumption ==
  /\ Row \subseteq Assignment
  /\ \A s \in Starts :
       /\ s.tuples \in Seq(Tuple)
       /\ IsInjective(s.tuples)
       /\ s.rows \in Seq(Row) /\ Len(s.rows) <= MaxIdx
       /\ s.old \in Seq(Assignment)
       /\ s.known \subseteq { t \in Tuple : CoveredBy(s.old \o s.rows, t) }
       /\ Range(s.tuples) = { t \in s.known : ~CoveredBy(s.old, t) }
  /\ ThreadNum \in Nat \ {0}
  /\ UseWeight \in BOOLEAN
  /\ TabooSize \in Nat \ {0}
  /\ MaxIdx \in Nat
  /\ MaxWeight \in Nat \ {0}

VARIABLES
  book,         \* the fields of the Optimizer that this module is about
  phase,        \* "cover", "collect" and "scan" while threads are at work;
                \* "step", or "backtrack" before a second write of a step
  job           \* what the threads work on, and how far they are

vars == <<book, phase, job>>

-----------------------------------------------------------------------------
(* A list that holds the elements of the set, each once; what of a list is *)
(* in a set, in its order; and the place of an element.                    *)
Lists(list, set) == IsInjective(list) /\ Range(list) = set

Kept(list, set) ==
  LET kept[n \in 0 .. Len(list)] ==
        IF n = 0 THEN <<>>
        ELSE IF list[n] \in set THEN Append(kept[n - 1], list[n]) ELSE kept[n - 1]
  IN kept[Len(list)]

PlaceIn(list, e) == CHOOSE i \in DOMAIN list : list[i] = e

WeightIn(b, ids) == SumFunctionOnSet(b.weight, ids)

(* How many literals of each clause the row satisfies.                     *)
ClausesCov(row) == [c \in Clause |-> Cardinality({ v \in DOMAIN c : row[v] = c[v] })]

Upto(n) == [i \in 1 .. n |-> i]

(* rebind_pos_to_idx, with the testcase_idx that its callers set, up to    *)
(* the scan.                                                               *)
Cleared(tuples, rows) ==
     [ tuplesU             |-> tuples,
       testcases           |-> rows,
       coveredTimes        |-> [t \in DOMAIN tuples |-> 0],
       coveredTuples       |-> Upto(Len(tuples)),
       uncoveredTuples     |-> <<>>,
       tuplesIdxToPos      |-> Upto(Len(tuples)),
       testcaseIdx         |-> Len(rows),
       testcasePosToIdx    |-> Upto(Len(rows)),
       testcaseIdxToPos    |-> Upto(Len(rows)),
       tcCoveredTuples     |-> [p \in DOMAIN rows |-> <<>>],
       uniqueCoveredTuples |-> [p \in DOMAIN rows |-> <<>>],
       coveredTestcases    |-> [t \in DOMAIN tuples |-> <<>>],
       weight              |-> [t \in DOMAIN tuples |-> 1],
       sumWeight           |-> [p \in DOMAIN rows |-> 0],
       clausesCov          |-> [p \in DOMAIN rows |-> ClausesCov(rows[p])],
       greedyLimit         |-> 0,
       lastGreedyTime      |-> [p \in DOMAIN rows |-> -TabooSize - 1] ]

(* ... and after it: the queues of the threads are put into the lists, one *)
(* thread after the other, and a tuple with one row goes to that row.      *)
ValuesOf(pairs, key) ==
  LET mine == Kept(pairs, { pair \in Range(pairs) : pair[1] = key })
  IN [i \in DOMAIN mine |-> mine[i][2]]

Bound(b, rowsOfTuples, tuplesOfRows) ==
  LET covering == [t \in DOMAIN b.tuplesU |-> ValuesOf(rowsOfTuples, t)]
      holds(p) == { t \in DOMAIN b.tuplesU :
                      b.coveredTimes[t] = 1 /\ b.testcaseIdxToPos[Head(covering[t])] = p }
      only(p) == Kept(Upto(Len(b.tuplesU)), holds(p))
  IN [b EXCEPT !.coveredTestcases = covering,
               !.tcCoveredTuples = [p \in DOMAIN @ |-> ValuesOf(tuplesOfRows, p)],
               !.uniqueCoveredTuples = [p \in DOMAIN @ |-> only(p)],
               !.sumWeight = [p \in DOMAIN @ |-> Len(only(p))]]

-----------------------------------------------------------------------------
(* Removal by swapping: what is at the back comes to the place, the places *)
(* being taken from the back.                                              *)
DropBack(list, p) == Front(list)   \* a bug: the back is not moved to the place

SwapOut(list, p) == Front([list EXCEPT ![p] = Last(list)])

TakeCoveredUnmapped(c, p) ==   \* a bug: the moved tuple's place is not updated
  [tuples |-> SwapOut(c.tuples, p), places |-> c.places]

(* covered_tuples, with the map that keeps the place of each of its tuples.*)
TakeCovered(c, p) ==
  [tuples |-> SwapOut(c.tuples, p), places |-> [c.places EXCEPT ![Last(c.tuples)] = p]]

TakenFromTheFront(c, gone) ==   \* a bug: the order is reversed
  LET n == Len(c.tuples)
      after[p \in 0 .. n] ==
        IF p = 0 THEN c
        ELSE IF p \in gone THEN TakeCovered(after[p - 1], p) ELSE after[p - 1]
  IN after[n]

TakenOut(c, gone) ==
  LET n == Len(c.tuples)
      after[p \in 1 .. n + 1] ==
        IF p = n + 1 THEN c
        ELSE IF p \in gone THEN TakeCovered(after[p + 1], p) ELSE after[p + 1]
  IN after[1]

(* update_covered_testcases: the dead names leave the list.                *)
Alive(b) == { idx \in DOMAIN b.testcaseIdxToPos : b.testcaseIdxToPos[idx] > 0 }

Live(b, t) == Kept(b.coveredTestcases[t], Alive(b))

StaleHolder(b, t) ==   \* a bug: the dead names are not cleaned away first
  b.testcaseIdxToPos[Head(b.coveredTestcases[t])]

(* The place of the one row that covers t: the first live name.            *)
Holder(b, t) == b.testcaseIdxToPos[Head(Live(b, t))]

(* Those of the tuples whose one row is at q.                              *)
HeldAt(b, tuples, q) == { t \in tuples : Holder(b, t) = q }

BecomeUniqueUnweighed(b, single) ==   \* a bug: the weights are not added
  [b EXCEPT
     !.coveredTestcases = [t \in DOMAIN @ |-> IF t \in Range(single) THEN Live(b, t) ELSE @[t]],
     !.uniqueCoveredTuples =
       [q \in DOMAIN @ |-> @[q] \o Kept(single, HeldAt(b, Range(single), q))]]

(* The tuples that have one row left join that row's unique list.          *)
BecomeUnique(b, single) ==
  [b EXCEPT
     !.coveredTestcases = [t \in DOMAIN @ |-> IF t \in Range(single) THEN Live(b, t) ELSE @[t]],
     !.uniqueCoveredTuples =
       [q \in DOMAIN @ |-> @[q] \o Kept(single, HeldAt(b, Range(single), q))],
     !.sumWeight =
       [q \in DOMAIN @ |-> @[q] + WeightIn(b, HeldAt(b, Range(single), q))]]

(* What both removal and overwriting do to the row at p: its name dies,    *)
(* its tuples lose one row, and those left with none are listed.           *)
RowGone(b, p) ==
  LET mine == b.tcCoveredTuples[p]
      times == [t \in DOMAIN b.coveredTimes |->
                  b.coveredTimes[t] - (IF t \in Range(mine) THEN 1 ELSE 0)]
      left(n) == Kept(mine, { t \in Range(mine) : times[t] = n })
      counted == [b EXCEPT !.coveredTimes = times,
                           !.uncoveredTuples = @ \o left(0),
                           !.testcaseIdxToPos[b.testcasePosToIdx[p]] = 0]
      taken == TakenOut([tuples |-> b.coveredTuples, places |-> b.tuplesIdxToPos],
                        { b.tuplesIdxToPos[t] : t \in Range(left(0)) })
  IN [BecomeUnique(counted, left(1)) EXCEPT !.coveredTuples = taken.tuples,
                                            !.tuplesIdxToPos = taken.places]

(* UpdateInfo_remove_testcase of the row at p: the last row, with all that *)
(* is known of it, takes the place.  testcase_pos_to_idx does not shrink.  *)
Removed(b, p) ==
  LET gone == RowGone(b, p)
      n == Len(b.testcases)
      idx == b.testcasePosToIdx[n]
  IN [gone EXCEPT !.testcases = SwapOut(@, p),
                  !.lastGreedyTime = SwapOut(@, p),
                  !.clausesCov = SwapOut(@, p),
                  !.tcCoveredTuples = SwapOut(@, p),
                  !.uniqueCoveredTuples = SwapOut(@, p),
                  !.sumWeight = SwapOut(@, p),
                  !.testcaseIdxToPos[idx] = IF p = n THEN @ ELSE p,
                  !.testcasePosToIdx[p] = idx]

-----------------------------------------------------------------------------
(* forcetestcase.  The new row at p covers tuples that some row covers     *)
(* already: those that were one row's only leave its unique list.          *)
CoverAgain(b, p, again) ==
  LET twice == { t \in Range(again) : b.coveredTimes[t] = 1 }
      names(t) == IF t \in twice THEN Live(b, t) ELSE b.coveredTestcases[t]
  IN [b EXCEPT
        !.coveredTimes = [t \in DOMAIN @ |-> @[t] + (IF t \in Range(again) THEN 1 ELSE 0)],
        !.coveredTestcases =
          [t \in DOMAIN @ |-> IF t \in Range(again) THEN Append(names(t), b.testcaseIdx) ELSE @[t]],
        !.tcCoveredTuples[p] = @ \o again,
        !.uniqueCoveredTuples = [q \in DOMAIN @ |-> Kept(@[q], Range(@[q]) \ HeldAt(b, twice, q))],
        !.sumWeight = [q \in DOMAIN @ |-> @[q] - WeightIn(b, HeldAt(b, twice, q))]]

(* It covers tuples that no row covers.                                    *)
CoverFirst(b, p, first) ==
  [b EXCEPT
     !.tuplesIdxToPos = [t \in DOMAIN @ |-> IF t \in Range(first)
                                             THEN Len(b.coveredTuples) + PlaceIn(first, t) ELSE @[t]],
     !.coveredTuples = @ \o first,
     !.coveredTimes = [t \in DOMAIN @ |-> IF t \in Range(first) THEN 1 ELSE @[t]],
     !.tcCoveredTuples[p] = @ \o first,
     !.uniqueCoveredTuples[p] = @ \o first,
     !.coveredTestcases =
       [t \in DOMAIN @ |-> IF t \in Range(first) THEN Append(@[t], b.testcaseIdx) ELSE @[t]],
     !.sumWeight[p] = @ + WeightIn(b, Range(first))]

(* The row at p gives way to row, under a fresh name.                      *)
Overwritten(b, p, row) ==
  [b EXCEPT !.testcases[p] = row,
            !.testcaseIdx = @ + 1,
            !.testcasePosToIdx[p] = b.testcaseIdx + 1,
            !.testcaseIdxToPos = Append(@, p),
            !.tcCoveredTuples[p] = <<>>,
            !.uniqueCoveredTuples[p] = <<>>,
            !.sumWeight[p] = 0,
            !.clausesCov[p] = ClausesCov(row)]

(* The places of its tuples in uncovered_tuples are kept nowhere.          *)
Forced(b, p, row) ==
  LET written == Overwritten(RowGone(b, p), p, row)
      hit == { t \in DOMAIN b.tuplesU : Covers(row, b.tuplesU[t]) }
      again == CoverAgain(written, p, Kept(written.coveredTuples, hit))
      first == CoverFirst(again, p, Kept(again.uncoveredTuples, hit))
      places == { q \in DOMAIN first.uncoveredTuples : first.uncoveredTuples[q] \in hit }
      taken == TakenOut([tuples |-> first.uncoveredTuples, places |-> first.tuplesIdxToPos], places)
  IN [first EXCEPT !.uncoveredTuples = taken.tuples]

MarkedSame(b, p) ==   \* a bug: the step counter does not advance
  [b EXCEPT !.lastGreedyTime[p] = b.greedyLimit + 1]

(* A neighbourhood marks the row it forces as tabu, or does not: a random  *)
(* flip and backtrack_row leave the mark of the row they overwrite.        *)
Marked(b, p) ==
  [b EXCEPT !.greedyLimit = @ + 1,
            !.lastGreedyTime[p] = b.greedyLimit + 1]

Writes(b) ==
  IF b.testcaseIdx < MaxIdx
    THEN [p : DOMAIN b.testcases, row : Row, marked : BOOLEAN]
    ELSE {}

Written(b, w) ==
  LET forced == Forced(b, w.p, w.row)
  IN IF w.marked THEN Marked(forced, w.p) ELSE forced

-----------------------------------------------------------------------------
(* Binding, in the constructor and at a restart.  The threads write to     *)
(* arrays that they share without a lock; job.wrote has the places.        *)
Thread == 0 .. ThreadNum - 1

Idle == [id \in Thread |-> <<>>]

(* The counters with which threads start on n items.                       *)
AtStart(n) == [id \in Thread |-> Start(id, n, ThreadNum)]
AtEnd(n) == [id \in Thread |-> Start(id + 1, n, ThreadNum)]
Firsts(k) == [id \in Thread |-> Decode(Start(id, nCr[NumVar][k], ThreadNum), k, NumVar)]

(* The work of one phase on n items; columns only where k > 0.             *)
Phase(s, n, k, covered) ==
  [ start |-> s, at |-> AtStart(n), end |-> AtEnd(n),
    col |-> IF k = 0 THEN Idle ELSE Firsts(k),
    covered |-> covered, found |-> Idle,
    rowsOf |-> Idle, tuplesOf |-> Idle, wrote |-> [id \in Thread |-> {}] ]

CoverPhase(s) == Phase(s, nCr[NumVar][Strength - 1], Strength - 1, {})
CollectPhase(s, covered) == Phase(s, nCr[NumVar][Strength], Strength, covered)
ScanPhase(s, tuples) == Phase(s, Len(tuples), 0, {})

AtWork(id) == job.at[id] < job.end[id]
AllDone == \A id \in Thread : ~AtWork(id)

Init ==
  \E s \in Starts :
    /\ book = Cleared(s.tuples, s.rows)
    /\ job = ScanPhase(s, s.tuples)
    /\ phase = "scan"

(* restart, the first threads: for the columns and each row of the         *)
(* strength before, the bits of all tuples that the row's values begin.    *)
Signs(row, cols) == [i \in DOMAIN cols |-> row[cols[i] + 1]]

CellOf(cols, bits, last) == 2 * TupleToIndex(NumVar, cols, bits) + last

CoverColumns(id) ==
  /\ phase = "cover" /\ AtWork(id)
  /\ LET cols == job.col[id]
         bits == { <<CellOf(cols, Signs(row, cols), row[v]), v>> :
                     row \in Range(job.start.old), v \in Var }
     IN job' = [job EXCEPT !.covered = @ \cup bits,
                           !.wrote[id] = @ \cup { CellOf(cols, Signs(row, cols), last) :
                                                   row \in Range(job.start.old), last \in Bit },
                           !.at[id] = @ + 1,
                           !.col[id] = NextColumns(cols)]
  /\ UNCHANGED <<book, phase>>

Covered ==
  /\ phase = "cover" /\ AllDone
  /\ job' = CollectPhase(job.start, job.covered)
  /\ phase' = "collect"
  /\ UNCHANGED book

(* restart, the next threads: the tuples that have a bit in the bitmap and *)
(* none among those.  The signs count up from the first column.            *)
BitOf(cols, bits) ==
  LET k == Len(cols)
  IN <<CellOf(SubSeq(cols, 1, k - 1), SubSeq(bits, 1, k - 1), bits[k]), cols[k] + 1>>

TupleAt(cols, bits) ==
  [v \in { cols[i] + 1 : i \in DOMAIN cols } |-> bits[CHOOSE i \in DOMAIN cols : cols[i] + 1 = v]]

Increasing(cols) == \A i, j \in DOMAIN cols : i < j => cols[i] < cols[j]

ColumnsOf(t) ==
  CHOOSE cols \in [1 .. Strength -> 0 .. NumVar - 1] :
    Increasing(cols) /\ { cols[i] + 1 : i \in 1 .. Strength } = DOMAIN t

KnownBits(s) == { BitOf(ColumnsOf(t), Signs(t, ColumnsOf(t))) : t \in s.known }

AllSigns[k \in Nat] ==
  IF k = 0 THEN <<<<>>>>
  ELSE [j \in 1 .. Len(AllSigns[k - 1]) |-> Append(AllSigns[k - 1][j], 0)]
    \o [j \in 1 .. Len(AllSigns[k - 1]) |-> Append(AllSigns[k - 1][j], 1)]

CollectColumns(id) ==
  /\ phase = "collect" /\ AtWork(id)
  /\ LET cols == job.col[id]
         missing == { bits \in [1 .. Strength -> Bit] :
                        /\ BitOf(cols, bits) \in KnownBits(job.start)
                        /\ BitOf(cols, bits) \notin job.covered }
         mine == Kept(AllSigns[Strength], missing)
     IN job' = [job EXCEPT !.found[id] = @ \o [j \in DOMAIN mine |-> TupleAt(cols, mine[j])],
                           !.at[id] = @ + 1,
                           !.col[id] = NextColumns(cols)]
  /\ UNCHANGED <<book, phase>>

Joined(lists) ==
  LET upto[n \in 0 .. ThreadNum] == IF n = 0 THEN <<>> ELSE upto[n - 1] \o lists[n - 1]
  IN upto[ThreadNum]

Collected ==
  /\ phase = "collect" /\ AllDone
  /\ book' = Cleared(Joined(job.found), book.testcases)
  /\ job' = ScanPhase(job.start, book'.tuplesU)
  /\ phase' = "scan"

(* rebind_pos_to_idx, the threads: a tuple and all rows.                   *)
ScanTuple(id) ==
  /\ phase = "scan" /\ AtWork(id)
  /\ LET t == job.at[id] + 1
         covering == Kept(Upto(Len(book.testcases)),
                          { p \in DOMAIN book.testcases :
                              Covers(book.testcases[p], book.tuplesU[t]) })
     IN /\ book' = [book EXCEPT !.coveredTimes[t] = @ + Len(covering)]
        /\ job' = [job EXCEPT
             !.rowsOf[id] = @ \o [i \in DOMAIN covering |-> <<t, book.testcasePosToIdx[covering[i]]>>],
             !.tuplesOf[id] = @ \o [i \in DOMAIN covering |-> <<covering[i], t>>],
             !.wrote[id] = @ \cup {t},
             !.at[id] = @ + 1]
  /\ UNCHANGED phase

NoJob == Phase([tuples |-> <<>>, rows |-> <<>>, old |-> <<>>, known |-> {}], 0, 0, {})

Scanned ==
  /\ phase = "scan" /\ AllDone
  /\ book' = Bound(book, Joined(job.rowsOf), Joined(job.tuplesOf))
  /\ phase' = "step"
  /\ job' = NoJob

-----------------------------------------------------------------------------
Incomplete == phase = "step" /\ book.uncoveredTuples # <<>>

CanRemove ==
  /\ phase = "step"
  /\ book.uncoveredTuples = <<>>
  /\ book.testcases # <<>>

(* remove_testcase_greedily of the cell neighbourhood: a row whose unique  *)
(* tuples weigh least.                                                     *)
CellRemove ==
  /\ CanRemove
  /\ \E p \in DOMAIN book.testcases :
       /\ \A q \in DOMAIN book.testcases : book.sumWeight[p] <= book.sumWeight[q]
       /\ book' = Removed(book, p)
  /\ UNCHANGED <<phase, job>>

(* uptate_unique_covered: tuples that are not unique leave the list.       *)
Cleaned(b, rows) ==
  [b EXCEPT !.uniqueCoveredTuples =
     [p \in DOMAIN @ |-> IF p \in rows THEN Kept(@[p], { t \in Range(@[p]) : b.coveredTimes[t] = 1 })
                         ELSE @[p]]]

(* remove_testcase_greedily of the tuple neighbourhood: it cleans the      *)
(* unique lists up to the first empty one and takes the first shortest.    *)
TupleRemove ==
  /\ CanRemove
  /\ LET rows == DOMAIN book.testcases
         len(p) == Len(Cleaned(book, rows).uniqueCoveredTuples[p])
         best == CHOOSE p \in rows :
                   \A q \in rows : len(p) < len(q) \/ (len(p) = len(q) /\ p <= q)
         seen == IF len(best) = 0 THEN 1 .. best ELSE rows
     IN book' = Removed(Cleaned(book, seen), best)
  /\ UNCHANGED <<phase, job>>

(* gradient_descent draws one uncovered tuple to the front ...             *)
Sampled(b, k) ==
  [b EXCEPT !.uncoveredTuples[1] = b.uncoveredTuples[k],
            !.uncoveredTuples[k] = b.uncoveredTuples[1]]

ReweighedAll(b) ==   \* a bug: covered tuples are reweighed too
  [b EXCEPT !.weight = [t \in DOMAIN @ |-> @[t] + 1]]

(* ... and, when no write pays, raises the weight of all of them.          *)
Reweighed(b) ==
  [b EXCEPT !.weight =
     [t \in DOMAIN @ |-> @[t] + (IF t \in Range(b.uncoveredTuples) THEN 1 ELSE 0)]]

CanReweigh == \A t \in Range(book.uncoveredTuples) : book.weight[t] < MaxWeight

(* gradient_descent: a write that pays, or a reweighing followed by some   *)
(* write, by none, or by a random flip and then backtrack_row.             *)
CellStep ==
  /\ Incomplete
  /\ UNCHANGED job
  /\ \E k \in DOMAIN book.uncoveredTuples :
       LET drawn == Sampled(book, k)
           weighed == IF UseWeight THEN Reweighed(drawn) ELSE drawn
       IN \/ /\ \E w \in Writes(drawn) : w.marked /\ book' = Written(drawn, w)
             /\ UNCHANGED phase
          \/ /\ UseWeight => CanReweigh
             /\ \/ book' = weighed /\ phase' \in {"step", "backtrack"}
                \/ \E w \in Writes(weighed) :
                     /\ book' = Written(weighed, w)
                     /\ phase' \in (IF w.marked THEN {"step"} ELSE {"step", "backtrack"})

Backtrack ==
  /\ phase = "backtrack"
  /\ phase' = "step"
  /\ UNCHANGED job
  /\ \/ UNCHANGED book
     \/ \E w \in Writes(book) : ~w.marked /\ book' = Written(book, w)

(* random_greedy_step of the tuple neighbourhood, or its random_step.      *)
TupleStep ==
  /\ Incomplete
  /\ \E w \in Writes(book) : book' = Written(book, w)
  /\ UNCHANGED <<phase, job>>

(* restart binds the optimizer to other rows, for which it finds the       *)
(* tuples.  What the fields hold until then is read by nobody.             *)
Restart ==
  /\ Incomplete
  /\ \E s \in Starts :
       /\ book' = Cleared(<<>>, s.rows)
       /\ job' = CoverPhase(s)
  /\ phase' = "cover"

Next ==
  \/ CellRemove \/ TupleRemove \/ CellStep \/ Backtrack \/ TupleStep \/ Restart
  \/ \E id \in Thread : CoverColumns(id) \/ CollectColumns(id) \/ ScanTuple(id)
  \/ Covered \/ Collected \/ Scanned

Spec == Init /\ [][Next]_vars

-----------------------------------------------------------------------------
Ids == DOMAIN book.tuplesU
Places == DOMAIN book.testcases
RowCovers(p, t) == Covers(book.testcases[p], book.tuplesU[t])
CoveringRows(t) == { p \in Places : RowCovers(p, t) }
AloneAt(p) == { t \in Ids : CoveringRows(t) = {p} }
WeightOf(ids) == WeightIn(book, ids)

TuplesListed == book.tuplesU \in Seq(Tuple)

(* The fields of the Optimizer hold lists and maps over the tuples and     *)
(* rows there are.                                                         *)
TypeOK ==
  /\ TuplesListed
  /\ book.testcases \in Seq(Row)
  /\ book.coveredTimes \in [Ids -> Nat]
  /\ book.coveredTuples \in Seq(Ids)
  /\ book.uncoveredTuples \in Seq(Ids)
  /\ book.tuplesIdxToPos \in [Ids -> Nat]
  /\ book.testcaseIdx \in 0 .. MaxIdx
  /\ book.testcasePosToIdx \in Seq(1 .. MaxIdx)
  /\ book.testcaseIdxToPos \in Seq(Nat)
  /\ book.tcCoveredTuples \in [Places -> Seq(Ids)]
  /\ book.uniqueCoveredTuples \in [Places -> Seq(Ids)]
  /\ book.coveredTestcases \in [Ids -> Seq(1 .. MaxIdx)]
  /\ book.weight \in [Ids -> 1 .. MaxWeight]
  /\ book.sumWeight \in [Places -> Nat]
  /\ book.clausesCov \in [Places -> [Clause -> Nat]]
  /\ book.greedyLimit \in Nat
  /\ book.lastGreedyTime \in [Places -> Int]
  /\ phase \in {"cover", "collect", "scan", "step", "backtrack"}
  /\ job.at \in [Thread -> Nat] /\ \A id \in Thread : job.at[id] <= job.end[id]

AtRest == phase \in {"step", "backtrack"}

(* After any sequence of swap-removals and overwritings the counters agree *)
(* with the rows: how many rows cover a tuple, which tuples a row covers,  *)
(* how often it satisfies each clause.  So they do when the threads that   *)
(* count first have been joined.                                           *)
CountsExact == AtRest =>
  /\ \A t \in Ids : book.coveredTimes[t] = Cardinality(CoveringRows(t))
  /\ \A p \in Places :
       /\ Lists(book.tcCoveredTuples[p], { t \in Ids : RowCovers(p, t) })
       /\ book.clausesCov[p] = ClausesCov(book.testcases[p])

(* The swap-removals keep the two tuple lists a partition, and every map   *)
(* from names to places the inverse of its list; a dead name maps nowhere, *)
(* although testcase_pos_to_idx keeps the names of rows that are gone.     *)
PlacesExact ==
  /\ Lists(book.coveredTuples, { t \in Ids : CoveringRows(t) # {} })
  /\ Lists(book.uncoveredTuples, { t \in Ids : CoveringRows(t) = {} })
  /\ \A q \in DOMAIN book.coveredTuples : book.tuplesIdxToPos[book.coveredTuples[q]] = q
  /\ \A p \in Places : book.testcaseIdxToPos[book.testcasePosToIdx[p]] = p
  /\ \A idx \in DOMAIN book.testcaseIdxToPos :
       LET p == book.testcaseIdxToPos[idx]
       IN p # 0 => p \in Places /\ book.testcasePosToIdx[p] = idx

(* A unique list names exactly the tuples that its row covers alone, so a  *)
(* clean-up of it (uptate_unique_covered) never has anything to clean; and *)
(* the live names in a tuple's own lazily cleaned list are those of the    *)
(* rows that cover it, so that its front is one of them.                   *)
UniqueExact == AtRest =>
  /\ \A p \in Places : Lists(book.uniqueCoveredTuples[p], AloneAt(p))
  /\ \A t \in Ids : Lists(Live(book, t), { book.testcasePosToIdx[p] : p \in CoveringRows(t) })

(* What the cell neighbourhood compares rows by is the weight of the       *)
(* tuples that would be lost with them: reweighing never touches a tuple   *)
(* that counts in some sum.                                                *)
WeightsExact ==
  AtRest => \A p \in Places : book.sumWeight[p] = WeightOf(AloneAt(p))

(* The tabu marks of two rows differ, whatever rows were swapped since:    *)
(* this is what bounds the number of rows that are tabu at a time.         *)
MarksDistinct ==
  \A p, q \in Places :
    p # q /\ book.lastGreedyTime[p] > 0 => book.lastGreedyTime[p] # book.lastGreedyTime[q]

(* Threads that share an array write to different places of it, in every   *)
(* phase and whatever their speed; and the tuples that the threads of a    *)
(* restart find together are, each once, those that the bitmap knows and   *)
(* the rows of the strength before leave out: no combination of columns is *)
(* skipped or done twice, and no two tuples share a place in the bitmaps.  *)
ScanExact ==
  /\ \A i, j \in Thread : i # j => job.wrote[i] \cap job.wrote[j] = {}
  /\ phase = "scan" =>
       Lists(book.tuplesU, { t \in job.start.known : ~CoveredBy(job.start.old, t) })

Abstract == INSTANCE Coverage WITH
  testcases <- book.testcases,
  tuplesU <- Range(book.tuplesU),
  uncovered <- { book.tuplesU[t] : t \in Range(book.uncoveredTuples) }

(* The lists and counters implement the coverage sets of the abstract      *)
(* bookkeeping that Search is built on.                                    *)
ImplementsCoverage == Abstract!CoverageSpec

=============================================================================
