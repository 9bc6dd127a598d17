------------------------------- MODULE Expand -------------------------------
(***************************************************************************)
(* The Expandor: from an array of strength InitStrength to one of strength *)
(* Strength, one strength at a time (main, Expandor::Expand and Optimize). *)
(*                                                                         *)
(* Expand lists the valid tuples that the array leaves uncovered, adds the *)
(* best of a set of sampled candidate rows as long as one seems to cover   *)
(* something, and covers the rest tuple by tuple (ReplenishTestCase).      *)
(* Optimize is present by what AnytimeArray promises of it: any complete   *)
(* array that is no larger.                                                *)
(*                                                                         *)
(* The sampling solver is external: it returns some valid row that agrees  *)
(* with its assumptions.  So is the validator, which knows exactly the     *)
(* tuples that a valid row covers.                                         *)
(***************************************************************************)
EXTENDS Formula, SequencesExt

CONSTANTS
  InitStrength,     \* generation.init_strength
  Arrays,           \* the arrays of that strength to begin with
  SortedClause,     \* the clauses whose literals the CNF lists by variable
  CandidateSetSize, \* expansion.candidate_set_size
  Sampled,          \* bound: the rows that sampling without assumptions yields
  Returned(_, _)    \* bound: the pairs of old and new rows among which the Optimizer
                    \* finds its own, given the old and the new rows; it may be all

N == CandidateSetSize

ASSUME ExpandAssumption ==
  /\ InitStrength \in 2 .. Strength
  /\ Arrays \subseteq Seq(ValidRows)
  /\ SortedClause \subseteq Clause
  /\ N \in Nat \ {0}
  /\ Sampled \subseteq ValidRows /\ Sampled # {}

VARIABLES
  strength,         \* strength
  oldRows,          \* old_testcase
  newRows,          \* new_testcase
  bitmap,           \* covered_now_strength_bitmap
  uncovered,        \* uncovered_tuples
  tuplesU,          \* tuples_U
  uncoveredNums,    \* uncovered_nums
  countVar,         \* count_each_var_uncovered, by sign and variable
  candidates,       \* candidate_testcase_set_
  gain,             \* gain: pairs of a score and a place in candidates
  pc                \* what the main thread does next

oldVars == <<strength, oldRows, tuplesU>>
listVars == <<bitmap, uncovered, uncoveredNums, countVar>>
cacheVars == <<candidates, gain>>
vars == <<strength, oldRows, newRows, bitmap, uncovered, tuplesU, uncoveredNums,
          countVar, candidates, gain, pc>>

rows == oldRows \o newRows

(* By strength: the tuples of the form that is listed, and the valid ones. *)
ListedOf == [k \in InitStrength .. Strength |-> { t \in TuplesOf(k) : Listed(t) }]
TrackedOf == [k \in InitStrength .. Strength |-> { t \in TuplesOf(k) : Tracked(t) }]
ValidOf ==
  [k \in InitStrength .. Strength |-> { t \in TuplesOf(k) : Extendable(t) }]

(* The tuples that a row covers, and those that some row of an array does. *)
CoverOf ==
  [k \in InitStrength .. Strength |->
     [row \in ValidRows |-> { t \in TuplesOf(k) : Covers(row, t) }]]

CoverIn(k, array) == UNION { CoverOf[k][array[i]] : i \in DOMAIN array }

(* The array to begin with is one of InitStrength.                         *)
ASSUME ArraysComplete ==
  \A array \in Arrays :
    ListedOf[InitStrength] \cap ValidOf[InitStrength] \subseteq CoverIn(InitStrength, array)

(* The tuples of a strength whose bit Expand sets for the rows: all that   *)
(* the array covers in the constructor if it is of strength 2.             *)
BitsListed(k, array) ==   \* a bug: the last literal is restricted as well
  ListedOf[k] \cap CoverIn(k, array)

BitsOf(k, array) == TrackedOf[k] \cap CoverIn(k, array)
FirstBitsOf(k, array) ==
  IF k > 2 THEN BitsOf(k, array) ELSE CoverIn(k, array)

(* How many of the tuples have the literal.                                *)
CountVar(tuples) ==
  [b \in Bit |-> [v \in Var |-> Cardinality({ t \in tuples : v \in DOMAIN t /\ t[v] = b })]]

NoCandidate == [i \in 1 .. 2 * N |-> <<>>]
NoGain == [i \in 1 .. 2 * N |-> <<0, 1>>]

Init ==
  /\ strength = InitStrength
  /\ oldRows = <<>>
  /\ newRows \in Arrays
  /\ bitmap = FirstBitsOf(strength, newRows)
  /\ uncovered = {}
  /\ tuplesU = {}
  /\ uncoveredNums = 0
  /\ countVar = CountVar({})
  /\ candidates = NoCandidate
  /\ gain = NoGain
  /\ pc = "main"

-----------------------------------------------------------------------------
(* A tuple is dismissed without asking the validator if leaving out one of *)
(* its columns gives a tuple that no row of the lower strength covered ... *)
PartInvalid(t, lower) ==
  \E v \in DOMAIN t : [w \in DOMAIN t \ {v} |-> t[w]] \notin lower

(* ... or if it contradicts every literal of a clause of its length, which *)
(* is seen only if both list their variables in the same order.            *)
ClauseInvalid(t) ==
  \E c \in SortedClause : DOMAIN c = DOMAIN t /\ \A v \in DOMAIN t : t[v] # c[v]

RemainingUnchecked(k, bits, lower) ==   \* a bug: the validator is not asked
  { t \in ListedOf[k] \ bits : ~PartInvalid(t, lower) /\ ~ClauseInvalid(t) }

Remaining(k, bits, lower) ==
  { t \in ListedOf[k] \ bits :
      ~PartInvalid(t, lower) /\ ~ClauseInvalid(t) /\ t \in ValidOf[k] }

(* Expand, up to the generation of rows.                                   *)
Enumerate ==
  /\ pc = "main"
  /\ strength < Strength
  /\ strength' = strength + 1
  /\ oldRows' = rows
  /\ newRows' = <<>>
  /\ bitmap' = BitsOf(strength', oldRows')
  /\ uncovered' = Remaining(strength', bitmap', bitmap)
  /\ tuplesU' = uncovered'
  /\ uncoveredNums' = Cardinality(uncovered')
  /\ countVar' = CountVar(uncovered')
  /\ \E first \in [1 .. N -> Sampled] :
       candidates' = [i \in 1 .. 2 * N |-> IF i <= N THEN first[i] ELSE candidates[i]]
  /\ pc' = "greedy"
  /\ UNCHANGED gain

-----------------------------------------------------------------------------
(* get_gain *)
Score(row) == Cardinality(uncovered \cap CoverOf[strength][row])

ByGain(g, h) == g[1] < h[1] \/ (g[1] = h[1] /\ g[2] < h[2])

(* The upper half of gain is scored anew; the lower half is what the last  *)
(* sorting left there.                                                     *)
UnsortedKept(sample) ==   \* a bug: candidates are kept with their old gains
  [i \in 1 .. 2 * N |-> IF i <= N THEN gain[N + i] ELSE <<Score(sample[i - N]), i>>]

Unsorted(sample) ==
  [i \in 1 .. 2 * N |-> IF i <= N THEN gain[i] ELSE <<Score(sample[i - N]), i>>]

(* std::sort: the same pairs in ascending order.                           *)
Orders == Bijection(1 .. 2 * N, 1 .. 2 * N)

Sortings(pairs) ==
  { sorted \in { [i \in 1 .. 2 * N |-> pairs[order[i]]] : order \in Orders } :
      \A i, j \in 1 .. 2 * N : i < j => ~ByGain(sorted[j], sorted[i]) }

(* A row is added: what it covers leaves the list and enters the bitmap.   *)
UncountOpposite(count, tuples) ==   \* a bug: the other sign is counted off
  [b \in Bit |-> [v \in Var |-> count[b][v] - CountVar(tuples)[1 - b][v]]]

Uncount(count, tuples) ==
  LET gone == CountVar(tuples)
  IN [b \in Bit |-> [v \in Var |-> count[b][v] - gone[b][v]]]

AddRowUnmarked(row) ==   \* a bug: the bits are not set
  LET covered == uncovered \cap CoverOf[strength][row]
  IN /\ newRows' = Append(newRows, row)
     /\ uncovered' = uncovered \ covered
     /\ uncoveredNums' = Cardinality(uncovered')
     /\ countVar' = Uncount(countVar, covered)
     /\ UNCHANGED bitmap

AddRow(row) ==
  LET covered == uncovered \cap CoverOf[strength][row]
  IN /\ newRows' = Append(newRows, row)
     /\ uncovered' = uncovered \ covered
     /\ uncoveredNums' = Cardinality(uncovered')
     /\ countVar' = Uncount(countVar, covered)
     /\ bitmap' = bitmap \cup covered

(* GenerateTestcase and one turn of the loop of GenerateCoveringArray: the *)
(* candidates of the upper half are drawn, all are sorted by their gains,  *)
(* the better half is kept, and the best is added.                         *)
Greedy ==
  /\ pc = "greedy"
  /\ \E sample \in [1 .. N -> Sampled] : \E sorted \in Sortings(Unsorted(sample)) :
       LET all == [i \in 1 .. 2 * N |-> IF i <= N THEN candidates[i] ELSE sample[i - N]]
           kept == [i \in 1 .. 2 * N |-> IF i <= N THEN all[sorted[N + i][2]] ELSE all[i]]
       IN /\ gain' = sorted
          /\ IF sorted[2 * N][1] <= 0
               THEN /\ candidates' = all
                    /\ pc' = "replenish"
                    /\ UNCHANGED <<newRows, listVars>>
               ELSE /\ candidates' = kept
                    /\ AddRow(kept[N])
                    /\ pc' = pc
  /\ UNCHANGED oldVars

(* The tuples of the list that have no bit by now.                         *)
OpenAll == uncovered   \* a bug: the bits are not looked at

Open == uncovered \ bitmap

(* ReplenishTestCase, one tuple of the shuffled list: a tuple that has its *)
(* bit by now is passed over.                                              *)
Replenish ==
  /\ pc = "replenish"
  /\ uncoveredNums > 0
  /\ \E t \in Open, row \in ValidRows :
       /\ Covers(row, t)
       /\ LET covered == Open \cap CoverOf[strength][row]
          IN /\ uncoveredNums' = uncoveredNums - Cardinality(covered)
             /\ countVar' = Uncount(countVar, covered)
             /\ bitmap' = bitmap \cup covered
       /\ newRows' = Append(newRows, row)
  /\ UNCHANGED <<oldVars, uncovered, cacheVars, pc>>

ReplenishedEarly ==   \* a bug: the last tuple is left out
  /\ pc = "replenish"
  /\ uncoveredNums <= 1
  /\ pc' = "optimize"
  /\ UNCHANGED <<oldVars, newRows, listVars, cacheVars>>

ReplenishedEmpty ==   \* a bug: waits for the list to become empty
  /\ pc = "replenish"
  /\ uncovered = {}
  /\ pc' = "optimize"
  /\ UNCHANGED <<oldVars, newRows, listVars, cacheVars>>

Replenished ==
  /\ pc = "replenish"
  /\ uncoveredNums <= 0 \/ Open = {}
  /\ pc' = "optimize"
  /\ UNCHANGED <<oldVars, newRows, listVars, cacheVars>>

-----------------------------------------------------------------------------
(* There is nothing new to optimize, or the stop flag is set.              *)
LeaveAsIs ==
  /\ pc = "optimize"
  /\ pc' = "main"
  /\ UNCHANGED <<oldVars, newRows, listVars, cacheVars>>

(* What the Optimizer may hand back, by what AnytimeArray promises: any     *)
(* rows, however divided into old and new ones, that cover what the bitmap  *)
(* has and are no more than before.                                        *)
KeepsCoverage(old, new) ==
  /\ old \in Seq(ValidRows) /\ new \in Seq(ValidRows)
  /\ Len(old \o new) <= Len(rows)
  /\ bitmap \subseteq CoverIn(strength, old \o new)

Optimize ==
  /\ pc = "optimize"
  /\ newRows # <<>>
  /\ \E back \in Returned(oldRows, newRows) :
       /\ KeepsCoverage(back[1], back[2])
       /\ oldRows' = back[1]
       /\ newRows' = back[2]
  /\ tuplesU' = {}
  /\ pc' = "main"
  /\ UNCHANGED <<strength, listVars, cacheVars>>

(* The loop of main: GetFinalCA after the last strength, an exit without   *)
(* an array if the stop flag is seen before.                               *)
Finish ==
  /\ pc = "main"
  /\ pc' = IF strength = Strength THEN "done" ELSE "stopped"
  /\ UNCHANGED <<oldVars, newRows, listVars, cacheVars>>

Next == Enumerate \/ Greedy \/ Replenish \/ Replenished \/ LeaveAsIs \/ Optimize \/ Finish

Spec == Init /\ [][Next]_vars /\ WF_vars(Next)

-----------------------------------------------------------------------------
(* Every field of the Expandor holds a value of its type; nothing is drawn *)
(* from, and no counter is below zero.                                     *)
TypeOK ==
  /\ strength \in InitStrength .. Strength
  /\ oldRows \in Seq(ValidRows)
  /\ newRows \in Seq(ValidRows)
  /\ \A t \in bitmap : Cardinality(DOMAIN t) = strength
  /\ uncovered \subseteq ListedOf[strength]
  /\ tuplesU \subseteq ListedOf[strength]
  /\ uncoveredNums \in Nat
  /\ countVar \in [Bit -> [Var -> Nat]]
  /\ DOMAIN candidates = 1 .. 2 * N
  /\ gain \in [1 .. 2 * N -> Nat \X (1 .. 2 * N)]
  /\ pc \in {"main", "greedy", "replenish", "optimize", "done", "stopped"}

(* The valid tuples of the listed form that the array still leaves out.    *)
Missing == (ListedOf[strength] \cap ValidOf[strength]) \ CoverIn(strength, rows)

(* While rows are generated, what Expand believes to be uncovered is what  *)
(* the array really leaves uncovered: the shortcuts check_part_invalid and *)
(* check_clauses_invalid, which do not ask the solver, drop no valid       *)
(* tuple, and the two phases, which mark progress in different places      *)
(* (uncovered_tuples first, then only the bitmap), lose none either.       *)
UncoveredExact ==
  pc \in {"greedy", "replenish"} => uncovered \ bitmap = Missing

(* The bitmap is exact for the tuples of the listed form, at every         *)
(* strength and also after an optimization moved the rows: the next        *)
(* strength takes a missing bit for a proof of invalidity.                 *)
BitmapExact ==
  { t \in bitmap : Listed(t) } = ListedOf[strength] \cap CoverIn(strength, rows)

(* The number of uncovered tuples, which ends ReplenishTestCase, and the   *)
(* counts by literal, which weight the sampling, follow the tuples that    *)
(* are open, none of them counted off twice.                               *)
CountersExact ==
  pc \in {"greedy", "replenish", "optimize"}
    => /\ uncoveredNums = Cardinality(uncovered \ bitmap)
       /\ countVar = CountVar(uncovered \ bitmap)

RowAdded == Len(newRows') > Len(newRows) /\ pc \in {"greedy", "replenish"}

(* A row is added only if it covers a tuple that the array leaves out,     *)
(* although half of the gains that select it are old and point to places   *)
(* whose candidates have changed since.                                    *)
RowsEarnTheirPlace ==
  [][RowAdded => (\E t \in Missing : Covers(Last(newRows'), t))]_vars

(* A model whose groups are alternatives, one of which every valid row     *)
(* takes, and that has as many parameters as a tuple: any of the columns   *)
(* that a row sets can be completed by others.                             *)
GroupsExclusive ==
  \A row \in ValidRows, g \in Group : \E v \in g : \A w \in g : row[w] = 1 <=> w = v

EnoughColumns ==
  \A row \in ValidRows, k \in InitStrength .. Strength, cols \in SUBSET Var :
    GroupsPositive(row, cols) /\ Cardinality(cols) <= k
      => \E more \in kSubset(k, Var) : cols \subseteq more /\ GroupsPositive(row, more)

(* What leaves Expand is a covering array: every tuple of the strength     *)
(* that some valid row covers is covered, also those that are never        *)
(* listed because they name a member of a group that is not set.           *)
CompleteAtEnd ==
  pc \in {"optimize", "main", "done"}
    => ValidOf[strength] \subseteq CoverIn(strength, rows)

(* What Expand hands to the Optimizer is the state that Search starts      *)
(* from: the bits tracked for the old rows and those listed for the new    *)
(* ones, and tuples_U the listed tuples that only the new rows cover.      *)
HandsOver ==
  pc = "optimize"
    => /\ tuplesU = (ListedOf[strength] \cap CoverIn(strength, newRows))
                      \ CoverIn(strength, oldRows)
       /\ bitmap = (TrackedOf[strength] \cap CoverIn(strength, oldRows))
                     \cup (ListedOf[strength] \cap CoverIn(strength, newRows))

(* Row generation ends: the greedy loop is not kept alive by gains that    *)
(* are out of date, and ReplenishTestCase finds a way out of its list,     *)
(* which it never shortens.                                                *)
Terminates == <>(pc \in {"done", "stopped"})

(* The row selected by the number of tuples it covers is the best of the   *)
(* cached and the new candidates.  It does not hold: the cached half is    *)
(* never scored.                                                           *)
BestIsSelected ==
  [][RowAdded /\ pc = "greedy"
       => (\A i \in 1 .. N : Score(candidates[i]) <= Score(Last(newRows')))]_vars

=============================================================================
