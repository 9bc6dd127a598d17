----------------------------- MODULE SamplingCA -----------------------------
(***************************************************************************)
(* CDCLCASampler: a covering array of strength t_wise from nothing.  In a  *)
(* loop the sampler draws candidate rows, the best of them and of those    *)
(* left from earlier rounds is added, until the best one covers nothing    *)
(* new; then every tuple that is still uncovered is given to a solver, and *)
(* the rows it finds are added where they are still needed.                *)
(*                                                                         *)
(* Tuples are known by their places in a bit set; see TupleMap.  Both      *)
(* solvers are what Oracle says.  The candidates that local search would   *)
(* contribute (part_for_sls) are valid rows like the others, and none with *)
(* the parameters the program sets.                                        *)
(***************************************************************************)
EXTENDS TupleMap, FiniteSets, SequencesExt

CONSTANTS
  Files,            \* the files: a number of variables and a sequence of clauses
  Strengths,        \* the values of t_wise
  UpperLimits,      \* the values of upperlimit; 0: none
  CandidateSetSize  \* candidate_set_size

ASSUME SamplingAssumption ==
  /\ \A f \in Files : /\ f.vars \in Nat \ {0}
                      /\ f.clauses \in Seq(Seq((-f.vars .. f.vars) \ {0}))
  /\ Strengths \subseteq 2 .. 6
  /\ \A f \in Files, t \in Strengths : t <= f.vars
  /\ UpperLimits \subseteq Nat
  /\ CandidateSetSize \in Nat \ {0}

VARIABLES
  pc,               \* where GenerateCoveringArray is
  file, t_wise, upperlimit,
  as_backbone,      \* for a variable, the value a unit clause gives it, or -1
  testcase_set,
  num_generated,    \* num_generated_testcase
  already,          \* already_t_wise
  num_tuple,
  appearance,       \* var_positive_appearance_count
  pq,               \* candidates with the places they would newly cover
  selected,         \* selected_candidate_bitset
  exact,            \* num_tuple_all_exact
  pending,          \* uncovered tuples find_uncovered_tuples_pre will come to
  uncovered,        \* uncovered_tuples
  solutions         \* uncovered_possible_solutions

given == <<file, t_wise, upperlimit, as_backbone>>
loopVars == <<num_generated, already, num_tuple>>
finalVars == <<exact, pending, uncovered, solutions>>
vars == <<pc, given, testcase_set, loopVars, appearance, pq, selected, finalVars>>

-----------------------------------------------------------------------------
Makes(row, l) == IF l > 0 THEN row[l] = 1 ELSE row[-l] = 0

ModelsOf ==
  [f \in Files |-> { row \in [1 .. f.vars -> {0, 1}] :
                      \A k \in DOMAIN f.clauses : \E l \in Range(f.clauses[k]) : Makes(row, l) }]

Models == ModelsOf[file]

(* The places of a row's tuples.                                           *)
PlacesOf ==
  [f \in Files |-> [t \in Strengths |-> [row \in ModelsOf[f] |->
     { MapIndex(f.vars, cols, [k \in DOMAIN cols |-> row[cols[k] + 1]]) :
         cols \in Combinations(t, f.vars) }]]]

Places(row) == PlacesOf[file][t_wise][row]

get_gain(row) == Places(row) \ already

(* GetXTupleMapIndex; a tuple is a sequence of literals.                   *)
VarOf(l) == IF l < 0 THEN -l ELSE l

PlaceOf(tuple) ==
  MapIndex(file.vars, [k \in DOMAIN tuple |-> VarOf(tuple[k]) - 1],
           [k \in DOMAIN tuple |-> IF tuple[k] > 0 THEN 1 ELSE 0])

-----------------------------------------------------------------------------
(* read_cnf: of several unit clauses on a variable the last one counts.    *)
Backbone(f) ==
  [v \in 1 .. f.vars |->
     LET units == { k \in DOMAIN f.clauses : f.clauses[k] \in {<<v>>, <<-v>>} }
     IN IF units = {} THEN -1 ELSE IF f.clauses[Max(units)] = <<v>> THEN 1 ELSE 0]

(* Init and GenerateInitTestcaseCDCL.                                      *)
Init ==
  /\ file \in Files
  /\ t_wise \in Strengths
  /\ upperlimit \in UpperLimits
  /\ as_backbone = Backbone(file)
  /\ \E row \in Models : testcase_set = <<row>>
  /\ num_generated = 1
  /\ already = {} /\ num_tuple = 0
  /\ appearance = [v \in 1 .. file.vars |-> 0]
  /\ pq = EmptyBag /\ selected = {}
  /\ exact = 0 /\ pending = {} /\ uncovered = <<>> /\ solutions = <<>>
  /\ pc = "update"

(* Update2TupleInfo to Update6TupleInfo.                                   *)
UpdateTupleInfo ==
  LET places == Places(testcase_set'[num_generated'])
  IN /\ already' = already \cup places
     /\ num_tuple' = num_tuple + Cardinality(places \ already)

(* clear_pq: what was covered by the row that was selected no longer       *)
(* counts; of the others the best stay.  pq is sorted; here it is a bag.   *)
ReducedNot == pq

Reduced == BagOfAll(LAMBDA c : [c EXCEPT !.gain = @ \ selected], pq)

Useful == [c \in { d \in BagToSet(Reduced) : d.gain # {} } |-> Reduced[c]]

Best(q) ==
  { r \in UNION { [d -> 1 .. BagCardinality(q)] : d \in SUBSET BagToSet(q) } :
      /\ r \sqsubseteq q
      /\ BagCardinality(r) = Min({CandidateSetSize, BagCardinality(q)})
      /\ \A c \in BagToSet(r), d \in BagToSet(q (-) r) :
           Cardinality(c.gain) >= Cardinality(d.gain) }

clear_pq == pq' \in IF num_generated = 1 THEN {pq} ELSE Best(Useful)

(* The head of the loop.                                                   *)
Update ==
  /\ pc = "update"
  /\ UNCHANGED <<given, testcase_set, num_generated, selected, finalVars>>
  /\ UpdateTupleInfo
  /\ IF upperlimit # 0 /\ num_tuple' = upperlimit
     THEN pc' = "final" /\ UNCHANGED <<pq, appearance>>
     ELSE /\ clear_pq
          /\ appearance' = [v \in DOMAIN appearance |->
                              appearance[v] + testcase_set[num_generated][v]]
          /\ pc' = "generate"

(* get_prob_in, not init: zeros and ones of the rows so far.               *)
SampleProb == [v \in DOMAIN appearance |-> <<num_generated - appearance[v], appearance[v]>>]

(* GenerateTestcase: one of the best is selected.                          *)
Candidate(row) == [row |-> row, gain |-> get_gain(row)]

Generate ==
  /\ pc = "generate"
  /\ \E drawn \in [1 .. CandidateSetSize -> Models] :
       pq' = pq (+) BagOfAll(Candidate, ToBag(drawn))
  /\ \E c \in BagToSet(pq') :
       /\ \A d \in BagToSet(pq') : Cardinality(d.gain) <= Cardinality(c.gain)
       /\ selected' = c.gain
       /\ testcase_set' = IF selected' = {} THEN testcase_set ELSE Append(testcase_set, c.row)
  /\ IF selected' = {} THEN pc' = "final" /\ num_generated' = num_generated
                       ELSE pc' = "update" /\ num_generated' = num_generated + 1
  /\ UNCHANGED <<given, already, num_tuple, appearance, finalVars>>

-----------------------------------------------------------------------------
(* clear_final.  find_uncovered_tuples_pre goes through columns and values *)
(* and does not descend where a value contradicts the backbone: what would *)
(* lie below is counted off at once.                                       *)
Contradicts(l) == as_backbone[VarOf(l)] = (IF l > 0 THEN 0 ELSE 1)

TuplesOfSize(k) ==
  { [i \in 1 .. k |-> (cols[i] + 1) * sign[i]] :
      cols \in Combinations(k, file.vars), sign \in [1 .. k -> {-1, 1}] }

Cut(k) ==
  { p \in TuplesOfSize(k) : /\ VarOf(p[k]) <= file.vars - t_wise + k
                        /\ Contradicts(p[k])
                        /\ \A i \in 1 .. k - 1 : ~Contradicts(p[i]) }

WaysOfOne(j, i) == IF j <= 1 THEN 1 ELSE combnum[j][i]

Ways(j, i) == CASE j = 0 -> 1 [] j = 1 -> i [] OTHER -> combnum[j][i]

PowerOfTwo[k \in Nat] == IF k = 0 THEN 1 ELSE 2 * PowerOfTwo[k - 1]

Below(p) == Ways(t_wise - Len(p), file.vars - VarOf(p[Len(p)])) * PowerOfTwo[t_wise - Len(p)]

CountedOff == SumFunction([p \in UNION { Cut(k) : k \in 1 .. t_wise } |-> Below(p)])

Earlier(p, q) ==
  \E k \in DOMAIN p : /\ SubSeq(p, 1, k - 1) = SubSeq(q, 1, k - 1)
                      /\ \/ VarOf(p[k]) < VarOf(q[k])
                         \/ p[k] = -q[k] /\ p[k] < 0

Final ==
  /\ pc = "final"
  /\ exact' = combnum[t_wise][file.vars] * PowerOfTwo[t_wise] - CountedOff
  /\ pending' = { p \in TuplesOfSize(t_wise) : /\ \A k \in DOMAIN p : ~Contradicts(p[k])
                                               /\ PlaceOf(p) \notin already }
  /\ pc' = "find"
  /\ UNCHANGED <<given, testcase_set, loopVars, appearance, pq, selected, uncovered, solutions>>

(* One tuple that is not covered: it is given to the solver.               *)
SolutionsWith(p) == { row \in Models : \A k \in DOMAIN p : Makes(row, p[k]) }

First == CHOOSE p \in pending : \A q \in pending \ {p} : Earlier(p, q)

Find ==
  /\ pc = "find" /\ pending # {}
  /\ pending' = pending \ {First}
  /\ \/ /\ SolutionsWith(First) = {}
        /\ exact' = exact - 1
        /\ UNCHANGED <<uncovered, solutions>>
     \/ /\ \E row \in SolutionsWith(First) : solutions' = Append(solutions, row)
        /\ uncovered' = Append(uncovered, First)
        /\ UNCHANGED exact
  /\ UNCHANGED <<pc, given, testcase_set, loopVars, appearance, pq, selected>>

ChooseAll ==
  /\ pc = "find" /\ pending = {} /\ uncovered # <<>>
  /\ uncovered' = Tail(uncovered)
  /\ solutions' = Tail(solutions)
  /\ testcase_set' = Append(testcase_set, Head(solutions))
  /\ num_generated' = num_generated + 1
  /\ UpdateTupleInfo
  /\ UNCHANGED <<pc, given, appearance, pq, selected, exact, pending>>

ChooseStuck ==
  /\ pc = "find" /\ pending = {} /\ uncovered # <<>>
  /\ PlaceOf(Head(uncovered)) \notin already
  /\ uncovered' = Tail(uncovered)
  /\ solutions' = Tail(solutions)
  /\ testcase_set' = Append(testcase_set, Head(solutions))
  /\ num_generated' = num_generated + 1
  /\ UpdateTupleInfo
  /\ UNCHANGED <<pc, given, appearance, pq, selected, exact, pending>>

(* choose_final_plain: the solutions in turn, but for those whose tuple    *)
(* one before has covered.                                                 *)
Choose ==
  /\ pc = "find" /\ pending = {} /\ uncovered # <<>>
  /\ uncovered' = Tail(uncovered)
  /\ solutions' = Tail(solutions)
  /\ IF PlaceOf(Head(uncovered)) \in already THEN UNCHANGED <<testcase_set, loopVars>>
     ELSE /\ testcase_set' = Append(testcase_set, Head(solutions))
          /\ num_generated' = num_generated + 1
          /\ UpdateTupleInfo
  /\ UNCHANGED <<pc, given, appearance, pq, selected, exact, pending>>

Done ==
  /\ pc = "find" /\ pending = {} /\ uncovered = <<>>
  /\ pc' = "done"
  /\ UNCHANGED <<given, testcase_set, loopVars, appearance, pq, selected, finalVars>>

Next == Update \/ Generate \/ Final \/ Find \/ Choose \/ Done

Spec == Init /\ [][Next]_vars /\ WF_vars(Next)

-----------------------------------------------------------------------------
(* The counter, the bit set, the sampling counts and the gains of the      *)
(* candidates, which are all kept by increments, agree with the rows: no   *)
(* tuple is counted twice or lost when it comes again, nor a leftover      *)
(* taken for better than it still is.                                      *)
Counted == IF pc = "update" THEN num_generated - 1 ELSE num_generated

CountsExact ==
  /\ already = UNION { Places(testcase_set[k]) : k \in 1 .. Counted }
  /\ num_tuple = Cardinality(already)
  /\ num_generated = Len(testcase_set)
  /\ pc = "generate" =>
       /\ \A c \in BagToSet(pq) : c.gain = get_gain(c.row)
       /\ \A v \in DOMAIN appearance :
            SampleProb[v] = << Cardinality({ k \in 1 .. num_generated : testcase_set[k][v] = 0 }),
                               Cardinality({ k \in 1 .. num_generated : testcase_set[k][v] = 1 }) >>

(* No row is added in vain, in the loop or at the end.                     *)
RowsEarnTheirPlace ==
  [][Len(testcase_set') > Len(testcase_set) =>
       ~(Places(testcase_set'[Len(testcase_set')])
           \subseteq UNION { Places(testcase_set[k]) : k \in DOMAIN testcase_set })]_vars

(* At the end exactly the valid tuples are covered, each at a place of its *)
(* own, and the coverage that is reported, num_tuple by exact, is 1: what  *)
(* the backbone and the solver count off together are the invalid tuples.  *)
Valid == { p \in TuplesOfSize(t_wise) : SolutionsWith(p) # {} }

CompleteAtEnd ==
  pc = "done" =>
    /\ already = { PlaceOf(p) : p \in Valid }
    /\ num_tuple = exact
    /\ exact = Cardinality(Valid)
    /\ Range(testcase_set) \subseteq Models

(* The generator comes to an end.                                          *)
Ends == <>(pc = "done")

=============================================================================
