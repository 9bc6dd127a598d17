------------------------------ MODULE PbFields ------------------------------
(***************************************************************************)
(* The fields of PbOCCSATSolver during a try and what init, flip, update   *)
(* and the clause weighting schemes do to them.  The fields are a record   *)
(* s; each operator is the fields after the call of the same name.         *)
(***************************************************************************)
EXTENDS PbInstance, SwapStack

CONSTANTS
  WeightThreshold,      \* para_clause_weight_threshold_swt (300)
  PScale,               \* para_p_scale_swt as <<num, den>> (0.3); q is 0
  LargeCountThreshold,  \* large_clause_weight_count_threshold (10)
  Unit                  \* the priority 1.0, divisible by the clause lengths

ASSUME PbFieldsAssumption ==
  /\ WeightThreshold \in Nat \ {0}
  /\ PScale \in Nat \X (Nat \ {0})
  /\ LargeCountThreshold \in Nat
  /\ Unit \in Nat \ {0}
  /\ \A file \in Files : \A k \in DOMAIN file.clauses : Unit % (2 * Len(file.clauses[k])) = 0

-----------------------------------------------------------------------------
Plus(f, S, d) == [x \in DOMAIN f |-> IF x \in S THEN f[x] + d ELSE f[x]]

(* The literals of c that soln makes true, their variables, and these in   *)
(* the clause's order.                                                     *)
TrueLits(s, c) == { l \in Range(ClauseLit[c]) : s.soln[VarOf(l)] = Sense(l) }

TrueVars(s, c) == { VarOf(l) : l \in TrueLits(s, c) }

TrueSeq(s, c) == VarsIn(Only(ClauseLit[c], TrueLits(s, c)))

(* What init and flip count, apart from the other fields: r is this part   *)
(* of them while one of the two is at work.                                *)
Counts(s) ==
  [ satCount |-> s.satCount, satVar |-> s.satVar, unsat |-> s.unsat,
    totalUnsat |-> s.totalUnsat, app |-> s.app, unsatVar |-> s.unsatVar ]

WithCounts(s, r) ==
  [s EXCEPT !.satCount = r.satCount, !.satVar = r.satVar, !.unsat = r.unsat,
            !.totalUnsat = r.totalUnsat, !.app = r.app, !.unsatVar = r.unsatVar]

(* update_unsatvar_related_in_unsat_function and _in_sat_function: how     *)
(* many unsatisfied clauses name v, and the stack of the variables of      *)
(* which some does.                                                        *)
NameUnsat(r, v) ==
  [r EXCEPT !.app[v] = @ + 1,
            !.unsatVar = IF r.app[v] = 0 THEN Pushed(@, v) ELSE @]

NameSat(r, v) ==
  [r EXCEPT !.app[v] = @ - 1,
            !.unsatVar = IF r.app[v] = 1 THEN Taken(@, v) ELSE @]

(* unsat and sat, of a clause of that weight.                              *)
Unsat(r, c, weight) ==
  Loop(NameUnsat, [r EXCEPT !.unsat = Pushed(@, c), !.totalUnsat = @ + weight], VarsOfClause(c))

Sat(r, c, weight) ==
  Loop(NameSat, [r EXCEPT !.unsat = Taken(@, c), !.totalUnsat = @ - weight], VarsOfClause(c))

(* Mutant: the one literal left true is not looked up.                     *)
FlipOccurrenceStale(s, v, r, o) ==
  LET c == o.clause
      n == r.satCount[c]
  IN IF s.soln[v] = o.sense
     THEN LET t == [r EXCEPT !.satCount[c] = n + 1]
          IN IF n = 0 THEN Sat([t EXCEPT !.satVar[c] = v], c, s.weight[c]) ELSE t
     ELSE LET t == [r EXCEPT !.satCount[c] = n - 1]
          IN IF n = 1 THEN Unsat(t, c, s.weight[c]) ELSE t

(* flip, for one occurrence o of v; s has the new solution.                *)
FlipOccurrence(s, v, r, o) ==
  LET c == o.clause
      n == r.satCount[c]
  IN IF s.soln[v] = o.sense
     THEN LET t == [r EXCEPT !.satCount[c] = n + 1]
          IN IF n = 0 THEN Sat([t EXCEPT !.satVar[c] = v], c, s.weight[c]) ELSE t
     ELSE LET t == [r EXCEPT !.satCount[c] = n - 1]
          IN CASE n = 2 -> [t EXCEPT !.satVar[c] = TrueSeq(s, c)[1]]
               [] n = 1 -> Unsat(t, c, s.weight[c])
               [] OTHER -> t

Flip(s, v) ==
  LET t == [s EXCEPT !.soln[v] = 1 - @]
  IN WithCounts(t, Loop(LAMBDA r, o : FlipOccurrence(t, v, r, o), Counts(s), VarLit[v]))

-----------------------------------------------------------------------------
(* The scores by definition, as the init functions compute them: what      *)
(* flipping v would make satisfied less what it would break, by weight,    *)
(* and, in score2, the same for clauses that go from one true literal to   *)
(* two or back.                                                            *)
Occurs(s, v, n, true) ==
  { o.clause : o \in { p \in Range(VarLit[v]) :
       /\ s.satCount[p.clause] = n
       /\ (p.sense = s.soln[v]) = true } }

WeightOf(s, cs) == SumFunctionOnSet(s.weight, cs)

InitMake(s)  == [v \in Vars |-> WeightOf(s, Occurs(s, v, 0, FALSE))]
InitBreak(s) == [v \in Vars |-> WeightOf(s, Occurs(s, v, 1, TRUE))]
InitScore(s) == [v \in Vars |-> InitMake(s)[v] - InitBreak(s)[v]]

InitScore2(s) ==
  [v \in Vars |-> Cardinality(Occurs(s, v, 1, FALSE)) - Cardinality(Occurs(s, v, 2, TRUE))]

(* init_sat_var2: the first two true literals of a clause that has two.    *)
InitPair(s) ==
  LET two(c) == s.satCount[c] = 2
  IN [s EXCEPT !.satVar  = [c \in Clauses |-> IF two(c) THEN TrueSeq(s, c)[1] ELSE @[c]],
               !.satVar2 = [c \in Clauses |-> IF two(c) THEN TrueSeq(s, c)[2] ELSE @[c]]]

(* update_score, _break_score, _make_score and _score2, for one occurrence *)
(* o of the flipped variable v: f is the score so far.                     *)
ScoreAfter(s, v, o, f) ==
  LET c == o.clause
      w == s.weight[c]
      n == s.satCount[c]
  IN IF s.soln[v] = o.sense
     THEN CASE n = 2 -> Plus(f, {s.satVar[c]}, w)
            [] n = 1 -> Plus(Plus(f, {s.satVar[c]}, -w), ClauseVars[c], -w)
            [] OTHER -> f
     ELSE CASE n = 1 -> Plus(f, {s.satVar[c]}, -w)
            [] n = 0 -> Plus(Plus(f, ClauseVars[c], w), {v}, w)
            [] OTHER -> f

BreakAfter(s, v, o, f) ==
  LET c == o.clause
      w == s.weight[c]
      n == s.satCount[c]
  IN IF s.soln[v] = o.sense
     THEN CASE n = 2 -> Plus(f, {s.satVar[c]}, -w)
            [] n = 1 -> Plus(f, {s.satVar[c]}, w)
            [] OTHER -> f
     ELSE CASE n = 1 -> Plus(f, {s.satVar[c]}, w)
            [] n = 0 -> Plus(f, {v}, -w)
            [] OTHER -> f

MakeAfter(s, v, o, f) ==
  LET c == o.clause
      n == s.satCount[c]
  IN CASE s.soln[v] = o.sense /\ n = 1 -> Plus(f, ClauseVars[c], -s.weight[c])
       [] s.soln[v] # o.sense /\ n = 0 -> Plus(f, ClauseVars[c], s.weight[c])
       [] OTHER -> f

Score2After(s, v, o, f) ==
  LET c == o.clause
      n == s.satCount[c]
      pair == <<s.satVar[c], s.satVar2[c]>>
  IN IF s.soln[v] = o.sense
     THEN CASE n = 3 -> Plus(Plus(f, {pair[1]}, 1), {pair[2]}, 1)
            [] n = 2 -> Plus(Plus(f, {v}, -1), ClauseVars[c], -1)
            [] n = 1 -> Plus(Plus(f, {v}, -1), ClauseVars[c], 1)
            [] OTHER -> f
     ELSE CASE n = 2 -> Plus(Plus(f, {pair[1]}, -1), {pair[2]}, -1)
            [] n = 1 -> Plus(Plus(f, {v}, 1), ClauseVars[c], 1)
            [] n = 0 -> Plus(Plus(f, {v}, 1), ClauseVars[c], -1)
            [] OTHER -> f

(* update_sat_var2, for one occurrence: keep the two true literals of a    *)
(* clause that has two.  pair is satVar and satVar2 so far.                *)
PairAfter(s, v, o, pair) ==
  LET c == o.clause
  IN IF s.satCount[c] # 2 THEN pair
     ELSE IF s.soln[v] = o.sense THEN <<pair[1], [pair[2] EXCEPT ![c] = v]>>
     ELSE << [pair[1] EXCEPT ![c] = TrueSeq(s, c)[1]], [pair[2] EXCEPT ![c] = TrueSeq(s, c)[2]] >>

(* update_cscc_conf_change: a clause of v became true or false.            *)
Toggled(s, v) ==
  { o.clause : o \in { p \in Range(VarLit[v]) :
       s.satCount[p.clause] = (IF s.soln[v] = p.sense THEN 1 ELSE 0) } }

(* The good variables and their flags, apart from the other fields; push   *)
(* of nvccdvar_stack, with already_in_nvccdvar_stack.                      *)
Goods(s) == [good |-> s.good, inGood |-> s.inGood]

WithGoods(s, g) == [s EXCEPT !.good = g.good, !.inGood = g.inGood]

AddGood(g, v) == [g EXCEPT !.good = Append(@, v), !.inGood[v] = TRUE]

(* Mutant: the neighbours that have become good are not added.             *)
UpdateGoodPurge(s, v) ==
  LET keep == Only(s.good, { x \in Vars : s.score[x] > 0 /\ s.nvcc[x] = 1 })
  IN [good |-> keep, inGood |-> [x \in Vars |-> x \in Range(keep)]]

(* update_nvccdvar_related_in_update_function: from the top down, replace  *)
(* what is no longer good by the top; then add the neighbours of v whose   *)
(* score is positive.                                                      *)
Purge(s, g, i) ==
  IF s.score[g.good[i]] <= 0 \/ s.nvcc[g.good[i]] = 0
  THEN [g EXCEPT !.good = Front([@ EXCEPT ![i] = Last(g.good)]), !.inGood[g.good[i]] = FALSE]
  ELSE g

AddPositive(s, g, v) == IF s.score[v] > 0 /\ ~g.inGood[v] THEN AddGood(g, v) ELSE g

UpdateGood(s, v) ==
  LET n == Len(s.good)
      purged == Loop(LAMBDA g, i : Purge(s, g, i), Goods(s), [k \in 1 .. n |-> n + 1 - k])
  IN Loop(LAMBDA g, x : AddPositive(s, g, x), purged, VarNeighbor[v])

(* update.  what tells which optional parts are switched on.               *)
Rescored(After(_, _, _, _), s, v, f) == Loop(LAMBDA g, o : After(s, v, o, g), f, VarLit[v])

UpdateScores(s, v, step, what) ==
  [s EXCEPT !.stamp[v] = step,
            !.score = Rescored(ScoreAfter, s, v, @),
            !.breakScore = IF what.prob THEN Rescored(BreakAfter, s, v, @) ELSE @,
            !.makeScore = IF what.prob THEN Rescored(MakeAfter, s, v, @) ELSE @]

UpdatePairs(s, v) ==
  LET pair == Rescored(PairAfter, s, v, <<s.satVar, s.satVar2>>)
  IN [s EXCEPT !.satVar = pair[1], !.satVar2 = pair[2]]

UpdateSecond(s, v, what) ==
  IF what.second
  THEN LET t == UpdatePairs(s, v) IN [t EXCEPT !.score2 = Rescored(Score2After, t, v, @)]
  ELSE s

UpdateConf(s, v) ==
  [s EXCEPT
     !.nvcc = [x \in Vars |-> IF x = v THEN 0 ELSE IF x \in Range(VarNeighbor[v]) THEN 1 ELSE @[x]],
     !.cscc = [x \in Vars |->
                 IF x = v THEN 0
                 ELSE IF \E c \in Toggled(s, v) : x \in ClauseVars[c] THEN 1
                 ELSE @[x]]]

UpdatePriorities(s, v, what) ==
  IF what.aware
  THEN [s EXCEPT !.clausePri = Plus(@, { o.clause : o \in Range(VarLit[v]) }, Unit - 2 * s.varPri[v]),
                 !.varPri[v] = Unit - @]
  ELSE s

Update(s, v, step, what) ==
  LET t == UpdateConf(UpdateSecond(UpdateScores(s, v, step, what), v, what), v)
  IN UpdatePriorities(WithGoods(t, UpdateGood(t, v)), v, what)

-----------------------------------------------------------------------------
(* init, for one clause.                                                   *)
CountClause(s, r, c) ==
  LET t == TrueSeq(s, c)
      u == [r EXCEPT !.satCount[c] = Len(t),
                     !.satVar[c] = IF t = <<>> THEN @ ELSE Last(t)]
  IN IF t = <<>> THEN Unsat(u, c, s.weight[c]) ELSE u

(* The fields at the start of a try, from the solution soln and the        *)
(* priorities that were set, before init counts anything.                  *)
BaseFields(soln, varPri, clausePri) ==
  [ soln       |-> soln,
    satCount   |-> [c \in Clauses |-> 0],
    satVar     |-> [c \in Clauses |-> 0],
    satVar2    |-> [c \in Clauses |-> 0],
    weight     |-> [c \in Clauses |-> 1],
    totalUnsat |-> 0,
    unsat      |-> EmptyStack(Clauses),
    unsatVar   |-> EmptyStack(Vars),
    app        |-> [v \in Vars |-> 0],
    avg        |-> 1,
    delta      |-> 0,
    large      |-> <<>>,
    score      |-> [v \in Vars |-> 0],
    breakScore |-> [v \in Vars |-> 0],
    makeScore  |-> [v \in Vars |-> 0],
    score2     |-> [v \in Vars |-> 0],
    stamp      |-> [v \in Vars |-> 0],
    nvcc       |-> [v \in Vars |-> 1],
    cscc       |-> [v \in Vars |-> 1],
    good       |-> <<>>,
    inGood     |-> [v \in Vars |-> FALSE],
    varPri     |-> varPri,
    clausePri  |-> clausePri ]

InitCounts(s) ==
  WithCounts(s, Loop(LAMBDA r, c : CountClause(s, r, c), Counts(s), [c \in Clauses |-> c]))

InitScores(s, what) ==
  [s EXCEPT !.score = InitScore(s),
            !.breakScore = IF what.prob THEN InitBreak(s) ELSE @,
            !.makeScore = IF what.prob THEN InitMake(s) ELSE @]

InitSecond(s, what) ==
  IF what.second THEN LET t == InitPair(s) IN [t EXCEPT !.score2 = InitScore2(t)] ELSE s

InitGoods(s) ==
  WithGoods(s, Loop(LAMBDA g, v : AddPositive(s, g, v), Goods(s), [v \in Vars |-> v]))

(* init.                                                                   *)
InitFields(soln, what, varPri, clausePri) ==
  InitGoods(InitSecond(InitScores(InitCounts(BaseFields(soln, varPri, clausePri)), what), what))

(* init_solution_all_true_or_false, init_solution_each_lit_true_or_false.  *)
AllTrueOrFalse == [v \in Vars |-> IF AllLitCount(1) > AllLitCount(0) THEN 1 ELSE 0]

EachLitTrueOrFalse == [v \in Vars |-> IF LitCount(v, 1) > LitCount(v, 0) THEN 1 ELSE 0]

-----------------------------------------------------------------------------
(* What the schemes share: the unsatisfied clauses gain weight one, and    *)
(* the variables of those clauses what they gain with them; then the       *)
(* variables that have become good are added.                              *)
GainWeight(s) ==
  [s EXCEPT !.weight = Plus(@, OnStack(s.unsat), 1),
            !.totalUnsat = @ + Len(s.unsat.stack),
            !.score = [v \in Vars |-> IF v \in OnStack(s.unsatVar) THEN @[v] + s.app[v] ELSE @[v]],
            !.delta = @ + Len(s.unsat.stack)]

NewlyGood(s, g, v) == IF s.nvcc[v] = 1 THEN AddPositive(s, g, v) ELSE g

AddNewGood(s, seq) == WithGoods(s, Loop(LAMBDA g, x : NewlyGood(s, g, x), Goods(s), seq))

(* The average grows once the weight it lacks exceeds one per clause.      *)
Averaged(s) ==
  IF s.delta > NumClauses
  THEN [s EXCEPT !.avg = @ + 1, !.delta = @ - NumClauses]
  ELSE s

(* smooth_clause_weight_swt: scale every weight down, never below one, and *)
(* recompute the scores and the totals.                                    *)
Scaled(w) ==
  LET scaled == (w * PScale[1]) \div PScale[2] IN IF scaled < 1 THEN 1 ELSE scaled

Broken(s, v) == { c \in Clauses : s.satCount[c] = 1 /\ s.satVar[c] = v }

Recomputed(s) ==
  LET sum == WeightOf(s, Clauses)
  IN [s EXCEPT !.totalUnsat = WeightOf(s, { c \in Clauses : s.satCount[c] = 0 }),
               !.score = [v \in Vars |-> InitMake(s)[v] - WeightOf(s, Broken(s, v))],
               !.avg = sum \div NumClauses,
               !.delta = sum - (sum \div NumClauses) * NumClauses]

Smooth(s) == Recomputed([s EXCEPT !.weight = [c \in Clauses |-> Scaled(s.weight[c])]])

(* clause_weight_scheme_swt.                                               *)
MustSmooth(s) ==
  LET t == Averaged(GainWeight(s)) IN t.avg # s.avg /\ t.avg > WeightThreshold

Swt(s) ==
  LET t == Averaged(AddNewGood(GainWeight(s), s.unsatVar.stack))
  IN IF MustSmooth(s) THEN Smooth(t) ELSE t

(* inc_clause_weight_paws: as in swt, and the clauses that reach weight    *)
(* two are noted.                                                          *)
IncPaws(s) ==
  LET t == Averaged(GainWeight(s))
      reached == Only(s.unsat.stack, { c \in Clauses : t.weight[c] = 2 })
  IN AddNewGood([t EXCEPT !.large = @ \o reached], s.unsatVar.stack)

(* dec_clause_weight_paws: every noted clause that is satisfied loses      *)
(* weight one, but for a weight of one; at weight one the last of the      *)
(* notes takes its place.  Only the clauses that are still noted then have *)
(* their variables looked at.                                              *)
LowerNote(s, r) ==
  LET c == r.large[r.at]
      w == IF r.weight[c] > 1 THEN r.weight[c] - 1 ELSE 1
      d == (r.delta - r.weight[c]) + w
      t == [r EXCEPT
              !.weight[c] = w,
              !.avg   = IF d < 0 THEN @ - 1 ELSE @,
              !.delta = IF d < 0 THEN d + NumClauses ELSE d,
              !.score = IF s.satCount[c] = 1 THEN Plus(@, {s.satVar[c]}, 1) ELSE @]
  IN IF s.satCount[c] = 0 THEN [r EXCEPT !.at = @ + 1]
     ELSE IF w = 1 THEN [t EXCEPT !.large = Front([@ EXCEPT ![r.at] = Last(r.large)])]
     ELSE [t EXCEPT !.at = @ + 1]

Lowered(s) ==
  LET first == [ weight |-> s.weight, avg |-> s.avg, delta |-> s.delta, score |-> s.score,
                 large |-> s.large, at |-> 1 ]
  IN Loop(LAMBDA r, c : LowerNote(s, r), first, s.large)

DecPaws(s) ==
  LET last == Lowered(s)
      low  == [s EXCEPT !.weight = last.weight, !.avg = last.avg, !.delta = last.delta,
                        !.score = last.score, !.large = last.large]
      ones == Only(low.large, { c \in Clauses : low.satCount[c] = 1 })
  IN AddNewGood(low, [i \in DOMAIN ones |-> low.satVar[ones[i]]])

=============================================================================
