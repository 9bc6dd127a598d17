------------------------------ MODULE PbOccsat ------------------------------
(***************************************************************************)
(* PbOCCSATSolver: a local search that flips one variable at a time until  *)
(* every clause is satisfied, choosing the variable by configuration       *)
(* checking, aspiration and, when it is stuck, by reweighting the clauses  *)
(* and taking a variable of an unsatisfied one.  A random choice and a     *)
(* random number compared with a probability are nondeterministic.         *)
(***************************************************************************)
EXTENDS PbFields

CONSTANTS
  Profiles,     \* the settings to search with; see IsSettings
  InitSolns(_), \* what callers give to set_init_solution, by number of variables
  Priorities(_), \* what callers give to set_var_flip_priority
  DHscore, BetaHscore, GammaHscore,  \* para_d_hscore (8), para_beta_hscore and
                                     \* para_gamma_hscore2 (1000)
  MaxTries,     \* maxi_tries
  MaxFlips,     \* maxi_flips: 2 * 10^9 in the code, a bound here
  MaxSolves     \* bound: calls of solve

(* The function pointers and switches.  init: where the first solution     *)
(* comes from; pac, firstDiv, doubleCC, aspiration, weighting: which parts *)
(* run; tie: how a tie is broken; clauseDiv and varDiv: how a clause and   *)
(* a variable of it are chosen; second and prob: whether score2, and       *)
(* break_score and make_score, are kept; aware: whether priorities follow  *)
(* the flips.                                                              *)
IsSettings(p) ==
  p \in
  [ init : {"random", "all", "each", "given"},
    pac : BOOLEAN, firstDiv : BOOLEAN, doubleCC : BOOLEAN, aspiration : BOOLEAN,
    weighting : {"swt", "paws", "none"},
    tie : {"random", "priority", "age", "hscore", "hscore2"},
    clauseDiv : {"random", "priority", "weight"},
    varDiv : {"random", "priority", "score", "age", "novelty", "sparrow", "probsat",
              "hscore", "hscore2"},
    second : BOOLEAN, prob : BOOLEAN, aware : BOOLEAN ]

ASSUME PbOccsatAssumption ==
  /\ \A p \in Profiles :
       /\ IsSettings(p)
       /\ p.init # "given"       \* only set_init_solution makes it so
       /\ (p.tie \in {"hscore", "hscore2"} \/ p.varDiv \in {"hscore", "hscore2"}) => p.second
       /\ p.varDiv = "probsat" => p.prob
  /\ \A file \in Files :
       /\ InitSolns(file.vars) \subseteq [1 .. file.vars -> {0, 1}]
       /\ Priorities(file.vars) \subseteq [1 .. file.vars -> {0, Unit \div 2, Unit}]
  /\ {DHscore, BetaHscore, GammaHscore, MaxTries, MaxFlips, MaxSolves} \subseteq Nat \ {0}

VARIABLES
  pc,           \* where the solver is
  s,            \* its fields; see PbFields
  settings,     \* its function pointers and switches
  initSoln,     \* init_soln
  flipvar,      \* the variable picked
  step, tries,  \* the counters of the two loops
  solves,       \* calls of solve so far
  smoothed      \* whether this try has scaled weights down (auxiliary)

vars == <<inst, pc, s, settings, initSoln, flipvar, step, tries, solves, smoothed>>

-----------------------------------------------------------------------------
(* default_algorithm_settings.                                             *)
Default ==
  [ init |-> "all", pac |-> FALSE, firstDiv |-> FALSE, doubleCC |-> TRUE,
    aspiration |-> TRUE, weighting |-> "swt", tie |-> "age", clauseDiv |-> "random",
    varDiv |-> "sparrow", second |-> FALSE, prob |-> FALSE, aware |-> FALSE ]

(* set_var_flip_priority_ass_unaware, and _ass_aware: on formulas of some  *)
(* ratios of clauses to variables the latter leaves configuration checking *)
(* and aspiration for random variables.                                    *)
Unaware(p) ==
  [p EXCEPT !.tie = "priority", !.clauseDiv = "priority", !.varDiv = "priority",
            !.aware = FALSE]

RatioIsSparse ==
  \/ 10 * NumClauses < 15 * NumVars /\ NumVars < 1500
  \/ 92 * NumVars < 10 * NumClauses /\ 10 * NumClauses < 93 * NumVars
  \/ 15 * NumVars < 10 * NumClauses /\ NumClauses < 2 * NumVars
  \/ 277 * NumVars < 100 * NumClauses /\ 100 * NumClauses < 278 * NumVars

Aware(p) ==
  LET q == [Unaware(p) EXCEPT !.aware = TRUE]
  IN IF RatioIsSparse
     THEN [q EXCEPT !.doubleCC = FALSE, !.aspiration = FALSE, !.pac = TRUE, !.firstDiv = TRUE]
     ELSE q

(* The clause priorities that go with them: what was left in the vector    *)
(* plus the sum of the variables' priorities, divided by the length.       *)
ClausePri(old, varPri) ==
  [c \in Clauses |->
     (old[c] + SumFunctionOnSet(varPri, ClauseVars[c])) \div Len(ClauseLit[c])]

-----------------------------------------------------------------------------
Truncated(a, b) == IF a < 0 THEN -((-a) \div b) ELSE a \div b

Hscore(v) ==
  s.score[v] + Truncated(s.score2[v], DHscore) + Truncated(step - s.stamp[v], BetaHscore)

Hscore2(v) == s.score2[v] + Truncated(step - s.stamp[v], GammaHscore)

Older(v, b) == s.stamp[v] < s.stamp[b]

(* What a heuristic compares: the greater, and among equals the older.     *)
Value(how, v) ==
  CASE how = "score"   -> s.score[v]
    [] how = "hscore"  -> Hscore(v)
    [] how = "hscore2" -> Hscore2(v)
    [] how = "age"     -> 0

Beats(how, v, b) ==
  Value(how, v) > Value(how, b) \/ (Value(how, v) = Value(how, b) /\ Older(v, b))

Winner(how, b, v) == IF Beats(how, v, b) THEN v ELSE b

(* The first of seq that no later one beats.                               *)
Leader(seq, how) == Loop(LAMBDA b, v : Winner(how, b, v), seq[1], Tail(seq))

(* select_var_by_*_break_tie_in_set: the variables that may be returned.   *)
(* With priorities, the search starts from a random one.                   *)
TieBreak(seq) ==
  CASE settings.tie = "random"   -> Range(seq)
    [] settings.tie = "priority" ->
         { v \in Range(seq) : \A w \in Range(seq) : s.varPri[v] <= s.varPri[w] }
    [] settings.tie \in {"age", "hscore", "hscore2"} -> {Leader(seq, settings.tie)}

(* select_unsat_clause_*_heuristic.                                        *)
SelectClause ==
  LET cs == OnStack(s.unsat)
  IN IF settings.clauseDiv = "priority"
     THEN { c \in cs : \A d \in cs : s.clausePri[c] <= s.clausePri[d] }
     ELSE cs

(* select_var_from_clause_novelty_heuristic: the best variable, but when   *)
(* it is the youngest of the clause, perhaps or (at score 0) surely the    *)
(* second best.                                                            *)
Novelty(seq) ==
  LET best == Leader(seq, "score")
      rest == Only(seq, Range(seq) \ {best})
  IN IF rest # <<>> /\ \A v \in Range(seq) : s.stamp[v] <= s.stamp[best]
     THEN {Leader(rest, "score")} \cup (IF s.score[best] = 0 THEN {} ELSE {best})
     ELSE {best}

(* select_var_from_clause_*_heuristic.  sparrow and probsat give every     *)
(* variable of the clause a positive probability.                          *)
SelectVar(c) ==
  LET seq == VarsOfClause(c)
      before(v, w) == s.varPri[v] < s.varPri[w] \/ (s.varPri[v] = s.varPri[w] /\ Older(v, w))
  IN CASE settings.varDiv \in {"random", "sparrow", "probsat"} -> Range(seq)
       [] settings.varDiv = "priority" ->
            { v \in Range(seq) : \A w \in Range(seq) : ~before(w, v) }
       [] settings.varDiv = "novelty" -> Novelty(seq)
       [] settings.varDiv \in {"score", "age", "hscore", "hscore2"} -> {Leader(seq, settings.varDiv)}

(* The candidates of greatest score, if it is above the bar.               *)
Highest(seq, bar) ==
  LET high == Only(seq, { v \in Range(seq) : \A w \in Range(seq) : s.score[w] <= s.score[v] })
  IN IF high # <<>> /\ s.score[high[1]] > bar THEN TieBreak(high) ELSE {}

(* select_var_cscc_heuristic_from_nvccdvar_stack, select_var_nvcc_...,     *)
(* select_var_aspiration_heuristic: the empty set is -1.                   *)
CsccHeuristic == Highest(Only(s.good, { v \in Vars : s.cscc[v] = 1 }), 0)

NvccHeuristic == Highest(s.good, 0)

AspirationHeuristic == Highest(s.unsatVar.stack, s.avg)

-----------------------------------------------------------------------------
Zero == [c \in Clauses |-> 0]

Init ==
  /\ inst \in { Built(file) : file \in Files }
  /\ pc = "idle"
  /\ settings \in Profiles
  /\ initSoln = <<>>
  /\ s = BaseFields([v \in Vars |-> 0], [v \in Vars |-> 0], Zero)
  /\ flipvar = 1
  /\ step = 0 /\ tries = 0 /\ solves = 0
  /\ smoothed = FALSE

Idle == pc \in {"idle", "sat", "unknown"} /\ solves < MaxSolves

Call ==
  /\ Idle
  /\ pc' = "try"
  /\ tries' = 0
  /\ solves' = solves + 1
  /\ UNCHANGED <<inst, flipvar, step, smoothed>>

(* A first testcase: solve as it is set up (GenerateInitTestcaseSLS).      *)
Solve == Call /\ UNCHANGED <<s, settings, initSoln>>

SetPriority(p) ==
  s' = [s EXCEPT !.varPri = p, !.clausePri = ClausePri(@, p)]

(* A further one: a first solution, priorities that follow the flips, and  *)
(* solve (GetSatTestcaseWithGivenInitSolution).                            *)
SolveFrom(soln, p) ==
  /\ Call
  /\ initSoln' = soln
  /\ settings' = [Aware(settings) EXCEPT !.init = "given"]
  /\ SetPriority(p)

(* Priorities that stay as they are (UpdateContextAwareFlipPriority), then *)
(* solve.                                                                  *)
SolveUnaware(p) ==
  /\ Call
  /\ settings' = Unaware(settings)
  /\ SetPriority(p)
  /\ UNCHANGED initSoln

FirstSolutions ==
  CASE settings.init = "random" -> [Vars -> {0, 1}]
    [] settings.init = "all"    -> {AllTrueOrFalse}
    [] settings.init = "each"   -> {EachLitTrueOrFalse}
    [] settings.init = "given"  -> {initSoln}

StartTry ==
  /\ pc = "try"
  /\ tries < MaxTries
  /\ \E soln \in FirstSolutions : s' = InitFields(soln, settings, s.varPri, s.clausePri)
  /\ pc' = "search"
  /\ step' = 0
  /\ smoothed' = FALSE
  /\ UNCHANGED <<inst, settings, initSoln, flipvar, tries, solves>>

Exhausted ==
  /\ pc = "try"
  /\ tries = MaxTries
  /\ pc' = "unknown"
  /\ UNCHANGED <<inst, s, settings, initSoln, flipvar, step, tries, solves, smoothed>>

Solved ==
  /\ pc = "search"
  /\ s.unsat.stack = <<>>
  /\ pc' = "sat"
  /\ UNCHANGED <<inst, s, settings, initSoln, flipvar, step, tries, solves, smoothed>>

TryFailed ==
  /\ pc = "search"
  /\ s.unsat.stack # <<>>
  /\ step = MaxFlips
  /\ tries' = tries + 1
  /\ pc' = "try"
  /\ UNCHANGED <<inst, s, settings, initSoln, flipvar, step, solves, smoothed>>

(* pick_var_pbocc.                                                         *)
Searching == pc = "search" /\ s.unsat.stack # <<>> /\ step < MaxFlips

Pick(vs) ==
  /\ \E v \in vs : flipvar' = v
  /\ pc' = "flip"
  /\ UNCHANGED <<inst, s, settings, initSoln, step, tries, solves, smoothed>>

PickPac == Searching /\ settings.pac /\ Pick(UNION { ClauseVars[c] : c \in Clauses })

PickFirstDiv ==
  /\ Searching
  /\ settings.firstDiv
  /\ Pick(UNION { SelectVar(c) : c \in SelectClause })

PickDoubleCC == Searching /\ settings.doubleCC /\ Pick(CsccHeuristic)

NoDoubleCC == settings.doubleCC => CsccHeuristic = {}

PickNvcc == Searching /\ NoDoubleCC /\ Pick(NvccHeuristic)

NoGreedy == NoDoubleCC /\ NvccHeuristic = {}

PickAspiration ==
  /\ Searching
  /\ NoGreedy
  /\ settings.aspiration
  /\ Pick(AspirationHeuristic)

Stuck ==
  /\ Searching
  /\ NoGreedy
  /\ settings.aspiration => AspirationHeuristic = {}

(* The weighting scheme, when the search is stuck.                         *)
Reweigh ==
  /\ Stuck
  /\ pc' = "diversify"
  /\ \/ settings.weighting = "none" /\ UNCHANGED <<s, smoothed>>
     \/ settings.weighting = "swt" /\ s' = Swt(s) /\ smoothed' = (smoothed \/ MustSmooth(s))
     \/ settings.weighting = "paws" /\ s' = IncPaws(s) /\ UNCHANGED smoothed
     \/ /\ settings.weighting = "paws"
        /\ Len(s.large) > LargeCountThreshold
        /\ s' = DecPaws(s)
        /\ smoothed' = TRUE
  /\ UNCHANGED <<inst, settings, initSoln, flipvar, step, tries, solves>>

Diversify == pc = "diversify" /\ Pick(UNION { SelectVar(c) : c \in SelectClause })

FlipVar ==
  /\ pc = "flip"
  /\ s' = Flip(s, flipvar)
  /\ pc' = "update"
  /\ UNCHANGED <<inst, settings, initSoln, flipvar, step, tries, solves, smoothed>>

UpdateFields ==
  /\ pc = "update"
  /\ s' = Update(s, flipvar, step, settings)
  /\ step' = step + 1
  /\ pc' = "search"
  /\ UNCHANGED <<inst, settings, initSoln, flipvar, tries, solves, smoothed>>

Next ==
  \/ Solve
  \/ \E soln \in InitSolns(NumVars), p \in Priorities(NumVars) : SolveFrom(soln, p)
  \/ \E p \in Priorities(NumVars) : SolveUnaware(p)
  \/ StartTry \/ Exhausted \/ Solved \/ TryFailed
  \/ PickPac \/ PickFirstDiv \/ PickDoubleCC \/ PickNvcc \/ PickAspiration
  \/ Reweigh \/ Diversify \/ FlipVar \/ UpdateFields

Spec == Init /\ [][Next]_vars

-----------------------------------------------------------------------------
Settled == pc \in {"search", "diversify", "flip", "sat"}

(* The two stacks hold exactly the unsatisfied clauses and the variables   *)
(* of unsatisfied clauses, each once and at the place noted for it, and    *)
(* the counters that decide when an element comes and goes agree: flip     *)
(* swap-removes from both while it walks the clauses of the variable.      *)
StacksExact ==
  pc \in {"search", "diversify", "flip", "update", "sat"} =>
    /\ OnStack(s.unsat) = { c \in Clauses : TrueVars(s, c) = {} }
    /\ OnStack(s.unsatVar) = UNION { ClauseVars[c] : c \in OnStack(s.unsat) }
    /\ StackExact(s.unsat) /\ StackExact(s.unsatVar)
    /\ s.totalUnsat = WeightOf(s, OnStack(s.unsat))
    /\ \A c \in Clauses : s.satCount[c] = Cardinality(TrueVars(s, c))
    /\ \A v \in Vars :
         s.app[v] = Cardinality({ c \in OnStack(s.unsat) : v \in ClauseVars[c] })

(* The scores that the flips adjust clause by clause are those their       *)
(* definition gives, whatever the flips, the growing and the scaling of    *)
(* the weights before; so are the pair of true literals that score2 needs  *)
(* and the average weight that aspiration compares with.  break_score and  *)
(* make_score follow the flips only: no weighting scheme touches them.     *)
ScoresExact ==
  Settled =>
    /\ s.score = InitScore(s)
    /\ settings.second => s.score2 = InitScore2(s)
    /\ settings.prob /\ settings.weighting = "none" =>
         s.breakScore = InitBreak(s) /\ s.makeScore = InitMake(s)
    /\ \A c \in Clauses : s.satCount[c] = 1 => TrueVars(s, c) = {s.satVar[c]}
    /\ settings.second => \A c \in Clauses :
         s.satCount[c] = 2 => TrueVars(s, c) = {s.satVar[c], s.satVar2[c]}
    /\ WeightOf(s, Clauses) = s.avg * NumClauses + s.delta

(* The stack that greedy steps choose from has no variable twice and none  *)
(* whose score is not positive or whose neighbourhood has not changed      *)
(* since it was flipped; until the try first scales weights down, which    *)
(* does not look at all variables, it has every one that qualifies.        *)
GoodVarsExact ==
  pc \in {"search", "flip", "sat"} =>
    /\ IsInjective(s.good)
    /\ \A v \in Vars : s.inGood[v] <=> v \in Range(s.good)
    /\ ~smoothed => Range(s.good) = { v \in Vars : s.score[v] > 0 /\ s.nvcc[v] = 1 }
    /\ pc = "search" => \A v \in Range(s.good) : s.score[v] > 0 /\ s.nvcc[v] = 1

(* When solve returns true, every clause of the file is satisfied, those   *)
(* that build_instance dropped or shortened included: get_sat_solution     *)
(* gives a valid testcase.                                                 *)
SolvedSatisfiesFile ==
  pc = "sat" =>
    /\ VerifySoln(s.soln)
    /\ \A k \in DOMAIN inst.file.clauses : \E l \in Range(inst.file.clauses[k]) :
         s.soln[VarOf(l)] = Sense(l)

=============================================================================
