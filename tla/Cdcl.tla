-------------------------------- MODULE Cdcl --------------------------------
(***************************************************************************)
(* The solvers of BlackBoxSolver.cc and Ext.cc on top of minisat_ext: a    *)
(* file is read, then the solver is asked again and again, with different  *)
(* literals assumed, and keeps what it has learnt.  A variable is tried    *)
(* first with the value the caller prefers, if any, or else with the last  *)
(* it had.  Which variable is decided next is left open: in the one it is  *)
(* the most active, in the other the first of a shuffled order.            *)
(***************************************************************************)
EXTENDS Trail

CONSTANTS
  Files,          \* the files that may be read
  Questions(_),   \* the sequences of literals that may be assumed, by file
  Chosen(_),      \* the values callers may prefer, by file (any)
  RestartFirst,   \* restart_first (100)
  LearntFraction, \* learntsize_factor, one over this (3)
  AdjustStart,    \* learntsize_adjust_start_confl (100)
  MaxSolves(_)    \* bound: questions, by file

ASSUME CdclAssumption ==
  /\ \A f \in Files : /\ f.vars \in Nat \ {0}
                      /\ f.clauses \in Seq(Seq((-f.vars .. f.vars) \ {0}))
                      /\ MaxSolves(f) \in Nat \ {0}
                      /\ Chosen(f) \subseteq [1 .. f.vars -> {0, 1}]
                      /\ Questions(f) \subseteq Seq((-f.vars .. f.vars) \ {0})
  /\ {RestartFirst, LearntFraction, AdjustStart} \subseteq Nat \ {0}

VARIABLES
  pc,             \* where the solver is
  file,           \* the file
  s,              \* the solver; see Trail
  read,           \* the clauses of the file that are read
  assumptions,
  confl,          \* the conflict propagate returned, 0 for none
  conflict,       \* the final conflict in terms of assumptions
  status,         \* "none" before the first question, "pending", "answered"
  model,          \* the assignment the search ended with, or <<>>
  answer,         \* a solution, or <<>> when there is none
  effort,         \* the counters of solve_: restarts, conflictC, max_learnts (in
                  \* tenths), learntsize_adjust_confl and learntsize_adjust_cnt
  solves

vars == <<pc, file, s, read, assumptions, confl, conflict, status, model, answer,
          effort, solves>>
given == <<file, read>>

-----------------------------------------------------------------------------
Init ==
  /\ pc = "read"
  /\ file \in Files
  /\ s = NewSolver(file.vars)
  /\ read = 0
  /\ assumptions = <<>> /\ conflict = {} /\ confl = 0
  /\ status = "none" /\ model = <<>> /\ answer = <<>>
  /\ effort = [restarts |-> 0, conflictC |-> 0, max |-> 0, adjust |-> 0, count |-> 0]
  /\ solves = 0

(* read_clauses, or the constructor of SamplingSolver.                     *)
Read ==
  /\ pc = "read"
  /\ read < Len(file.clauses)
  /\ read' = read + 1
  /\ s' = AddClause(s, file.clauses[read'])
  /\ UNCHANGED <<pc, file, assumptions, confl, conflict, status, model, answer, effort, solves>>

ReadAll ==
  /\ pc = "read"
  /\ read = Len(file.clauses)
  /\ pc' = "ready"
  /\ UNCHANGED <<file, s, read, assumptions, confl, conflict, status, model, answer, effort, solves>>

(* The counters at the start of solve_.                                    *)
FreshEffort(t) ==
  [ restarts |-> 0, conflictC |-> 0,
    max |-> (10 * Cardinality(t.orig)) \div LearntFraction,
    adjust |-> AdjustStart, count |-> AdjustStart ]

(* set_prob, or set_polarity for every variable, or neither.               *)
Preferences == {s.userPol} \cup Chosen(file)

(* Solver::solve and SamplingSolver::get_solution: simplify, then solve_.  *)
Ask ==
  /\ pc = "ready"
  /\ solves < MaxSolves(file)
  /\ solves' = solves + 1
  /\ assumptions' \in Questions(file)
  /\ conflict' = {}
  /\ status' = "pending"
  /\ model' = <<>>
  /\ answer' = <<>>
  /\ \E pol \in Preferences :
       /\ s' = Simplified([s EXCEPT !.userPol = pol])
       /\ pc' = IF s'.ok THEN "propagate" ELSE "end"
       /\ effort' = FreshEffort(s')
  /\ UNCHANGED <<given, confl>>

Propagate ==
  /\ pc = "propagate"
  /\ \E r \in {Propagated(s)} : s' = r.s /\ confl' = r.confl
  /\ pc' = IF confl' # 0 THEN "conflict" ELSE "calm"
  /\ UNCHANGED <<given, assumptions, conflict, status, model, answer, effort, solves>>

End(t, result) ==
  /\ s' = t
  /\ model' = result
  /\ pc' = "end"
  /\ UNCHANGED <<status, answer>>

RootConflict ==
  /\ pc = "conflict"
  /\ decisionLevel(s) = 0
  /\ End(s, <<>>)
  /\ UNCHANGED <<given, assumptions, confl, conflict, effort, solves>>

(* A conflict counts against the restart, and now and then more learnt     *)
(* clauses are allowed.                                                    *)
AfterConflict(e) ==
  LET more == (e.adjust * 3) \div 2
  IN IF e.count = 1
     THEN [e EXCEPT !.conflictC = @ + 1, !.adjust = more, !.count = more,
                    !.max = (@ * 11) \div 10]
     ELSE [e EXCEPT !.conflictC = @ + 1, !.count = @ - 1]

Learn ==
  /\ pc = "conflict"
  /\ decisionLevel(s) > 0
  /\ s' = Learned(s, confl)
  /\ effort' = AfterConflict(effort)
  /\ confl' = 0
  /\ pc' = "propagate"
  /\ UNCHANGED <<given, assumptions, conflict, status, model, answer, solves>>

(* luby(2, x): the exponent is that of the subsequence that ends at x.     *)
luby[x \in Nat] ==
  LET size == CHOOSE n \in 1 .. 2 * x + 1 :
                /\ \E k \in 0 .. x + 1 : n + 1 = 2 ^ k
                /\ n >= x + 1 /\ n < 2 * x + 2
  IN IF size = x + 1 THEN (size + 1) \div 2 ELSE luby[x - (size - 1) \div 2]

RestartDue == effort.conflictC >= RestartFirst * luby[effort.restarts]

Restart ==
  /\ pc = "calm"
  /\ RestartDue
  /\ s' = cancelUntil(s, 0)
  /\ effort' = [effort EXCEPT !.restarts = @ + 1, !.conflictC = 0]
  /\ pc' = "propagate"
  /\ UNCHANGED <<given, assumptions, confl, conflict, status, model, answer, solves>>

(* simplify at level 0, then reduceDB when too many clauses are learnt.    *)
Tidied == IF decisionLevel(s) = 0 THEN Simplified(s) ELSE s

Tidy ==
  /\ pc = "calm" /\ ~RestartDue
  /\ \E t \in {Tidied} :
       IF ~t.ok THEN End(t, <<>>)
       ELSE /\ IF 10 * (Cardinality(t.learnt) - Len(t.trail)) >= effort.max
               THEN s' \in Reductions(t)
               ELSE s' = t
            /\ pc' = "branch"
            /\ UNCHANGED <<status, model, answer>>
  /\ UNCHANGED <<given, assumptions, confl, conflict, effort, solves>>

(* The next assumption: a level of its own when it holds already.          *)
NextAssumed == assumptions[decisionLevel(s) + 1]

Assuming == pc = "branch" /\ decisionLevel(s) < Len(assumptions)

AssumeHolding ==
  /\ Assuming
  /\ IsTrue(s, NextAssumed)
  /\ s' = newDecisionLevel(s)
  /\ UNCHANGED <<given, pc, assumptions, confl, conflict, status, model, answer, effort, solves>>

AssumeRefuted ==
  /\ Assuming
  /\ IsFalse(s, NextAssumed)
  /\ conflict' = analyzeFinal(s, -NextAssumed)
  /\ End(s, <<>>)
  /\ UNCHANGED <<given, assumptions, confl, effort, solves>>

Go(l, t) ==
  /\ s' = Decide(t, l)
  /\ pc' = "propagate"
  /\ UNCHANGED <<given, assumptions, confl, conflict, status, model, answer, effort, solves>>

Assume ==
  /\ Assuming
  /\ ~IsTrue(s, NextAssumed) /\ ~IsFalse(s, NextAssumed)
  /\ Go(NextAssumed, s)

(* pickBranchLit: variables leave the heap until one has no value.  How    *)
(* many with a value leave it depends on the order; here all do, the case  *)
(* in which cancelUntil has most to put back.                              *)
Preferred(v) ==
  CASE s.userPol[v] = 1 -> v
    [] s.userPol[v] = 0 -> -v
    [] OTHER -> IF s.polarity[v] THEN -v ELSE v

Branching == pc = "branch" /\ decisionLevel(s) >= Len(assumptions)

Branch ==
  /\ Branching
  /\ \E v \in s.heap \ Assigned(s) :
       Go(Preferred(v), [s EXCEPT !.heap = @ \ (Assigned(s) \cup {v})])

ModelOf(t) ==
  [v \in DOMAIN t.polarity |->
     IF IsTrue(t, v) THEN 1 ELSE IF IsTrue(t, -v) THEN 0 ELSE -1]

ModelFound ==
  /\ Branching
  /\ s.heap \subseteq Assigned(s)
  /\ End([s EXCEPT !.heap = {}], ModelOf(s))
  /\ UNCHANGED <<given, assumptions, confl, conflict, effort, solves>>

ReturnOk ==
  /\ pc = "end"
  /\ s' = cancelUntil([s EXCEPT !.ok = @ /\ model # <<>>], 0)
  /\ status' = "answered"
  /\ answer' = model
  /\ pc' = "ready"
  /\ UNCHANGED <<given, assumptions, confl, conflict, model, effort, solves>>

(* The end of solve_, and clear_assumptions by the caller.                 *)
Return ==
  /\ pc = "end"
  /\ s' = cancelUntil([s EXCEPT !.ok = @ /\ ~(model = <<>> /\ conflict = {})], 0)
  /\ status' = "answered"
  /\ answer' = model
  /\ pc' = "ready"
  /\ UNCHANGED <<given, assumptions, confl, conflict, model, effort, solves>>

Step ==
  \/ Propagate \/ RootConflict \/ Learn \/ Restart \/ Tidy
  \/ AssumeHolding \/ AssumeRefuted \/ Assume \/ Branch \/ ModelFound \/ Return

Next == Read \/ ReadAll \/ Ask \/ Step

(* Weak fairness of Step: a step is possible exactly while it works.       *)
Working == pc \notin {"read", "ready"}

Spec == Init /\ [][Next]_vars /\ ([]<>~Working \/ []<><<Working>>_vars)

-----------------------------------------------------------------------------
(* Between two steps of search every clause in memory is watched exactly   *)
(* by its first two literals, once each, by a watcher that blocks on a     *)
(* literal of the clause; and a clause that made a literal true has it     *)
(* first and nothing but literals that were false before it behind: the    *)
(* learning, the locks and the swaps of propagate rely on those places.    *)
WatchesExact ==
  /\ \A l \in DOMAIN s.watches :
       /\ { w.cref : w \in Range(s.watches[l]) }
            = { c \in DOMAIN s.clause : -l \in {s.clause[c][1], s.clause[c][2]} }
       /\ \A i, j \in DOMAIN s.watches[l] :
            i # j => s.watches[l][i].cref # s.watches[l][j].cref
       /\ \A w \in Range(s.watches[l]) : w.blocker \in Range(s.clause[w.cref]) \ {-l}
  /\ \A i \in DOMAIN s.trail :
       LET e == s.trail[i]
       IN e.reason # 0 =>
            /\ e.reason \in DOMAIN s.clause
            /\ s.clause[e.reason][1] = e.lit
            /\ \A k \in Range(Tail(s.clause[e.reason])) :
                 \E j \in 1 .. i - 1 : s.trail[j].lit = -k

(* When propagate returns without a conflict no clause, read or learnt, is *)
(* false or has one literal left and the others false, whatever was        *)
(* watched, undone, learnt and removed before; and every variable without  *)
(* a value is in the heap, or the next model would leave it out.           *)
NothingMissed ==
  pc \in {"calm", "branch"} =>
    /\ \A c \in DOMAIN s.clause :
         \/ Satisfied(s, c)
         \/ Cardinality({ l \in Range(s.clause[c]) : ~IsFalse(s, l) }) >= 2
    /\ DOMAIN s.polarity \ Assigned(s) \subseteq s.heap

(* What is learnt, what holds at level 0, what is left of the clauses read *)
(* and the final conflict of a question all follow from the file; and the  *)
(* clauses in memory and the literals of level 0 lose nothing of it: they  *)
(* have the models that the clauses read so far have.                      *)
All == [DOMAIN s.polarity -> {0, 1}]

Makes(m, l) == m[Var(l)] = (IF l > 0 THEN 1 ELSE 0)

OfFile ==
  { m \in All : \A k \in 1 .. read : \E l \in Range(file.clauses[k]) : Makes(m, l) }

OfMemory ==
  { m \in All :
      /\ \A c \in s.orig : \E l \in Range(s.clause[c]) : Makes(m, l)
      /\ \A i \in DOMAIN s.trail : s.trail[i].level = 0 => Makes(m, s.trail[i].lit) }

ConsequencesOnly ==
  /\ s.ok => OfMemory = OfFile
  /\ ~s.ok => OfFile = {}
  /\ \A m \in OfFile :
       /\ \A c \in s.learnt : \E l \in Range(s.clause[c]) : Makes(m, l)
       /\ conflict # {} => \E l \in conflict : Makes(m, l)
  /\ { -l : l \in conflict } \subseteq Range(assumptions)

(* Each question is answered, with a solution of the file in which the     *)
(* assumptions hold, or with none when there is none; see Oracle.          *)
TheOracle ==
  INSTANCE Oracle WITH asked <- assumptions

ImplementsOracle == TheOracle!Spec

=============================================================================
