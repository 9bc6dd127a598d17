------------------------------- MODULE Trail -------------------------------
(***************************************************************************)
(* The data of minisat_ext/Solver.cc and what its methods do to them.  The *)
(* solver is a record s with the fields                                    *)
(*   ok           whether the clauses may still be satisfiable             *)
(*   clause       the clauses in memory: their literals, the two watched   *)
(*                ones first, by reference                                 *)
(*   orig, learnt the references of the clauses read and learnt            *)
(*   watches      for a literal, the clauses to look at when it comes true *)
(*   trail        the literals that are true, in order, with the clause    *)
(*                that made them so (0: none) and the level                *)
(*   lim, qhead   where the levels begin; how far the trail is propagated  *)
(*   heap         the variables in the order heap                          *)
(*   polarity     whether a variable is first tried false; userPol, the    *)
(*                value it is first tried with when the caller set one     *)
(*   simpAssigns, simpProps     simpDB_assigns and simpDB_props            *)
(* A removed clause leaves the watches at once: the code only marks it,    *)
(* and propagate cleans every list before it looks at one.  Activities are *)
(* left out, and with them the order of the heap.                          *)
(***************************************************************************)
EXTENDS Integers, FiniteSets, SequencesExt, Loops

Var(l) == IF l < 0 THEN -l ELSE l

TrueLits(s)   == { s.trail[i].lit : i \in DOMAIN s.trail }
IsTrue(s, l)  == l \in TrueLits(s)
IsFalse(s, l) == -l \in TrueLits(s)
Assigned(s)   == { Var(l) : l \in TrueLits(s) }

Entry(s, v) == s.trail[CHOOSE i \in DOMAIN s.trail : Var(s.trail[i].lit) = v]
LevelOf(s, l) == Entry(s, Var(l)).level

decisionLevel(s) == Len(s.lim)

Satisfied(s, c) == \E l \in Range(s.clause[c]) : IsTrue(s, l)

Locked(s, c) ==
  \E i \in DOMAIN s.trail : s.trail[i].lit = s.clause[c][1] /\ s.trail[i].reason = c

(* A solver with n variables and no clause.                                *)
NewSolver(n) ==
  [ ok |-> TRUE, clause |-> <<>>, orig |-> {}, learnt |-> {},
    watches |-> [l \in (-n .. n) \ {0} |-> <<>>],
    trail |-> <<>>, lim |-> <<>>, qhead |-> 0,
    heap |-> 1 .. n,
    polarity |-> [v \in 1 .. n |-> TRUE], userPol |-> [v \in 1 .. n |-> -1],
    simpAssigns |-> -1, simpProps |-> 0 ]

-----------------------------------------------------------------------------
uncheckedEnqueue(s, l, from) ==
  [s EXCEPT !.trail = Append(@, [lit |-> l, reason |-> from, level |-> decisionLevel(s)])]

newDecisionLevel(s) == [s EXCEPT !.lim = Append(@, Len(s.trail))]

Decide(s, l) == uncheckedEnqueue(newDecisionLevel(s), l, 0)

Watcher(c, blocker) == [cref |-> c, blocker |-> blocker]

(* The clause lits under the reference c, in memory and watched.           *)
Added(C, c, lits) == [d \in DOMAIN C \cup {c} |-> IF d = c THEN lits ELSE C[d]]

Listed(W, l, w) == [W EXCEPT ![l] = Append(W[l], w)]

TwiceListed(W, k, w, l, v) == Listed(Listed(W, k, w), l, v)

Watched(W, c, lits) ==
  TwiceListed(W, -lits[1], Watcher(c, lits[2]), -lits[2], Watcher(c, lits[1]))

Attached(s, c, lits) ==
  [s EXCEPT !.clause = Added(@, c, lits), !.watches = Watched(@, c, lits)]

FreshRef(s) == CHOOSE c \in 1 .. Cardinality(DOMAIN s.clause) + 1 : c \notin DOMAIN s.clause

(* removeClause, for each of a set of clauses.                             *)
Dropped(C, cs) == [c \in DOMAIN C \ cs |-> C[c]]

Unwatched(W, cs) == [l \in DOMAIN W |-> Only(W[l], { w \in Range(W[l]) : w.cref \notin cs })]

Unreasoned(T, cs) ==
  [i \in DOMAIN T |-> IF T[i].reason \in cs THEN [T[i] EXCEPT !.reason = 0] ELSE T[i]]

Removed(s, cs) ==
  [s EXCEPT !.clause = Dropped(@, cs),
            !.orig = @ \ cs,
            !.learnt = @ \ cs,
            !.watches = Unwatched(@, cs),
            !.trail = Unreasoned(@, { c \in cs : Locked(s, c) })]

cancelUntil(s, level) ==
  IF decisionLevel(s) <= level THEN s
  ELSE LET n == s.lim[level + 1]
           undone == { s.trail[i].lit : i \in n + 1 .. Len(s.trail) }
       IN [s EXCEPT !.polarity = [v \in DOMAIN @ |-> IF v \in undone THEN FALSE
                                                     ELSE IF -v \in undone THEN TRUE
                                                     ELSE @[v]],
                    !.heap = @ \cup { Var(l) : l \in undone },
                    !.qhead = n,
                    !.trail = SubSeq(@, 1, n),
                    !.lim = SubSeq(@, 1, level)]

-----------------------------------------------------------------------------
(* propagate.  r is the solver, the watches of p kept so far and the       *)
(* conflict (0: none); one watcher of p is looked at.  The other watched   *)
(* literal of its clause goes first.                                       *)
FalseStays(c, p) == c

FalseSecond(c, p) == IF c[1] = -p THEN [c EXCEPT ![1] = c[2], ![2] = -p] ELSE c

Keep(r, s, w) == [r EXCEPT !.s = s, !.kept = Append(@, w)]

WatchInstead(s, k, p, v, c) ==
  [s EXCEPT !.clause[v.cref] = [c EXCEPT ![2] = c[k], ![k] = -p],
            !.watches[-c[k]] = Append(@, v)]

NotFalse(s, c) == { k \in 3 .. Len(c) : ~IsFalse(s, c[k]) }

Examine(r, s, p, v, c) ==
  CASE IsTrue(s, c[1]) -> Keep(r, s, v)
    [] ~IsTrue(s, c[1]) /\ NotFalse(s, c) # {} ->
         [r EXCEPT !.s = WatchInstead(s, Min(NotFalse(s, c)), p, v, c)]
    [] IsFalse(s, c[1]) /\ NotFalse(s, c) = {} ->
         [Keep(r, [s EXCEPT !.qhead = Len(s.trail)], v) EXCEPT !.confl = v.cref]
    [] OTHER -> Keep(r, uncheckedEnqueue(s, c[1], v.cref), v)

Ordered(s, p, c) == [s EXCEPT !.clause[c] = FalseSecond(@, p)]

ExamineOrdered(r, s, p, c) == Examine(r, s, p, Watcher(c, s.clause[c][1]), s.clause[c])

LookAtUntilConflict(r, p, w) ==
  IF r.confl # 0 THEN r
  ELSE IF IsTrue(r.s, w.blocker) THEN Keep(r, r.s, w)
  ELSE ExamineOrdered(r, Ordered(r.s, p, w.cref), p, w.cref)

LookAt(r, p, w) ==
  IF r.confl # 0 \/ IsTrue(r.s, w.blocker) THEN Keep(r, r.s, w)
  ELSE ExamineOrdered(r, Ordered(r.s, p, w.cref), p, w.cref)

(* One literal of the trail.                                               *)
Settled(r, p) ==
  [ s |-> [r.s EXCEPT !.watches[p] = r.kept, !.simpProps = @ - 1], confl |-> r.confl ]

LookAtAll(r, p, ws) == Loop(LAMBDA x, w : LookAt(x, p, w), r, ws)

PropagateOne(s, p) ==
  Settled(LookAtAll([s |-> [s EXCEPT !.qhead = @ + 1], kept |-> <<>>, confl |-> 0],
                    p, s.watches[p]),
          p)

(* The solver and the conflict when the trail is through.                  *)
PropagateNext(r) ==
  IF r.s.qhead < Len(r.s.trail) THEN PropagateOne(r.s, r.s.trail[r.s.qhead + 1].lit) ELSE r

PropagateFor(r, vs) == Loop(LAMBDA x, v : PropagateNext(x), r, vs)

Propagated(s) == PropagateFor([s |-> s, confl |-> 0], [v \in DOMAIN s.polarity |-> v])

-----------------------------------------------------------------------------
(* addClause_: a sorted clause loses its false and repeated literals; one  *)
(* that is true or has both literals of a variable is not added.           *)
Before(a, b) == Var(a) < Var(b) \/ (Var(a) = Var(b) /\ a > b)

InOrder(lits) ==
  CHOOSE c \in [1 .. Cardinality(lits) -> lits] :
    \A i, j \in DOMAIN c : i < j => Before(c[i], c[j])

Checked(r) == [r.s EXCEPT !.ok = (r.confl = 0)]

AddSorted(s, lits) ==
  CASE Len(lits) = 0 -> [s EXCEPT !.ok = FALSE]
    [] Len(lits) = 1 -> Checked(Propagated(uncheckedEnqueue(s, lits[1], 0)))
    [] OTHER -> [Attached(s, FreshRef(s), lits) EXCEPT !.orig = @ \cup {FreshRef(s)}]

AddKept(s, kept) ==
  IF \E l \in kept : IsTrue(s, l) \/ -l \in kept THEN s
  ELSE AddSorted(s, InOrder(kept))

AddClause(s, raw) ==
  IF s.ok THEN AddKept(s, { l \in Range(raw) : ~IsFalse(s, l) }) ELSE s

(* simplify, at level 0.                                                   *)
Rebuilt(s) ==
  [s EXCEPT !.heap = DOMAIN s.polarity \ Assigned(s),
            !.simpAssigns = Len(s.trail),
            !.simpProps = SumFunctionOnSet([c \in DOMAIN s.clause |-> Len(s.clause[c])],
                                           DOMAIN s.clause)]

WithoutSatisfied(s) ==
  IF Len(s.trail) = s.simpAssigns \/ s.simpProps > 0 THEN s
  ELSE Rebuilt(Removed(s, { c \in DOMAIN s.clause : Satisfied(s, c) }))

SimplifyPropagated(r) == IF r.confl # 0 THEN Checked(r) ELSE WithoutSatisfied(r.s)

Simplified(s) == IF s.ok THEN SimplifyPropagated(Propagated(s)) ELSE s

(* reduceDB: of the learnt clauses of more than two literals the least     *)
(* active ones, at least enough of them to fill the first half, go unless  *)
(* they are locked.                                                        *)
Reductions(s) ==
  LET long == { c \in s.learnt : Len(s.clause[c]) > 2 }
      half == Cardinality(s.learnt) \div 2
      enough(p) == Cardinality(p) >= half \/ p = long
  IN { Removed(s, { c \in p : ~Locked(s, c) }) : p \in { q \in SUBSET long : enough(q) } }

-----------------------------------------------------------------------------
(* analyze: the first unique implication point.  r counts in path the      *)
(* literals of the current level that are seen and not yet replaced by     *)
(* their reasons; the others are collected.                                *)
AbsorbOne(s, r, l) ==
  CASE Var(l) \in r.seen \/ LevelOf(s, l) = 0 -> r
    [] Var(l) \notin r.seen /\ LevelOf(s, l) >= decisionLevel(s) ->
         [r EXCEPT !.seen = @ \cup {Var(l)}, !.path = @ + 1]
    [] OTHER -> [r EXCEPT !.seen = @ \cup {Var(l)}, !.lits = Append(@, l)]

Absorb(s, r, lits) == Loop(LAMBDA x, l : AbsorbOne(s, x, l), r, lits)

Resolve(s, r, e) ==
  CASE r.uip # 0 \/ Var(e.lit) \notin r.seen -> r
    [] r.uip = 0 /\ Var(e.lit) \in r.seen /\ r.path = 1 -> [r EXCEPT !.uip = -e.lit, !.path = 0]
    [] OTHER -> Absorb(s, [r EXCEPT !.path = @ - 1, !.seen = @ \ {Var(e.lit)}],
                       Tail(s.clause[e.reason]))

Unresolved(s, confl) ==
  Absorb(s, [seen |-> {}, path |-> 0, lits |-> <<>>, uip |-> 0], s.clause[confl])

ResolveAll(s, r, es) == Loop(LAMBDA x, e : Resolve(s, x, e), r, es)

FirstUip(s, confl) ==
  LET r == ResolveAll(s, Unresolved(s, confl), Reverse(s.trail)) IN <<r.uip>> \o r.lits

MinimizedByReason(s, learnt) ==
  <<Head(learnt)>> \o Only(Tail(learnt), { l \in Range(learnt) : Entry(s, Var(l)).reason = 0 })

(* litRedundant: l is implied by the other literals of the learnt clause,  *)
(* going back through reasons at levels that the clause seems to name: of  *)
(* a level only the lowest five bits are compared.                         *)
abstractLevel(level) == level % 32

Antecedents(s, e) == { Var(l) : l \in Range(Tail(s.clause[e.reason])) }

Follow(s, learnt, known, e) ==
  IF \/ e.level = 0
     \/ Var(e.lit) \in { Var(l) : l \in Range(learnt) }
     \/ /\ e.reason # 0
        /\ abstractLevel(e.level) \in { abstractLevel(LevelOf(s, l)) : l \in Range(Tail(learnt)) }
        /\ Antecedents(s, e) \subseteq known
  THEN known \cup {Var(e.lit)}
  ELSE known

Following(s, learnt) == Loop(LAMBDA known, e : Follow(s, learnt, known, e), {}, s.trail)

Redundant(s, learnt, l) ==
  LET e == Entry(s, Var(l))
  IN e.reason # 0 /\ Antecedents(s, e) \subseteq Following(s, learnt)

Minimized(s, learnt) ==
  <<Head(learnt)>> \o Only(Tail(learnt), { l \in Range(learnt) : ~Redundant(s, learnt, l) })

(* The literal of the next-highest level is put second; the search goes    *)
(* back to its level, or to level 0.                                       *)
Arranged(s, learnt) ==
  LET top == { i \in 2 .. Len(learnt) :
                 \A j \in 2 .. Len(learnt) : LevelOf(s, learnt[j]) <= LevelOf(s, learnt[i]) }
      i == CHOOSE k \in top : \A j \in top : k <= j
  IN IF Len(learnt) < 3 THEN learnt
     ELSE [learnt EXCEPT ![2] = learnt[i], ![i] = learnt[2]]

(* search, after a conflict above level 0.                                 *)
BackLevel(s, learnt) == IF Len(learnt) = 1 THEN 0 ELSE LevelOf(s, learnt[2])

Asserting(s, c, learnt) ==
  IF Len(learnt) = 1 THEN uncheckedEnqueue(s, learnt[1], 0)
  ELSE uncheckedEnqueue([Attached(s, c, learnt) EXCEPT !.learnt = @ \cup {c}], learnt[1], c)

LearnClause(s, learnt) ==
  Asserting(cancelUntil(s, BackLevel(s, learnt)), FreshRef(s), learnt)

Learned(s, confl) == LearnClause(s, Arranged(s, Minimized(s, FirstUip(s, confl))))

(* analyzeFinal: the assumptions that made -p true, as a clause with p.    *)
Blame(s, r, e) ==
  CASE Var(e.lit) \notin r.seen -> r
    [] Var(e.lit) \in r.seen /\ e.reason = 0 -> [r EXCEPT !.out = @ \cup {-e.lit}]
    [] OTHER -> [r EXCEPT !.seen = @ \cup
                   { Var(l) : l \in { k \in Range(Tail(s.clause[e.reason])) : LevelOf(s, k) > 0 } }]

BlameAll(s, r, es) == Loop(LAMBDA x, e : Blame(s, x, e), r, es)

Blamed(s, p) ==
  BlameAll(s, [seen |-> {Var(p)}, out |-> {p}],
           Reverse(SubSeq(s.trail, s.lim[1] + 1, Len(s.trail))))

analyzeFinal(s, p) == IF decisionLevel(s) = 0 THEN {p} ELSE Blamed(s, p).out

=============================================================================
