----------------------------- MODULE PbInstance -----------------------------
(***************************************************************************)
(* The formula that PbOCCSATSolver searches, as build_instance makes it    *)
(* from the lines of a CNF file.  A literal is v or -v, as in the file; a  *)
(* clause of the file is a sequence of literals.                           *)
(***************************************************************************)
EXTENDS Integers, SequencesExt, Loops

CONSTANT
  Files         \* the files: the variables the header declares, the clauses

ASSUME PbInstanceAssumption ==
  \A file \in Files :
    /\ file.vars \in Nat \ {0}
    /\ file.clauses \in Seq(Seq({ l \in -file.vars .. file.vars : l # 0 }) \ {<<>>})

VARIABLE
  inst          \* the tables that build_instance makes; see Built

-----------------------------------------------------------------------------
VarOf(l) == IF l < 0 THEN -l ELSE l
Sense(l) == IF l > 0 THEN 1 ELSE 0

(* The variables that the literals of a sequence name.                     *)
VarsIn(lits) == [i \in DOMAIN lits |-> VarOf(lits[i])]

(* Mutant: a clause that names a variable twice is taken for a tautology.  *)
RedundantTwice(raw) == \E i, j \in DOMAIN raw : i # j /\ VarOf(raw[i]) = VarOf(raw[j])

(* A clause with both literals of a variable is dropped, and the number of *)
(* clauses with it; an element that is repeated is kept once.              *)
Redundant(raw) == \E i, j \in DOMAIN raw : raw[i] = -raw[j]

Deduplicated(raw) ==
  LET first == Only([i \in DOMAIN raw |-> i],
                    { i \in DOMAIN raw : \A j \in 1 .. (i - 1) : raw[j] # raw[i] })
  IN [k \in DOMAIN first |-> raw[first[k]]]

(* clause_lit.                                                             *)
ClausesOf(file) ==
  LET kept == Only(file.clauses, { raw \in Range(file.clauses) : ~Redundant(raw) })
  IN [c \in DOMAIN kept |-> Deduplicated(kept[c])]

(* var_lit: the clauses that name v, in order, and with which sense.       *)
Occurrences(lit, v) ==
  LET cs == Only([c \in DOMAIN lit |-> c], { c \in DOMAIN lit : v \in Range(VarsIn(lit[c])) })
  IN [k \in DOMAIN cs |-> [clause |-> cs[k], sense |-> IF v \in Range(lit[cs[k]]) THEN 1 ELSE 0]]

(* build_neighbor_relation: the variables that share a clause with v, in   *)
(* the order in which its clauses name them.                               *)
Neighbours(lit, v) ==
  LET occ == Occurrences(lit, v)
      met == Loop(LAMBDA before, o : before \o VarsIn(lit[o.clause]), <<>>, occ)
  IN Only(Deduplicated(met), Range(met) \ {v})

(* build_instance.                                                         *)
Built(file) ==
  LET lit == ClausesOf(file)
  IN [ file        |-> file,
       clauseLit   |-> lit,
       clauseVars  |-> [c \in DOMAIN lit |-> Range(VarsIn(lit[c]))],
       varLit      |-> [v \in 1 .. file.vars |-> Occurrences(lit, v)],
       varNeighbor |-> [v \in 1 .. file.vars |-> Neighbours(lit, v)] ]

ClauseLit   == inst.clauseLit
ClauseVars  == inst.clauseVars
VarLit      == inst.varLit
VarNeighbor == inst.varNeighbor

NumVars    == inst.file.vars
Vars       == 1 .. NumVars
NumClauses == Len(ClauseLit)
Clauses    == 1 .. NumClauses

VarsOfClause(c) == VarsIn(ClauseLit[c])

(* var_pos_lit_count, var_neg_lit_count, and all_pos_lit_count and         *)
(* all_neg_lit_count, their sums.                                          *)
LitCount(v, sense) == Len(SelectSeq(VarLit[v], LAMBDA o : o.sense = sense))

AllLitCount(sense) == SumFunctionOnSet([v \in Vars |-> LitCount(v, sense)], Vars)

(* get_fixed_var_assignment: the literals of the clauses of length one.    *)
FixedVarAssignment ==
  LET units == SelectSeq(ClauseLit, LAMBDA c : Len(c) = 1)
  IN [i \in DOMAIN units |-> units[i][1]]

(* verify_soln.                                                            *)
VerifySoln(soln) ==
  \A c \in Clauses : \E i \in DOMAIN ClauseLit[c] :
    soln[VarOf(ClauseLit[c][i])] = Sense(ClauseLit[c][i])

=============================================================================
