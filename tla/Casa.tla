-------------------------------- MODULE Casa --------------------------------
(***************************************************************************)
(* CASA and CNF models and the way from one to the other                    *)
(* (src/src/io/casa.cpp, cnf.cpp), and the rows of a covering array in both *)
(* forms (src/src/covering_array.hpp).                                      *)
(*                                                                         *)
(* A CASA model has options with so many values each; the values of all     *)
(* options are numbered through from 0: the symbols.  Options are counted   *)
(* from 1 here.  A clause is a sequence of [var, neg], var a symbol.  Only  *)
(* the first "cared" options are the model's parameters, the rest serve     *)
(* the constraints.  A CNF clause is a sequence of non-zero integers.       *)
(***************************************************************************)
EXTENDS Integers, Sequences, FiniteSets, SequencesExt

Var(lit) == IF lit < 0 THEN -lit ELSE lit
----------------------------------------------------------------------------
(* Options and symbols.                                                     *)

CalcOptInfos(casa) ==
    LET options == casa.options
        sum[o \in 0..Len(options)] == IF o = 0 THEN 0 ELSE sum[o - 1] + options[o]
        width(o) == IF options[o] = 2 THEN 1 ELSE options[o]
        vars[o \in 0..Len(options)] == IF o = 0 THEN 0 ELSE vars[o - 1] + width(o)
        lits(o) == IF options[o] = 2 THEN << -(vars[o - 1] + 1), vars[o - 1] + 1 >>
                   ELSE [k \in 1..options[o] |-> vars[o - 1] + k]
    IN  [casa EXCEPT !.counts = [o \in DOMAIN options |-> sum[o]],
                     !.casa2cnf = FlattenSeq([o \in DOMAIN options |-> lits(o)])]

FirstSymbol(casa, opt) == IF opt = 1 THEN 0 ELSE casa.counts[opt - 1]
LastSymbol(casa, opt) == casa.counts[opt] - 1
Symbols(casa, opt) == FirstSymbol(casa, opt)..LastSymbol(casa, opt)
Option(casa, symbol) == CHOOSE opt \in DOMAIN casa.options : symbol \in Symbols(casa, opt)
ToCnfLit(casa, symbol) == casa.casa2cnf[symbol + 1]

NewCasa(cared, options, clauses) ==
    CalcOptInfos([cared |-> cared, options |-> options, clauses |-> clauses,
                  counts |-> <<>>, casa2cnf |-> <<>>])

ValidateCasa(casa, row) ==
    \A i \in DOMAIN casa.clauses : \E j \in DOMAIN casa.clauses[i] :
        LET lit == casa.clauses[i][j]
        IN  lit.neg # (row[Option(casa, lit.var)] = lit.var)

\* 0 and 1 for the value of each variable.
ValidateCnf(clauses, row) ==
    \A i \in DOMAIN clauses : \E j \in DOMAIN clauses[i] :
        row[Var(clauses[i][j])] = (IF clauses[i][j] < 0 THEN 0 ELSE 1)
----------------------------------------------------------------------------
(* reduce_casa: each clause as the set of symbols that satisfy it.          *)

SatisfiedBy(casa, cl) ==
    UNION { IF lit.neg THEN Symbols(casa, Option(casa, lit.var)) \ {lit.var} ELSE {lit.var}
            : lit \in Range(cl) }

\* All symbols of an option but one are written as the absence of that one.
OptionLits(casa, set, opt) ==
    LET mine  == set \cap Symbols(casa, opt)
        unset == Symbols(casa, opt) \ set
        held(v) == v \in mine
    IN  IF Cardinality(mine) # 1 /\ Cardinality(unset) = 1
        THEN << [var |-> CHOOSE v \in unset : TRUE, neg |-> TRUE] >>
        ELSE LET all == [k \in 1..casa.options[opt] |-> FirstSymbol(casa, opt) + k - 1]
                 kept == SelectSeq(all, held)
             IN  [k \in DOMAIN kept |-> [var |-> kept[k], neg |-> FALSE]]

ReducedClause(casa, set) ==
    FlattenSeq([opt \in DOMAIN casa.options |-> OptionLits(casa, set, opt)])

\* A clause that every value of an option satisfies goes: the last clause
\* takes its place, and is passed over.
RECURSIVE ReduceFrom(_, _, _, _)
ReduceFrom(casa, clauses, i, after) ==
    IF i > after THEN SubSeq(clauses, 1, after)
    ELSE LET set == SatisfiedBy(casa, clauses[i])
             full == \E opt \in DOMAIN casa.options : Symbols(casa, opt) \subseteq set
         IN  IF full
             THEN ReduceFrom(casa, [clauses EXCEPT ![i] = clauses[after]], i + 1, after - 1)
             ELSE ReduceFrom(casa, [clauses EXCEPT ![i] = ReducedClause(casa, set)], i + 1, after)

ReduceCasa(casa) ==
    [casa EXCEPT !.clauses = ReduceFrom(casa, @, 1, Len(@))]
----------------------------------------------------------------------------
(* CNF files and the coprocessor.                                           *)

\* Every variable is cared for, and there are no groups.
ParseCnf(vars, clauses) ==
    [vars |-> vars, cared |-> vars, clauses |-> clauses, groups |-> <<>>]

\* What unit propagation, subsumption and strengthening leave of a set of
\* clauses, each a set of literals.
RECURSIVE Simplified(_)
Simplified(F) ==
    LET idle(c) == (\E l \in c : -l \in c) \/ \E d \in F \ {c} : d \subseteq c
        loose(c) == { l \in c : \E d \in F : -l \in d /\ d \ {-l} \subseteq c \ {l} }
        shorten == { c \in F : loose(c) # {} }
    IN  IF \E c \in F : idle(c) THEN Simplified({ c \in F : ~idle(c) })
        ELSE IF shorten = {} THEN F
        ELSE LET c == CHOOSE x \in shorten : TRUE
                 l == CHOOSE x \in loose(c) : TRUE
             IN  Simplified((F \ {c}) \cup {c \ {l}})

\* The coprocessor may do all of this or nothing.
Coprocessed(clauses) ==
    LET listed(S) == FoldSet(LAMBDA x, seq : Append(seq, x), <<>>, S)
        sets == listed(Simplified({ Range(clauses[i]) : i \in DOMAIN clauses }))
    IN  {clauses, [i \in DOMAIN sets |-> listed(sets[i])]}

\* The CNF is left alone if there is no coprocessor, or if its answer has
\* fewer variables; otherwise the answer takes its place in every field.
ReduceCnf(cnf) ==
    {cnf} \cup { ParseCnf(cnf.vars, clauses) : clauses \in Coprocessed(cnf.clauses) }
----------------------------------------------------------------------------
(* From CASA to CNF and back.                                               *)

\* The last of the variables that stand for parameters.
ParamVars(casa) == Var(ToCnfLit(casa, LastSymbol(casa, casa.cared)))

ExactlyOneShort(first, last) ==   \* a bug: the inner loop ends one early
    LET pairs == [i \in 1..last - first |->
                    [j \in 1..last - first - i |-> << -(first + i - 1), -(first + i - 1 + j) >>]]
    IN  << [k \in 1..last - first + 1 |-> first + k - 1] >> \o FlattenSeq(pairs)

\* The variables are not all false, and no two are true.
ExactlyOne(first, last) ==
    LET pairs == [i \in 1..last - first |->
                    [j \in 1..last - first + 1 - i |-> << -(first + i - 1), -(first + i - 1 + j) >>]]
    IN  << [k \in 1..last - first + 1 |-> first + k - 1] >> \o FlattenSeq(pairs)

\* The parameters that are not a single variable, as first and last variable.
Groups(casa) ==
    LET opts == SelectSeq([o \in 1..casa.cared |-> o], LAMBDA o : casa.options[o] # 2)
    IN  [g \in DOMAIN opts |-> << ToCnfLit(casa, FirstSymbol(casa, opts[g])),
                                  ToCnfLit(casa, LastSymbol(casa, opts[g])) >>]

CnfClause(casa, cl) ==
    [j \in DOMAIN cl |-> IF cl[j].neg THEN -ToCnfLit(casa, cl[j].var)
                                      ELSE ToCnfLit(casa, cl[j].var)]

\* Clauses, with the auxiliary options left to the constraints, and no groups.
Encoded(casa) ==
    LET top == Var(Last(casa.casa2cnf))
        groups == Groups(casa)
        exactly == [g \in DOMAIN groups |-> ExactlyOne(groups[g][1], groups[g][2])]
        clauses == [i \in DOMAIN casa.clauses |-> CnfClause(casa, casa.clauses[i])]
    IN  [vars |-> top, cared |-> ParamVars(casa), groups |-> <<>>,
         clauses |-> FlattenSeq(exactly) \o clauses \o << <<top, -top>> >>]

Grouped(casa, cnf) ==
    LET groups == Groups(casa)
    IN  [cnf EXCEPT !.groups = [g \in DOMAIN groups |-> groups[g][1]..groups[g][2]]]

CasaToCnfGroupedFirst(casa) ==   \* a bug: the groups are noted before the CNF is replaced
    ReduceCnf(Grouped(casa, Encoded(casa)))

CasaToCnf(casa) == { Grouped(casa, cnf) : cnf \in ReduceCnf(Encoded(casa)) }

\* A CNF file has no groups: every variable is an option of two values, false
\* before true.
CnfToCasa(cnf) ==
    LET casa == NewCasa(cnf.cared, [v \in 1..cnf.vars |-> 2],
                        [i \in DOMAIN cnf.clauses |->
                            [j \in DOMAIN cnf.clauses[i] |->
                                [var |-> 2 * Var(cnf.clauses[i][j]) - 1,
                                 neg |-> cnf.clauses[i][j] < 0]]])
    IN  ReduceCasa(casa)
----------------------------------------------------------------------------
(* Rows.  A CASA row has a symbol for every parameter, a CNF row 0 or 1 for *)
(* every variable that stands for one.                                      *)

Cnf2Casa(casa, row) ==
    LET holds(v) == LET lit == ToCnfLit(casa, v)
                    IN  IF lit > 0 THEN row[lit] = 1 ELSE row[-lit] = 0
    IN  [opt \in 1..casa.cared |->
            CHOOSE v \in Symbols(casa, opt) :
                holds(v) /\ \A u \in FirstSymbol(casa, opt)..v - 1 : ~holds(u)]

Casa2Cnf(casa, row) ==
    [v \in 1..ParamVars(casa) |->
        IF \E opt \in DOMAIN row : ToCnfLit(casa, row[opt]) = v THEN 1 ELSE 0]

\* main takes a row whose last value exceeds 1 for a CASA row.
IsCasa(row) == Last(row) > 1

CnfRows(n) == { [v \in 1..n |-> IF v \in on THEN 1 ELSE 0] : on \in SUBSET (1..n) }

\* All that the solver may answer.
Solutions(cnf) == { row \in CnfRows(cnf.vars) : ValidateCnf(cnf.clauses, row) }

\* Some solution has these values of the variables up to cared.
Completes(solutions, row) == \E sol \in solutions : \A v \in DOMAIN row : sol[v] = row[v]

\* The solver is asked for a solution with the symbols of the row and none of
\* the other symbols of the parameters.
AssumedLits(casa, row) ==
    { IF sym \in Range(row) THEN ToCnfLit(casa, sym) ELSE -ToCnfLit(casa, sym)
      : sym \in 0..casa.counts[casa.cared] - 1 }

ArrayRowValid(casa, solutions, row) ==
    LET assumed == AssumedLits(casa, row)
    IN  \E sol \in solutions :
          \A lit \in assumed : sol[Var(lit)] = (IF lit < 0 THEN 0 ELSE 1)
=============================================================================
