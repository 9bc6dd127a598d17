----------------------------- MODULE MCConvert -----------------------------
(***************************************************************************)
(* Convert on an Enum, a Range and a Boolean, with every constraint of a    *)
(* few shapes over a few comparisons, and on small CASA and CNF files.      *)
(***************************************************************************)
EXTENDS Convert

MCParams == << [name |-> "e", pt |-> "Enum", values |-> <<"x", "y">>],
               [name |-> "r", pt |-> "Range", values |-> <<1, 2, 3>>],
               [name |-> "b", pt |-> "Bool", values |-> <<TRUE, FALSE>>] >>

Name(n) == Atom("Value", <<n>>)
Rel(op, left, right) == BinOp(<<op>>, <<left, right>>)
Cmp(op, v) == Rel(op, Name("r"), Atom("Int", v))
IsX == Rel("==", Name("e"), Name("x"))

\* Comparisons of every kind, with marks on either side of the Boolean ones,
\* and with values outside the range.
Simple ==
  { Name("b"), Not(Not(Name("b"))), IsX, Not(Rel("!=", Name("e"), Name("y"))),
    Rel("==", Not(Name("b")), Atom("Bool", TRUE)),
    Not(Rel("!=", Name("b"), Not(Atom("Bool", TRUE)))) }
  \cup { Cmp(op, v) : op \in {"==", "!=", "<", "<=", ">", ">="}, v \in {0, 2, 3} }

Few == { Not(Name("b")), IsX, Cmp("<", 3), Cmp("==", 9) }

Pairs(A, B) == { BinOp(<<op>>, <<x, y>>) : op \in {"and", "or", "->", "<->"}, x \in A, y \in B }

Signed(A) == A \cup { Not(x) : x \in A }

Three == { BinOp(<<op, op>>, <<x, y, Not(x)>>) : op \in {"and", "or"}, x \in Few, y \in Few }

Nested == Pairs(Few \ {IsX}, Signed(Pairs({IsX, Name("b")}, Few)))
            \cup Pairs(Signed(Pairs({IsX, Cmp(">", 1)}, {Name("b"), IsX})), {Cmp("<", 3)})

MCCtwFiles ==
  { <<x>> : x \in Signed(Simple) \cup Signed(Pairs(Few, Few)) \cup Signed(Three) \cup Signed(Nested) }
    \cup { <<x, y>> : x \in Pairs({Name("b")}, Few), y \in Pairs({Cmp(">=", 2)}, {IsX}) }

Pos(v) == [var |-> v, neg |-> FALSE]
Neg(v) == [var |-> v, neg |-> TRUE]

\* Symbols 0, 1 of the first option, 2, 3, 4 of the second, 5, 6 of the third.
CasaClauses ==
  { << Neg(0), Pos(3) >>, << Neg(2), Neg(6) >>, << Pos(2), Pos(4), Pos(5) >>, << Neg(3), Pos(1), Neg(3) >>,
    << Neg(2), Neg(3) >>, << Pos(0), Pos(1), Neg(4) >>, << Pos(2) >>, << Neg(5), Pos(0) >> }

Upto3(S) == UNION { [1..n -> S] : n \in 0..3 }

\* All options are parameters, or the first two are; the last one has two
\* values or three.
MCCasaFiles ==
  [options : {<<2, 3, 2>>}, cared : {0, 2}, clauses : Upto3(CasaClauses)]
    \cup [options : {<<2, 2, 3>>}, cared : {2}, clauses : Upto3(CasaClauses)]

CnfClauses == { <<1>>, <<-1, 2>>, <<-2, -3>>, <<2, -2>>, <<1, 3, -1>>, <<3, 3>>, <<-3, 1, 2>> }

MCCnfFiles == { [vars |-> 3, clauses |-> s] : s \in Upto3(CnfClauses) }
=============================================================================
