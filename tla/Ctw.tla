-------------------------------- MODULE Ctw --------------------------------
(***************************************************************************)
(* The constraints of a CTW file: the grammar that reads them and the       *)
(* passes that turn one into clauses over symbols (src/src/io/ctw.cpp).     *)
(*                                                                         *)
(* A constraint as the grammar reads it is a tree of atoms, negations and   *)
(* operators.  Compiling gives nodes that carry their negation as a mark    *)
(* ("not") and the operators between their operands ("opt", "opr").  A      *)
(* value atom is a name, <<"e">>; atomicize makes symbols of names:         *)
(* <<"e", "x">> for e@x, <<"b">> for a Boolean b, <<"@tmp", 7>> for @tmp7.  *)
(* Texts are sequences of tokens: characters, blanks and the messages on    *)
(* malformed files are left out.                                            *)
(***************************************************************************)
EXTENDS Integers, Sequences, SequencesExt

CONSTANT Params    \* sequence of [name, pt, values], a Range with step 1

Param(name) == CHOOSE p \in Range(Params) : p.name = name
ParamNames == {p.name : p \in Range(Params)}
----------------------------------------------------------------------------
(* The grammar: one level of operators per kind of BinOp, loosest first.    *)

Dict == << {"->", "<->"}, {"or"}, {"and"}, {"==", "!="}, {">=", "<=", ">", "<"},
           {"+", "-"}, {"mod", "*", "/"} >>

Atom(at, val) == [k |-> "atom", at |-> at, val |-> val]
Not(inner) == [k |-> "not", inner |-> inner]
BinOp(opt, opr) == [k |-> "binop", opt |-> opt, opr |-> opr]

RECURSIVE ReadBinop(_, _, _), ReadMore(_, _, _), ReadPrimary(_, _)

\* An atom, a negated primary, or a whole expression in brackets.
ReadPrimary(text, st) ==
    CASE text[st].t = "(" -> LET ie == ReadBinop(1, text, st + 1) IN [ie EXCEPT !.st = @ + 1]
      [] text[st].t = "not" -> LET p == ReadPrimary(text, st + 1) IN [p EXCEPT !.ast = Not(@)]
      [] OTHER -> [ast |-> Atom(text[st].at, text[st].val), st |-> st + 1]

ReadOperand(level, text, st) ==
    IF level = Len(Dict) THEN ReadPrimary(text, st) ELSE ReadBinop(level + 1, text, st)

ReadMore(level, text, read) ==
    IF read.st <= Len(text) /\ text[read.st].t \in Dict[level]
    THEN LET o1 == ReadOperand(level, text, read.st + 1)
         IN  ReadMore(level, text, [opt |-> Append(read.opt, text[read.st].t),
                                    opr |-> Append(read.opr, o1.ast), st |-> o1.st])
    ELSE read

\* Operands of the next level as long as an operator of this one follows.
\* A single operand stands for itself.
ReadBinop(level, text, st) ==
    LET o1   == ReadOperand(level, text, st)
        read == ReadMore(level, text, [opt |-> <<>>, opr |-> <<o1.ast>>, st |-> o1.st])
    IN  [ast |-> IF read.opt = <<>> THEN o1.ast ELSE BinOp(read.opt, read.opr), st |-> read.st]

ReadImplExpr(text) == ReadBinop(1, text, 1).ast
----------------------------------------------------------------------------
(* Nodes.                                                                   *)

Leaf(at, val, not) == [leaf |-> TRUE, not |-> not, at |-> at, val |-> val]
Symbol(val) == Leaf("Value", val, FALSE)
Branch(opt, opr) == [leaf |-> FALSE, not |-> FALSE, opt |-> opt, opr |-> opr]
Between(op, opr) == Branch([i \in 1..Len(opr) - 1 |-> op], opr)
Toggle(n) == [n EXCEPT !.not = ~@]

Top == <<"@top">>

RECURSIVE CompileExpr(_)
CompileExpr(ast) ==
    CASE ast.k = "atom" -> Leaf(ast.at, ast.val, FALSE)
      [] ast.k = "not" -> Toggle(CompileExpr(ast.inner))
      [] OTHER -> Branch(ast.opt, [i \in DOMAIN ast.opr |-> CompileExpr(ast.opr[i])])

ThisIsRel(n) == ~n.leaf /\ Len(n.opt) = 1 /\ n.opt[1] \in Dict[4] \cup Dict[5]

OptNegate(op) ==
    CASE op = ">=" -> "<" [] op = "<=" -> ">" [] op = ">" -> "<=" [] op = "<" -> ">="
      [] op = "==" -> "!=" [] op = "!=" -> "=="

\* A marked relation becomes the opposite relation.
PushIntoRel(n) ==
    IF n.not THEN [n EXCEPT !.opt = <<OptNegate(n.opt[1])>>, !.not = FALSE] ELSE n

\* The marks on the two sides of a Boolean comparison cancel or turn it round.
WithoutMarks(n) ==
    IF Param(n.opr[1].val[1]).pt # "Bool" THEN n
    ELSE [n EXCEPT !.opt = IF n.opr[1].not # n.opr[2].not THEN <<OptNegate(n.opt[1])>> ELSE @,
                   !.opr = [i \in 1..2 |-> [n.opr[i] EXCEPT !.not = FALSE]]]

RECURSIVE Normalize(_, _)
Normalize(n, relop_passed) ==
    IF n.leaf
    THEN IF relop_passed THEN n
         ELSE Branch(<<"==">>, << [n EXCEPT !.not = FALSE], Leaf("Bool", ~n.not, FALSE) >>)
    ELSE LET m == [n EXCEPT !.opr = [i \in DOMAIN n.opr |-> Normalize(n.opr[i], ThisIsRel(n))]]
         IN  IF ThisIsRel(n) THEN WithoutMarks(PushIntoRel(m)) ELSE m

WithoutArrowsLate(n) ==   \* a bug: the two sides are copied after they were marked
    CASE n.opt[1] = "->" -> [n EXCEPT !.opt[1] = "or", !.opr[1] = Toggle(@)]
      [] n.opt[1] = "<->" ->
            [n EXCEPT !.opt[1] = "and",
                      !.opr = << Between("or", << Toggle(n.opr[1]), Toggle(n.opr[2]) >>),
                                 Between("or", << Toggle(n.opr[2]), Toggle(n.opr[1]) >>) >>]
      [] OTHER -> n

\* Implications as disjunctions, equivalences as two of them.
WithoutArrows(n) ==
    CASE n.opt[1] = "->" -> [n EXCEPT !.opt[1] = "or", !.opr[1] = Toggle(@)]
      [] n.opt[1] = "<->" ->
            [n EXCEPT !.opt[1] = "and",
                      !.opr = << Between("or", << Toggle(n.opr[1]), n.opr[2] >>),
                                 Between("or", << Toggle(n.opr[2]), n.opr[1] >>) >>]
      [] OTHER -> n

\* De Morgan.
PushIntoOperands(n) ==
    IF n.not THEN Between(IF n.opt[1] = "or" THEN "and" ELSE "or",
                          [i \in DOMAIN n.opr |-> Toggle(n.opr[i])])
    ELSE n

RECURSIVE CompileIffImpl(_)
CompileIffImpl(n) ==
    IF n.leaf THEN n
    ELSE IF ThisIsRel(n) THEN PushIntoRel(n)
    ELSE LET m == PushIntoOperands(WithoutArrows(n))
         IN  [m EXCEPT !.opr = [i \in DOMAIN m.opr |-> CompileIffImpl(m.opr[i])]]
----------------------------------------------------------------------------
(* Relations as symbols.                                                    *)

Lower(a, b) == IF a < b THEN a ELSE b
Upper(a, b) == IF a > b THEN a ELSE b

\* The values of a range, first to last, that a relation speaks of.
RangeValues(op, v, values) ==
    LET l == values[1]
        r == values[Len(values)]
        span == CASE op \in {"==", "!="} -> IF v \in l..r THEN <<v, v>> ELSE <<1, 0>>
                  [] op = "<"  -> << l, Lower(v - 1, r) >>
                  [] op = "<=" -> << l, Lower(v, r) >>
                  [] op = ">"  -> << Upper(v + 1, l), r >>
                  [] op = ">=" -> << Upper(v, l), r >>
    IN  [i \in 1..span[2] - span[1] + 1 |-> span[1] + i - 1]

\* One symbol, a disjunction of symbols, or what no value satisfies.
AtomicizeRange(op, name, v, values) ==
    LET posi == op # "!="
        hits == RangeValues(op, v, values)
        signed == [i \in DOMAIN hits |-> Leaf("Value", <<name, hits[i]>>, ~posi)]
    IN  CASE hits = <<>> -> Between(IF posi THEN "and" ELSE "or",
                                    << Symbol(Top), Toggle(Symbol(Top)) >>)
          [] Len(hits) = 1 -> signed[1]
          [] OTHER -> Between(IF posi THEN "or" ELSE "and", signed)

AtomicizeRel(n) ==
    LET op == n.opt[1]
        name == n.opr[1].val[1]
        right == n.opr[2].val
    IN  CASE Param(name).pt = "Bool" -> Leaf("Value", <<name>>, right = (op = "!="))
          [] Param(name).pt = "Enum" -> Leaf("Value", <<name, right[1]>>, op = "!=")
          [] OTHER -> AtomicizeRange(op, name, right, Param(name).values)

RECURSIVE Atomicize(_)
Atomicize(n) ==
    IF n.leaf THEN n
    ELSE IF ThisIsRel(n) THEN AtomicizeRel(PushIntoRel(n))
    ELSE [n EXCEPT !.opr = [i \in DOMAIN n.opr |-> Atomicize(n.opr[i])]]

\* Operands with the same operator are merged into their parent.
RECURSIVE Flatten(_)
Flatten(n) ==
    IF n.leaf THEN n
    ELSE LET op == n.opt[1]
             parts(c) == IF ~c.leaf /\ c.opt[1] = op THEN c.opr ELSE <<c>>
         IN  Between(op, FlattenSeq([i \in DOMAIN n.opr |-> parts(Flatten(n.opr[i]))]))
----------------------------------------------------------------------------
(* Clauses.  "work" has the clauses so far, the number of the last symbol   *)
(* given out, and the leaves that stand for the operands seen.              *)

\* A new symbol for the subtree, defined in both directions.
RECURSIVE TseitinEncode(_, _)
TseitinEncode(work, n) ==
    IF n.leaf THEN [work EXCEPT !.leaves = Append(@, n)]
    ELSE LET inner == FoldLeft(TseitinEncode, [work EXCEPT !.leaves = <<>>], n.opr)
             subs  == inner.leaves
             this  == Symbol(<<"@tmp", inner.varcount + 1>>)
             conj  == n.opt[1] = "and"
             each  == [i \in DOMAIN subs |-> IF conj THEN << Toggle(this), subs[i] >>
                                                     ELSE << this, Toggle(subs[i]) >>]
             all   == IF conj THEN Append([i \in DOMAIN subs |-> Toggle(subs[i])], this)
                              ELSE Append(subs, Toggle(this))
         IN  [encoded |-> inner.encoded \o Append(each, all),
              varcount |-> inner.varcount + 1, leaves |-> Append(work.leaves, this)]

ProcessOrSubtree(work, n) ==
    LET inner == FoldLeft(TseitinEncode, [work EXCEPT !.leaves = <<>>], n.opr)
    IN  [inner EXCEPT !.encoded = Append(@, inner.leaves), !.leaves = <<>>]

\* One clause per conjunct.
EncodeConjunct(work, n) ==
    IF n.leaf THEN [work EXCEPT !.encoded = Append(@, <<n>>)] ELSE ProcessOrSubtree(work, n)

Encode(work, n) ==
    IF ~n.leaf /\ n.opt[1] = "and" THEN FoldLeft(EncodeConjunct, work, n.opr)
    ELSE EncodeConjunct(work, n)
=============================================================================
