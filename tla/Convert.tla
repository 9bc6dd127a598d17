------------------------------ MODULE Convert ------------------------------
(***************************************************************************)
(* From a file to the CNF the generation works on: what main does with a    *)
(* CTW file, with a CASA model, and what the converter tools do with a CNF  *)
(* (src/src/io/ctw_converter.cpp, casa.cpp, cnf.cpp, src/src/main.cpp).     *)
(*                                                                         *)
(* A CTW constraint goes through the passes of Ctw one after the other; the *)
(* clauses of all constraints become a CASA model, which becomes a CNF, or  *)
(* a CNF at once ("target").  The rows found over that CNF are written back *)
(* as values of the parameters.                                             *)
(***************************************************************************)
EXTENDS Ctw, Casa

CONSTANTS
  CtwFiles,    \* sequences of constraints, as trees of the grammar
  CasaFiles,   \* [options, cared, clauses]; cared is 0 when the file does not say
  CnfFiles     \* [vars, clauses]

VARIABLES
  file,        \* [kind, text], kind one of "ctw", "casa", "cnf"
  target,      \* what a CTW file is converted to: "CASA" or "CNF"
  stage,       \* the next thing to do
  constraints, \* of the CTW model, as read
  at,          \* the constraint in work
  tree,        \* its nodes
  work,        \* the clauses so far (see Ctw)
  casa, cnf    \* the models made of them

vars == <<file, target, stage, constraints, at, tree, work, casa, cnf>>
----------------------------------------------------------------------------
(* The text of a tree: brackets where the grammar would read it otherwise.  *)

LevelOf(ast) ==
    IF ast.k = "binop" THEN CHOOSE l \in DOMAIN Dict : ast.opt[1] \in Dict[l]
    ELSE Len(Dict) + 1

RECURSIVE Text(_, _)
Text(ast, level) ==
    LET inside == Text(ast, 1)
        operand(i) == Text(ast.opr[i], LevelOf(ast) + 1)
    IN  CASE LevelOf(ast) < level -> << [t |-> "("] >> \o inside \o << [t |-> ")"] >>
          [] ast.k = "atom" -> << [t |-> "atom", at |-> ast.at, val |-> ast.val] >>
          [] ast.k = "not" -> << [t |-> "not"] >> \o Text(ast.inner, Len(Dict) + 1)
          [] OTHER -> operand(1) \o
                      FlattenSeq([i \in DOMAIN ast.opt |-> << [t |-> ast.opt[i]] >> \o operand(i + 1)])
----------------------------------------------------------------------------
(* Symbols of the parameters, in order; in a CASA model a Boolean has two.  *)

SymbolsOf(p, to) ==
    IF p.pt = "Bool"
    THEN IF to = "CASA" THEN << <<p.name>>, <<p.name, FALSE>> >> ELSE << <<p.name>> >>
    ELSE [k \in DOMAIN p.values |-> <<p.name, p.values[k]>>]

ParamSymbols(to) == FlattenSeq([i \in DOMAIN Params |-> SymbolsOf(Params[i], to)])

\* A CASA model numbers two symbols for each symbol added.
Var2Int(to, val) ==
    LET symbols == ParamSymbols(to)
    IN  CASE val = Top -> 1
          [] val[1] = "@tmp" -> IF to = "CNF" THEN val[2] ELSE 2 * val[2] - Len(symbols) - 1
          [] OTHER -> CHOOSE i \in DOMAIN symbols : symbols[i] = val

\* What each symbol is called in the output.
VarMapping(i) ==
    LET val == ParamSymbols("CASA")[i] IN IF Len(val) = 1 THEN TRUE ELSE val[2]

CtwToCasa(w) ==
    LET added == w.varcount - Len(ParamSymbols("CASA"))
    IN  NewCasa(Len(Params),
                [i \in DOMAIN Params |-> Len(Params[i].values)] \o [i \in 1..added |-> 2],
                [i \in DOMAIN w.encoded |->
                    [j \in DOMAIN w.encoded[i] |->
                        [var |-> Var2Int("CASA", w.encoded[i][j].val) - 1,
                         neg |-> w.encoded[i][j].not]]])

CtwToCnf(w) ==
    LET many == SelectSeq(Params, LAMBDA p : p.pt # "Bool")
        first(p) == Var2Int("CNF", <<p.name, p.values[1]>>)
        last(p) == first(p) + Len(p.values) - 1
        lit(leaf) == IF leaf.not THEN -Var2Int("CNF", leaf.val) ELSE Var2Int("CNF", leaf.val)
    IN  [vars |-> w.varcount, cared |-> Len(ParamSymbols("CNF")),
         clauses |-> FlattenSeq([i \in DOMAIN many |-> ExactlyOne(first(many[i]), last(many[i]))])
                       \o << <<w.varcount, -w.varcount>> >>
                       \o [i \in DOMAIN w.encoded |->
                             [j \in DOMAIN w.encoded[i] |-> lit(w.encoded[i][j])]],
         groups |-> [i \in DOMAIN many |-> first(many[i])..last(many[i])]]
----------------------------------------------------------------------------
Init ==
    /\ file \in [kind : {"ctw"}, text : CtwFiles] \cup [kind : {"casa"}, text : CasaFiles]
                  \cup [kind : {"cnf"}, text : CnfFiles]
    /\ target \in IF file.kind = "ctw" THEN {"CASA", "CNF"} ELSE {"CNF"}
    /\ stage = "read"
    /\ constraints = <<>> /\ at = 1 /\ tree = <<>>
    /\ work = [encoded |-> <<>>, varcount |-> Len(ParamSymbols(target)), leaves |-> <<>>]
    /\ casa = <<>> /\ cnf = <<>>

ReadCtw ==
    /\ stage = "read" /\ file.kind = "ctw"
    /\ constraints' = [i \in DOMAIN file.text |-> ReadImplExpr(Text(file.text[i], 1))]
    /\ stage' = "compile"
    /\ UNCHANGED <<file, target, at, tree, work, casa, cnf>>

Pass(here, next, result) ==
    /\ stage = here /\ tree' = result /\ stage' = next
    /\ UNCHANGED <<file, target, constraints, at, work, casa, cnf>>

DoCompile   == at <= Len(constraints) /\ Pass("compile", "normalize", CompileExpr(constraints[at]))
DoNormalize == Pass("normalize", "arrows", Normalize(tree, FALSE))
DoArrows    == Pass("arrows", "atomicize", CompileIffImpl(tree))
DoAtomicize == Pass("atomicize", "flatten", Atomicize(tree))
DoFlatten   == Pass("flatten", "encode", Flatten(tree))

DoEncode ==
    /\ stage = "encode"
    /\ work' = Encode(work, tree)
    /\ at' = at + 1 /\ tree' = <<>> /\ stage' = "compile"
    /\ UNCHANGED <<file, target, constraints, casa, cnf>>

FinishCasa ==
    /\ stage = "compile" /\ at > Len(constraints) /\ target = "CASA"
    /\ casa' = CtwToCasa(work)
    /\ stage' = "casa"
    /\ UNCHANGED <<file, target, constraints, at, tree, work, cnf>>

FinishCnf ==
    /\ stage = "compile" /\ at > Len(constraints) /\ target = "CNF"
    /\ cnf' = CtwToCnf(work)
    /\ stage' = "done"
    /\ UNCHANGED <<file, target, constraints, at, tree, work, casa>>

\* A CASA file may say how many of the options are parameters.
ReadCasa ==
    /\ stage = "read" /\ file.kind = "casa"
    /\ LET cared == IF file.text.cared = 0 THEN Len(file.text.options) ELSE file.text.cared
       IN  casa' = ReduceCasa(NewCasa(cared, file.text.options, file.text.clauses))
    /\ stage' = "casa"
    /\ UNCHANGED <<file, target, constraints, at, tree, work, cnf>>

ConvertCasa ==
    /\ stage = "casa"
    /\ cnf' \in CasaToCnf(casa)
    /\ stage' = "done"
    /\ UNCHANGED <<file, target, constraints, at, tree, work, casa>>

ReadCnf ==
    /\ stage = "read" /\ file.kind = "cnf"
    /\ cnf' = ParseCnf(file.text.vars, file.text.clauses)
    /\ stage' = "cnf"
    /\ UNCHANGED <<file, target, constraints, at, tree, work, casa>>

\* The generation works on what the coprocessor leaves, the converter tool on
\* the file as it is.
ReduceRead ==
    /\ stage = "cnf"
    /\ cnf' \in ReduceCnf(cnf)
    /\ stage' = "done"
    /\ UNCHANGED <<file, target, constraints, at, tree, work, casa>>

ConvertCnf ==
    /\ stage = "cnf"
    /\ casa' = CnfToCasa(cnf)
    /\ stage' = "done"
    /\ UNCHANGED <<file, target, constraints, at, tree, work, cnf>>

Next == \/ ReadCtw \/ DoCompile \/ DoNormalize \/ DoArrows \/ DoAtomicize \/ DoFlatten
        \/ DoEncode \/ FinishCasa \/ FinishCnf \/ ReadCasa \/ ConvertCasa
        \/ ReadCnf \/ ReduceRead \/ ConvertCnf

Spec == Init /\ [][Next]_vars
----------------------------------------------------------------------------
(* What the constraints mean: a configuration has a value for each          *)
(* parameter.                                                               *)

Configs ==
    { [i \in DOMAIN Params |-> Params[i].values[ix[i]]] :
        ix \in { x \in [DOMAIN Params -> 1..3] : \A i \in DOMAIN x : x[i] <= Len(Params[i].values) } }

ValueIn(c, name) == c[CHOOSE i \in DOMAIN Params : Params[i].name = name]

Connect(op, v) ==
    CASE op = "and" -> \A i \in DOMAIN v : v[i]
      [] op = "or"  -> \E i \in DOMAIN v : v[i]
      [] op = "->"  -> v[1] => v[2]
      [] op \in {"<->", "=="} -> v[1] = v[2]
      [] op = "!="  -> v[1] # v[2]
      [] op = "<"   -> v[1] < v[2]
      [] op = "<="  -> v[1] <= v[2]
      [] op = ">"   -> v[1] > v[2]
      [] op = ">="  -> v[1] >= v[2]

\* Of a tree of the grammar.
RECURSIVE Means(_, _)
Means(ast, c) ==
    CASE ast.k = "not" -> ~Means(ast.inner, c)
      [] ast.k = "binop" -> Connect(ast.opt[1], [i \in DOMAIN ast.opr |-> Means(ast.opr[i], c)])
      [] ast.at # "Value" -> ast.val
      [] ast.val[1] \in ParamNames -> ValueIn(c, ast.val[1])
      [] OTHER -> ast.val[1]

Allowed == { c \in Configs : \A i \in DOMAIN file.text : Means(file.text[i], c) }

\* Of a symbol: e@x, b, @top (the first symbol there is) or an added one.
SymbolTrue(val, c, tmp) ==
    LET s == IF val = Top THEN ParamSymbols(target)[1] ELSE val
    IN  CASE s[1] = "@tmp" -> tmp[s[2]]
          [] Len(s) = 1 -> ValueIn(c, s[1])
          [] OTHER -> ValueIn(c, s[1]) = s[2]

\* Of a node, before and after its relations have become symbols.
RECURSIVE NodeMeans(_, _)
NodeMeans(n, c) ==
    IF ~n.leaf
    THEN n.not # Connect(n.opt[1], [i \in DOMAIN n.opr |-> NodeMeans(n.opr[i], c)])
    ELSE CASE n.at = "Int" -> n.val
           [] n.at = "Bool" -> n.not # n.val
           [] n.val = Top \/ Len(n.val) = 2 -> n.not # SymbolTrue(n.val, c, <<>>)
           [] n.val[1] \notin ParamNames -> n.val[1]
           [] Param(n.val[1]).pt = "Bool" -> n.not # ValueIn(c, n.val[1])
           [] OTHER -> ValueIn(c, n.val[1])

EncodedHolds(c) ==
    \E tmp \in [Len(ParamSymbols(target)) + 1..work.varcount -> BOOLEAN] :
        \A i \in DOMAIN work.encoded : \E j \in DOMAIN work.encoded[i] :
            work.encoded[i][j].not # SymbolTrue(work.encoded[i][j].val, c, tmp)

(* The tree a text is read as, the tree after each pass, and the clauses    *)
(* with their added symbols say of every configuration what the constraint  *)
(* as written says (CTWModel::parse to process_or_subtree).                 *)
MeaningKept ==
    /\ stage \in {"normalize", "arrows", "atomicize", "flatten", "encode"} =>
          \A c \in Configs : NodeMeans(tree, c) = Means(file.text[at], c)
    /\ stage = "compile" =>
          \A c \in Configs : EncodedHolds(c) = \A i \in 1..at - 1 : Means(file.text[i], c)

CasaRows(opts) ==
    { row \in [1..opts -> 0..Len(casa.casa2cnf) - 1] :
        \A opt \in 1..opts : row[opt] \in Symbols(casa, opt) }

CaredPrefixes ==
    LET solutions == Solutions(cnf)
    IN  { row \in CnfRows(cnf.cared) : Completes(solutions, row) }

Cared(row) == [opt \in 1..casa.cared |-> row[opt]]

\* The rows of parameters that the file allows, as symbols.
AllowedRows ==
    IF file.kind = "ctw"
    THEN { row \in CasaRows(casa.cared) : [i \in DOMAIN row |-> VarMapping(row[i] + 1)] \in Allowed }
    ELSE { Cared(row) : row \in { r \in CasaRows(Len(casa.options)) :
             ValidateCasa([casa EXCEPT !.clauses = file.text.clauses], r) } }

\* Options beside the parameters have no clauses that give them one value; if
\* they have more than two values, they may end up with none or several.
LooseOptions == \E opt \in casa.cared + 1..Len(casa.options) : casa.options[opt] # 2

\* What the later phases take for granted of groups: each parameter of more than
\* two values is a group of its variables, every row sets exactly one of them,
\* and a clause made of some of them alone says that one is set.
GroupsKept ==
    LET solutions == Solutions(cnf)
        varsOf(opt) == { Var(ToCnfLit(casa, v)) : v \in Symbols(casa, opt) }
    IN  /\ Range(cnf.groups) = { varsOf(opt) : opt \in { o \in 1..casa.cared : casa.options[o] # 2 } }
        /\ \A group \in Range(cnf.groups) :
              /\ \A row \in solutions : Cardinality({ v \in group : row[v] = 1 }) = 1
              /\ \E clause \in Range(cnf.clauses) : Range(clause) \subseteq group

(* The rows of the CNF, written back, are the rows the file allows, whether *)
(* the coprocessor has rewritten the CNF or not, and the check at the end   *)
(* accepts them; with loose options there may be more of them, but never    *)
(* fewer.  Written back and read again, a row keeps the values of all       *)
(* variables that stand for parameters, the two forms are told apart, and   *)
(* the groups are those of the parameters (check_force_tuple counts on it). *)
(* From a CTW file to a CNF at once, the rows are the true symbols of the   *)
(* configurations; the CASA model made of a CNF has its solutions.          *)
(* (convert_to, reduce_casa, reduce_cnf, cnf2casa, casa2cnf,                *)
(* assert_array_valid, main.)                                               *)
SameRows ==
    stage = "done" =>
      CASE file.kind = "cnf" ->
             LET allowed == { r \in CnfRows(cnf.vars) : ValidateCnf(file.text.clauses, r) }
             IN  IF casa = <<>> THEN CaredPrefixes = allowed
                 ELSE { Casa2Cnf(casa, row) :
                          row \in { r \in CasaRows(cnf.vars) : ValidateCasa(casa, r) } } = allowed
        [] file.kind = "ctw" /\ target = "CNF" ->
             CaredPrefixes = { [v \in 1..cnf.cared |->
                IF SymbolTrue(ParamSymbols("CNF")[v], c, <<>>) THEN 1 ELSE 0] : c \in Allowed }
        [] OTHER ->
             LET solutions == Solutions(cnf)
                 allowed == AllowedRows
                 written == { Cnf2Casa(casa, row) : row \in solutions }
                 accepted == { row \in CasaRows(casa.cared) : ArrayRowValid(casa, solutions, row) }
             IN  /\ allowed \subseteq written \cap accepted
                 /\ ~LooseOptions => written = allowed /\ accepted = allowed
                 /\ \A row \in solutions :
                       /\ ~IsCasa(row)
                       /\ Casa2Cnf(casa, Cnf2Casa(casa, row)) = SubSeq(row, 1, ParamVars(casa))
                 /\ \A row \in CasaRows(casa.cared) : IsCasa(row)
                 /\ GroupsKept
=============================================================================
