-------------------------------- MODULE Ddnnf --------------------------------
(***************************************************************************)
(* The d-DNNF validator: reading a compiled formula, and asking it whether  *)
(* a tuple can be completed (src/src/io/ddnnf.cpp, ddnnf.hpp, solvers.hpp). *)
(*                                                                         *)
(* The compilers are external programs.  What they write is a smooth        *)
(* decomposable graph: the operands of AND share no variable, the operands  *)
(* of OR have the same variables (WellFormed).  The last line is the root.  *)
(* A tuple is a sequence of literals of different variables.                *)
(***************************************************************************)
EXTENDS Integers, Sequences, SequencesExt

CONSTANT NnfFiles   \* sequences of [ty, lit, tar], tar the lines of the operands

VARIABLES
  nodes,     \* [ty, lit, tar, from, vars]; vars has the operand a variable is in
  degrees,   \* operands of a node that have not passed on their variables
  queue      \* nodes that are to pass theirs on

vars == <<nodes, degrees, queue>>

Var(lit) == IF lit < 0 THEN -lit ELSE lit
Root == Len(nodes)
----------------------------------------------------------------------------
(* Reading: a node knows its variables when all its operands know theirs.   *)

Lines(file, P(_)) == SelectSeq([i \in DOMAIN file |-> i], P)

Init ==
    \E file \in NnfFiles :
      /\ nodes = [i \in DOMAIN file |->
                    [ty   |-> file[i].ty, lit |-> file[i].lit, tar |-> file[i].tar,
                     from |-> Lines(file, LAMBDA p : i \in Range(file[p].tar)),
                     vars |-> [v \in IF file[i].ty = "LIT" THEN {Var(file[i].lit)} ELSE {} |-> -1]]]
      /\ degrees = [i \in DOMAIN file |-> Len(file[i].tar)]
      /\ queue = Lines(file, LAMBDA i : file[i].ty = "LIT")

\* The first operand to bring a variable is the one it is looked for in.
WithVarsOf(node, u) ==
    [node EXCEPT !.vars = [v \in DOMAIN @ \cup DOMAIN nodes[u].vars |->
                              IF v \in DOMAIN @ THEN @[v] ELSE u]]

PushedAtFirst(p) == degrees[p] = Len(nodes[p].tar)   \* a bug: the other operands are not awaited
Pushed(p) == degrees[p] = 1

Propagate ==
    /\ queue # <<>>
    /\ LET u == Head(queue)
           above == nodes[u].from
       IN  /\ nodes' = [i \in DOMAIN nodes |->
                          IF i \in Range(above) THEN WithVarsOf(nodes[i], u) ELSE nodes[i]]
           /\ degrees' = [i \in DOMAIN nodes |->
                            IF i \in Range(above) THEN degrees[i] - 1 ELSE degrees[i]]
           /\ queue' = Tail(queue) \o SelectSeq(above, Pushed)

Next == Propagate

Spec == Init /\ [][Next]_vars
----------------------------------------------------------------------------
(* check_valid.                                                             *)

VarAt(i, lit) == IF Var(lit) \in DOMAIN nodes[i].vars THEN nodes[i].vars[Var(lit)] ELSE -1

\* For tuples of any length: AND asks each operand for the literals it has.
RECURSIVE CheckValid(_, _)
CheckValid(i, tuple) ==
    LET node == nodes[i]
        asked == { VarAt(i, tuple[k]) : k \in DOMAIN tuple } \ {-1}
    IN  CASE node.ty = "LIT" -> tuple[1] # -node.lit
          [] node.ty = "OR"  -> \E k \in DOMAIN node.tar : CheckValid(node.tar[k], tuple)
          [] node.ty = "AND" ->
               \A c \in asked : CheckValid(c, SelectSeq(tuple, LAMBDA lit : VarAt(i, lit) = c))

\* For up to three literals, case by case.
RECURSIVE CheckArray(_, _)
CheckArray(i, t) ==
    LET node == nodes[i]
        c(k) == VarAt(i, t[k])
        same(j, k) == c(j) = c(k)
    IN  CASE i = -1 -> TRUE
          [] i # -1 /\ node.ty = "LIT" -> t[1] # -node.lit
          [] i # -1 /\ node.ty = "OR" -> \E k \in DOMAIN node.tar : CheckArray(node.tar[k], t)
          [] i # -1 /\ node.ty = "AND" ->
               CASE Len(t) = 1 -> CheckArray(c(1), t)
                 [] Len(t) = 2 ->
                      IF same(1, 2) THEN CheckArray(c(1), t)
                      ELSE CheckArray(c(1), <<t[1]>>) /\ CheckArray(c(2), <<t[2]>>)
                 [] Len(t) = 3 ->
                      IF same(1, 2) /\ same(2, 3) THEN CheckArray(c(1), t)
                      ELSE IF same(1, 2) THEN CheckArray(c(1), <<t[1], t[2]>>) /\ CheckArray(c(3), <<t[3]>>)
                      ELSE IF same(1, 3) THEN CheckArray(c(1), <<t[1], t[3]>>) /\ CheckArray(c(2), <<t[2]>>)
                      ELSE IF same(2, 3) THEN CheckArray(c(1), <<t[1]>>) /\ CheckArray(c(2), <<t[2], t[3]>>)
                      ELSE \A k \in 1..3 : CheckArray(c(k), <<t[k]>>)
----------------------------------------------------------------------------
(* What the graph means, and what a compiler writes.                        *)

RECURSIVE Holds(_, _, _), VarsOf(_, _)
Holds(file, i, a) ==
    CASE file[i].ty = "LIT" -> a[Var(file[i].lit)] = (file[i].lit > 0)
      [] file[i].ty = "AND" -> \A k \in DOMAIN file[i].tar : Holds(file, file[i].tar[k], a)
      [] file[i].ty = "OR"  -> \E k \in DOMAIN file[i].tar : Holds(file, file[i].tar[k], a)

VarsOf(file, i) ==
    IF file[i].ty = "LIT" THEN {Var(file[i].lit)}
    ELSE UNION { VarsOf(file, x) : x \in Range(file[i].tar) }

WellFormed(file) ==
    \A i \in DOMAIN file :
      /\ file[i].ty # "LIT" => file[i].tar # <<>>
      /\ \A j, k \in DOMAIN file[i].tar : j # k =>
           LET left == VarsOf(file, file[i].tar[j])
               right == VarsOf(file, file[i].tar[k])
           IN  IF file[i].ty = "AND" THEN left \cap right = {}
               ELSE left = right /\ file[i].tar[j] # file[i].tar[k]

Models == { a \in [VarsOf(nodes, Root) -> BOOLEAN] : Holds(nodes, Root, a) }

Tuples ==
    LET n == VarsOf(nodes, Root)
        lits == n \cup { -v : v \in n }
    IN  { t \in UNION { [1..k -> lits] : k \in 1..3 } :
            \A j, k \in DOMAIN t : j # k => Var(t[j]) # Var(t[k]) }

Completable(t) == \E a \in Models : \A k \in DOMAIN t : a[Var(t[k])] = (t[k] > 0)

(* The validator accepts exactly the tuples that a solution contains, and   *)
(* both ways of asking it agree, whatever the shape of the graph, its shared *)
(* parts and the order of its lines (DDNNF::parse, check_valid).            *)
ValidatorExact ==
    queue = <<>> =>
      \A t \in Tuples :
        /\ CheckValid(Root, t) = Completable(t)
        /\ CheckArray(Root, t) = Completable(t)
=============================================================================
