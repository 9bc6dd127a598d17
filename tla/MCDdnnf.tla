------------------------------ MODULE MCDdnnf ------------------------------
(***************************************************************************)
(* Ddnnf on the graphs over three variables that a compiler by decisions     *)
(* writes: every formula of two variables, and decisions on and products     *)
(* with the third.                                                          *)
(***************************************************************************)
EXTENDS Ddnnf

Tree(ty, lit, kids) == [ty |-> ty, lit |-> lit, kids |-> kids]
L(l) == Tree("LIT", l, <<>>)
A(kids) == Tree("AND", 0, kids)
O(kids) == Tree("OR", 0, kids)

\* A decision may have one branch left.
One(v) == { L(v), O(<<L(-v)>>), O(<<L(v), L(-v)>>) }

\* Either value of v, with a rest for each.
Decisions(v, rest) == { O(<< A(<<L(v), x>>), A(<<L(-v), y>>) >>) : x \in rest, y \in rest }
Products(S, T) == { A(<<x, y>>) : x \in S, y \in T }

Two(v, w) == Products(One(v), One(w)) \cup Decisions(v, One(w))

Three ==
  Products(One(1), Two(2, 3)) \cup Products(Two(1, 3), One(2)) \cup Decisions(2, Two(1, 3))
    \cup { A(<<x, y, z>>) : x \in One(1), y \in One(2), z \in One(3) }

\* Equal parts are written once.
RECURSIVE Written(_, _)
Written(seen, tree) ==
  IF tree \in Range(seen) THEN seen ELSE Append(FoldLeft(Written, seen, tree.kids), tree)

LineOf(trees, t) == CHOOSE i \in DOMAIN trees : trees[i] = t

File(trees) ==
  [i \in DOMAIN trees |->
     [ty |-> trees[i].ty, lit |-> trees[i].lit,
      tar |-> [k \in DOMAIN trees[i].kids |-> LineOf(trees, trees[i].kids[k])]]]

\* Operands before those that use them, or after them, and the root last.
RootLast(trees) == Reverse(Front(trees)) \o <<Last(trees)>>

MCNnfFiles ==
  { File(Written(<<>>, t)) : t \in Three } \cup { File(RootLast(Written(<<>>, t))) : t \in Three }

ASSUME \A file \in MCNnfFiles : WellFormed(file)
=============================================================================
