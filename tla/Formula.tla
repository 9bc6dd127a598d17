------------------------------ MODULE Formula ------------------------------
(***************************************************************************)
(* The vocabulary every other module speaks: a CNF formula over Boolean    *)
(* variables, the rows of a covering array, and t-wise tuples.             *)
(*                                                                         *)
(* A row is a total assignment, a tuple (t_tuple in the code: t signed     *)
(* literals by increasing variable) is an assignment of its t variables, a *)
(* clause is likewise the assignment of its literals' polarities.          *)
(***************************************************************************)
EXTENDS Integers, FiniteSets, Sequences, FiniteSetsExt

CONSTANTS
  NumVar,    \* cnf->get_num_variables()
  Clause,    \* the clauses of the CNF, as partial assignments
  Group,     \* the mutually exclusive groups of variables (CNF::group_info_)
  Strength   \* the strength the array is being built for

Var == 1 .. NumVar
Bit == {0, 1}

ASSUME FormulaAssumption ==
  /\ NumVar \in Nat \ {0}
  /\ Strength \in 2 .. NumVar
  /\ Group \subseteq SUBSET Var
  /\ \A g, h \in Group : g # h => g \cap h = {}
  /\ \A c \in Clause : DOMAIN c \subseteq Var /\ \A v \in DOMAIN c : c[v] \in Bit

Assignment == [Var -> Bit]

(* Every k-wise tuple: a choice of k columns and a sign for each.          *)
TuplesOf(k) == UNION { [cols -> Bit] : cols \in kSubset(k, Var) }

Tuple == TuplesOf(Strength)

(* Does the row agree with the tuple on all of its columns?                *)
Covers(row, t) == \A v \in DOMAIN t : row[v] = t[v]

(* Is the tuple covered by some row of the list?                           *)
CoveredBy(rows, t) == \E i \in DOMAIN rows : Covers(rows[i], t)

(* The rows that satisfy every clause, and the tuples some of them covers. *)
ValidRows ==
  { row \in Assignment : \A c \in Clause : \E v \in DOMAIN c : row[v] = c[v] }

Extendable(t) == \E row \in ValidRows : Covers(row, t)

(* The group of a variable: one set, or none (group_id = -1).              *)
GroupsOf(v) == { g \in Group : v \in g }

LastVar(t) == Max(DOMAIN t)

(* The columns whose group variables are all set and of distinct groups:   *)
(* the only prefixes that Expandor enumerates.                             *)
GroupsPositive(t, cols) ==
  /\ \A v \in cols : GroupsOf(v) # {} => t[v] = 1
  /\ \A v, w \in cols : v # w => GroupsOf(v) \cap GroupsOf(w) = {}

(* A tuple that get_remaining_valid_tuples lists when it is valid.         *)
Listed(t) == GroupsPositive(t, DOMAIN t)

(* A tuple whose bit set_covered_now_strength_bitmap sets for a row that   *)
(* covers it: its last literal may be any.                                 *)
Tracked(t) == GroupsPositive(t, DOMAIN t \ {LastVar(t)})

=============================================================================
