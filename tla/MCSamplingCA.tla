---------------------------- MODULE MCSamplingCA ----------------------------
(***************************************************************************)
(* The generator on three files: with a fact, so that there is a backbone, *)
(* and a pair that excludes each other; with two facts; with no fact.      *)
(***************************************************************************)
EXTENDS SamplingCA

MCFiles ==
  { [ vars |-> 4, clauses |-> << <<1, 2>>, <<-3>>, <<-1, -2>> >> ],
    [ vars |-> 4, clauses |-> << <<2>>, <<-1, 3>>, <<-4>> >> ],
    [ vars |-> 3, clauses |-> << <<1, 2, 3>>, <<-1, -2>>, <<-1, -3>> >> ] }

(* Every tuple of every strength has a place of its own.                   *)
ASSUME PlacesDistinct ==
  \A t \in 2 .. 6, n \in {6, 7} :
    { MapIndex(n, cols, bits) : cols \in Combinations(t, n), bits \in [1 .. t -> {0, 1}] }
      = 0 .. 2 ^ t * combnum[t][n] - 1

(* The tables are what they are meant to be (and TLC evaluates them once,  *)
(* here).                                                                  *)
ASSUME TablesTyped ==
  \A f \in Files, t \in Strengths :
    /\ ModelsOf[f] \subseteq [1 .. f.vars -> {0, 1}]
    /\ PlacesOf[f][t] \in [ModelsOf[f] -> SUBSET (0 .. 2 ^ t * combnum[t][f.vars] - 1)]

=============================================================================
