---------------------------- MODULE MCPbOccsat ----------------------------
(***************************************************************************)
(* PbOCCSATSolver on three variables: a file with a tautology and a        *)
(* repeated literal, and a hard core around a single solution, so that     *)
(* greedy steps get stuck and weights grow.                                *)
(***************************************************************************)
EXTENDS PbOccsat

MCFiles ==
  { [ vars    |-> 4,
      clauses |-> << <<-2, -3>>, <<1, -3>>, <<-1>>, <<2, -2, 1>>, <<2, -3>>, <<3, 4, 3>>,
                     <<-3, 4>>, <<1, 2, -4>> >> ],
    [ vars    |-> 2,
      clauses |-> << <<1>>, <<-1>>, <<2>>, <<-2>>, <<-1, -2>> >> ] }

MCPScale == <<3, 10>>

(* What the program runs with, and the heuristics that its function        *)
(* pointers leave aside.                                                   *)
MCProfiles ==
  { Default,
    [Default EXCEPT !.weighting = "paws", !.second = TRUE, !.tie = "hscore",
                    !.varDiv = "novelty", !.init = "each"],
    [Default EXCEPT !.weighting = "none", !.prob = TRUE, !.tie = "random",
                    !.varDiv = "probsat", !.doubleCC = FALSE],
    [Default EXCEPT !.second = TRUE, !.tie = "hscore2", !.varDiv = "hscore2",
                    !.init = "random"] }

MCInitSolns(n) == { [v \in 1 .. n |-> 1], [v \in 1 .. n |-> v % 2] }

MCPriorities(n) == { [v \in 1 .. n |-> IF v = 1 THEN 0 ELSE Unit \div 2] }

=============================================================================
