------------------------------- MODULE MCCdcl -------------------------------
(***************************************************************************)
(* The solver on small files: one that is hard enough to be learnt from,   *)
(* one with facts, tautologies and repeated literals, and one without a    *)
(* solution that only the search finds out.                                *)
(***************************************************************************)
EXTENDS Cdcl

MCFiles ==
  { [ vars |-> 4,
      clauses |-> << <<1, 2, 3, 4>>, <<1, 2, 3, -4>>, <<-1, 2, 4>>, <<-2, -3, -4>>,
                     <<-1, -2, 3>>, <<-3, 4>> >> ],
    [ vars |-> 4,
      clauses |-> << <<2, -3, -1>>, <<-1, -3>>, <<-1, 4, -2, -3>>, <<4, -2, 3>>, <<-4, 2>>,
                     <<-2, 1, -3>>, <<-2, -1, -3>>, <<-2, 1, 3>>, <<4, 2, 3>>, <<1, -4>> >> ],
    [ vars |-> 3,
      clauses |-> << <<1, 2, 3>>, <<2, -2, 1>>, <<-1, -1>>, <<3, -2, 1>> >> ],
    [ vars |-> 2,
      clauses |-> << <<1, 2>>, <<-1, 2>>, <<1, -2>>, <<-1, -2>> >> ] }

MCQuestions(f) ==
  IF f.vars = 4 THEN { <<>>, <<-3, -2>> } ELSE { <<-1>>, <<2, -2>>, <<-2, 1>> }

MCMaxSolves(f) == IF f.vars = 4 THEN 1 ELSE 2

MCChosen(f) ==
  IF f.vars = 4 THEN { <<0, 0, 0, 0>>, <<1, 0, 1, 0>> } ELSE [1 .. f.vars -> {0, 1}]

=============================================================================
