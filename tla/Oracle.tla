------------------------------- MODULE Oracle -------------------------------
(***************************************************************************)
(* What the rest of the program expects of a SAT solver.  It is asked for  *)
(* an assignment of the variables that satisfies the clauses of a file and *)
(* some assumed literals, and answers with one, or with <<>> when there is *)
(* none; it does answer.  Expand and the neighbourhoods take a validator   *)
(* to be exact and a sampled row to be valid on this account.              *)
(***************************************************************************)
EXTENDS Integers, SequencesExt

CONSTANT
  Questions(_)  \* the sequences of literals that may be assumed, by file

VARIABLES
  file,         \* the clauses and the number of variables
  asked,        \* the literals assumed
  status,       \* "none" before the first question, "pending", "answered"
  answer

vars == <<file, asked, status, answer>>

-----------------------------------------------------------------------------
VarOf(l) == IF l < 0 THEN -l ELSE l

Makes(m, l) == m[VarOf(l)] = (IF l > 0 THEN 1 ELSE 0)

(* The assignments that satisfy every clause and every assumed literal.    *)
Models(f, assumed) ==
  { m \in [1 .. f.vars -> {0, 1}] :
      /\ \A k \in DOMAIN f.clauses : \E l \in Range(f.clauses[k]) : Makes(m, l)
      /\ \A l \in Range(assumed) : Makes(m, l) }

Answers(f, assumed) ==
  LET models == Models(f, assumed) IN IF models = {} THEN {<<>>} ELSE models

Init == asked = <<>> /\ status = "none" /\ answer = <<>>

Ask ==
  /\ status # "pending"
  /\ asked' \in Questions(file)
  /\ status' = "pending"
  /\ answer' = <<>>
  /\ UNCHANGED file

Reply ==
  /\ status = "pending"
  /\ answer' \in Answers(file, asked)
  /\ status' = "answered"
  /\ UNCHANGED <<file, asked>>

Next == Ask \/ Reply

Spec == Init /\ [][Next]_vars /\ WF_vars(Reply)

=============================================================================
