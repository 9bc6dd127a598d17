------------------------------- MODULE Loops -------------------------------
(***************************************************************************)
(* Loops over sequences.                                                   *)
(***************************************************************************)
EXTENDS Integers, Sequences

(* A loop of the code: Op for each element of seq in turn, from first on.  *)
Loop(Op(_, _), first, seq) ==
  LET after[k \in 0 .. Len(seq)] == IF k = 0 THEN first ELSE Op(after[k - 1], seq[k])
  IN after[Len(seq)]

(* The elements of seq that are in set, in their order.                    *)
Only(seq, set) == Loop(LAMBDA kept, x : IF x \in set THEN Append(kept, x) ELSE kept, <<>>, seq)

=============================================================================
