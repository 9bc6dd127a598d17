----------------------------- MODULE SwapStack -----------------------------
(***************************************************************************)
(* A stack that also knows the place of each of its elements, so that an   *)
(* element in the middle is removed in constant time: the top takes its    *)
(* place.  PbOCCSATSolver keeps its unsatisfied clauses and the variables  *)
(* of those clauses in two such stacks.  Places count from 1 here; the     *)
(* place of an element that is not on the stack is whatever was left       *)
(* there, as in the arrays of the code.                                    *)
(***************************************************************************)
EXTENDS Integers, Sequences

(* An empty stack over the elements S, nothing known of their places.      *)
EmptyStack(S) == [stack |-> <<>>, index |-> [e \in S |-> 0]]

(* index_in_stack[e] = fill_pointer; push(e, stack, fill_pointer).         *)
Pushed(s, e) ==
  [ stack |-> Append(s.stack, e),
    index |-> [s.index EXCEPT ![e] = Len(s.stack) + 1] ]

(* Mutant: the element that moves keeps its old place.                     *)
TakenUnmoved(s, e) ==
  LET n == Len(s.stack)
  IN [s EXCEPT !.stack = [k \in 1 .. (n - 1) |-> IF k = s.index[e] THEN s.stack[n] ELSE s.stack[k]]]

(* last = pop(stack, fill_pointer) is written to the place of e.  When e   *)
(* is the top, the write lands above the fill pointer.                     *)
Taken(s, e) ==
  LET n    == Len(s.stack)
      last == s.stack[n]
      i    == s.index[e]
  IN [ stack |-> [k \in 1 .. (n - 1) |-> IF k = i THEN last ELSE s.stack[k]],
       index |-> [s.index EXCEPT ![last] = i] ]

OnStack(s) == { s.stack[i] : i \in 1 .. Len(s.stack) }

(* Every element on the stack is there once, at the place noted for it.    *)
StackExact(s) == \A i \in 1 .. Len(s.stack) : s.index[s.stack[i]] = i

=============================================================================
