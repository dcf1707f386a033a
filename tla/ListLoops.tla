-------------------------------- MODULE ListLoops ------------------------------
(***************************************************************************)
(* The loops that go over a list and copy what they do not pass over.      *)
(***************************************************************************)
EXTENDS Integers, Sequences

\* The elements of a list at the positions in S, in their order.
Picked(list, S) ==
  LET upTo[n \in 0..Len(list)] ==
        IF n = 0 THEN <<>>
        ELSE IF n \in S THEN Append(upTo[n - 1], list[n]) ELSE upTo[n - 1]
  IN  upTo[Len(list)]
===============================================================================
