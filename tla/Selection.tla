------------------------------ MODULE Selection ------------------------------
(***************************************************************************)
(* What the filters of the code keep: the loops with `continue`, `retain`  *)
(* and `filter` that go through a list once and push what passes.          *)
(***************************************************************************)
EXTENDS Naturals, Sequences

\* The values at some places, in their order.
Keep(values, places) ==
    LET upTo[n \in 0 .. Len(values)] ==
            IF n = 0 THEN <<>>
            ELSE IF n \in places THEN Append(upTo[n - 1], values[n]) ELSE upTo[n - 1]
    IN  upTo[Len(values)]

=============================================================================
