--------------------------- MODULE MCDatawayWrite ---------------------------
(* Instances of DatawayWrite: two compactors, of two categories. *)
EXTENDS DatawayWrite

\* Points 1..4 are metrics and 5..8 logs; 4 and 5 are too large for a body, and
\* 7 is too large with its frame.
MCGroupOf == [p \in 1..8 |-> IF p = 2 THEN "b" ELSE "a"]
MCWrites ==
    [c \in Compactors |-> IF c = "metric" THEN <<[cat |-> "metric", pts |-> <<1, 2, 3, 4>>],
                                                [cat |-> "metric", pts |-> <<2>>]>>
                                          ELSE <<[cat |-> "logging", pts |-> <<5, 6, 7, 8>>]>>]
MCCatOf == [f \in Flushers |-> IF f = "m1" THEN "metric" ELSE "logging"]
=============================================================================
