---------------------------- MODULE MCDatawayWAL ----------------------------
(* Instances of DatawayWAL for TLC.                                          *)
EXTENDS DatawayWAL, TLC

\* Bodies are numbers, categories 0 and 1; body b is of category b % 2.
MCCategoryOf == [b \in Bodies |-> b % 2]

\* A worker for each category, and a further one for category 1.
MCWorksOn == [f \in Flushers |-> IF f = "w0" THEN 0 ELSE 1]

\* The workers of one category are interchangeable.
MCSymmetry == Permutations(Flushers)
=============================================================================
