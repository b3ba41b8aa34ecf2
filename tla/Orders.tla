------------------------------- MODULE Orders -------------------------------
(***************************************************************************)
(* What a query's ORDER BY, or a sort by keys that do not tie, makes of a    *)
(* set of rows.                                                             *)
(***************************************************************************)
EXTENDS Naturals, FiniteSets

\* The members of S in the order of R, which holds of each two of them one way.
Ordered(S, R) ==
    CHOOSE s \in [1..Cardinality(S) -> S] : \A i, j \in DOMAIN s : i < j => <<s[i], s[j]>> \in R
=============================================================================
