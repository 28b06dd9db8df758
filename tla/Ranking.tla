------------------------------- MODULE Ranking -------------------------------
(***************************************************************************)
(* Sets put in order: what a sort or a filter returns, in JavaScript and   *)
(* in SQL, when no two members are equal in the order.  An order is a set  *)
(* of pairs.                                                               *)
(***************************************************************************)
EXTENDS Naturals, FiniteSets

\* How many members of S come before x.
Rank(S, R, x) == Cardinality({y \in S : <<y, x>> \in R})

\* The members of S, the first first.
Arranged(S, R) == [i \in 1..Cardinality(S) |-> CHOOSE x \in S : Rank(S, R, x) = i - 1]

\* The elements of l at the places of S, in the order R of the places.
Picked(l, S, R) == LET places == Arranged(S, R) IN [i \in DOMAIN places |-> l[places[i]]]

Ascending(S) == {p \in S \X S : p[1] < p[2]}
=============================================================================
