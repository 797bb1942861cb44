------------------------------- MODULE Orders -------------------------------
(***************************************************************************)
(* Sequences that are filtered and sorted, as the parser, the search and    *)
(* the smoke exports do it: said by counting what goes before, so that what *)
(* comes out can be reasoned about.                                         *)
(***************************************************************************)
EXTENDS Integers, Sequences, FiniteSets

\* The elements of s at the places of P, in order.
SubSequence(s, P) ==
    [k \in 1 .. Cardinality(P) |->
        s[CHOOSE i \in P : Cardinality({j \in P : j < i}) = k - 1]]

\* sort.SliceStable: the elements of s, sorted. R says which of two places goes
\* before the other; the k-th is the one that k - 1 others go before.
Ordered(s, R) ==
    [k \in DOMAIN s |->
        s[CHOOSE i \in DOMAIN s : Cardinality({j \in DOMAIN s : <<j, i>> \in R}) = k - 1]]
=============================================================================
