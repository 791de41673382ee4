------------------------------ MODULE Sorting ------------------------------
(***************************************************************************)
(* The stable sorts of the Rust library, sort_by and sort_by_key, and its  *)
(* filter of an iterator, both by the places that the elements get.        *)
(***************************************************************************)
EXTENDS Naturals, FiniteSets

(* An element goes behind the smaller ones and behind the equal ones that were
   before it. *)
StableSort(s, _ \prec _) ==
    LET before(i, j) == s[i] \prec s[j] \/ (~(s[j] \prec s[i]) /\ i < j)
        place(i) == 1 + Cardinality({j \in DOMAIN s : before(j, i)})
    IN  [k \in DOMAIN s |-> s[CHOOSE i \in DOMAIN s : place(i) = k]]

(* The elements of s at these positions, in their order. *)
SelectAt(s, positions) ==
    LET place(i) == Cardinality({j \in positions : j <= i})
    IN  [k \in 1 .. Cardinality(positions) |-> s[CHOOSE i \in positions : place(i) = k]]

=============================================================================
