------------------------------ MODULE LexOrder ------------------------------
(***************************************************************************)
(* The lexicographic order on tuples of numbers, for the variants that     *)
(* show that a component's work comes to an end.                           *)
(***************************************************************************)
EXTENDS Naturals

\* Of two tuples of one length: r is less than s in the first place in which
\* they differ.
Below(r, s) ==
    \E i \in DOMAIN s : r[i] < s[i] /\ \A j \in 1..(i - 1) : r[j] = s[j]
=============================================================================
