------------------------------ MODULE MCScanner ------------------------------
(* Model values for Scanner, and the permutations of tokens and of refreshes that *)
(* change nothing but names.                                                      *)
EXTENDS Scanner, TLC
CONSTANTS t1, t2, s1, s2, copy, r1, r2

Interchangeable == Permutations({t1, t2}) \cup Permutations({r1, r2})
=============================================================================
