------------------------------- MODULE MCWatch -------------------------------
(* Model values for Watch, and the token of the ledger's positions. *)
EXTENDS Watch
CONSTANTS t1, s1, copy, r1, r2, x, y, p1, t

OneToken == [p \in Pos |-> t]
=============================================================================
