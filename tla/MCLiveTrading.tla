---------------------------- MODULE MCLiveTrading ----------------------------
(* Model values for LiveTrading. *)
EXTENDS LiveTrading
CONSTANTS p1, p2
=============================================================================
