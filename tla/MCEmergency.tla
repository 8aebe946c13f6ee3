----------------------------- MODULE MCEmergency -----------------------------
(* Model values for EmergencyControl. *)
EXTENDS EmergencyControl
CONSTANTS p1, p2, r1, r2
=============================================================================
