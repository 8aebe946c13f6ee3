---------------------------- MODULE MCPaperLedger ----------------------------
EXTENDS PaperLedger, TLC
CONSTANTS p1, p2, t

\* Two strategies hold positions in one token: they share its ":journal" entry.
OneToken == [p \in Pos |-> t]
PosSymmetry == Permutations({p1, p2})
=============================================================================
