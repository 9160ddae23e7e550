--------------------------- MODULE MCHelperSession ---------------------------
(* Two launches: a helper whose session was dropped, and one that is launched  *)
(* and used while the first may still be there.                                *)
EXTENDS HelperSession

CONSTANTS p1, p2
TwoProcesses == {p1, p2}

=============================================================================
