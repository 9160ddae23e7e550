------------------------------ MODULE MCForward ------------------------------
(* Two rules, and as many requests as let each be started, superseded and     *)
(* stopped while a request for the other is in between.                       *)
EXTENDS Forward, TLC

CONSTANTS r1, r2
OneRule == {r1}
TwoRules == {r1, r2}
RuleSymmetry == Permutations(Rule)

=============================================================================
