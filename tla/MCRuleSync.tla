------------------------------ MODULE MCRuleSync ------------------------------
(* Two routings and two sets of application rules, saved three times: a save, *)
(* one that overtakes it, and one that takes it back.                         *)
EXTENDS RuleSync

CONSTANTS x, y, a, b

=============================================================================
