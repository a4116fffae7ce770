-------------------------- MODULE MCRulesUpgrade --------------------------
(* RulesUpgrade on two nodes and two versions. *)
EXTENDS RulesUpgrade

CONSTANTS n1, n2

Pair == {n1, n2}
============================================================================
