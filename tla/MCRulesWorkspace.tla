-------------------------- MODULE MCRulesWorkspace --------------------------
(***************************************************************************)
(* A small instance of RulesWorkspace: two rules to begin with, and IDs    *)
(* for three.                                                              *)
(***************************************************************************)
EXTENDS RulesWorkspace, TLC

R(id) == [id |-> id, text |-> FALSE]

Sets == {<<R(1), R(2)>>}

Symmetry == Permutations(Calls)
=============================================================================
