----------------------------- MODULE MCRuleStore -----------------------------
(***************************************************************************)
(* A small instance of RuleStore: two clients; one good rule set besides   *)
(* the empty one, one that validation refuses and one that is too large.   *)
(***************************************************************************)
EXTENDS RuleStore, TLC

CONSTANTS c1, c2, r1, bad, large, none

TwoClients == {c1, c2}
AllSets    == {none, r1, bad, large}
ValidSets  == {none, r1, large}
SmallSets  == {none, r1, bad}

ClientSymmetry == Permutations(TwoClients)
=============================================================================
