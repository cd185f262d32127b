----------------------------- MODULE MCCJsonTree -----------------------------
(* CJsonTree for TLC: one name in its two cases. *)
EXTENDS CJsonTree, TLC

CONSTANTS n1, n2, n3, n4
MCNode      == {n1, n2, n3, n4}
Places      == Permutations(Node)

MCName      == {"a", "A"}
MCConstName == {"A"}
MCLower     == [n \in MCName |-> "a"]
MCBudgets   == {1, 2, 9}
=============================================================================
