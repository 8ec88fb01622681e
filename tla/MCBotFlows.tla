------------------------------ MODULE MCBotFlows ------------------------------
(* A small instance of BotFlows: four updates of one user. *)
EXTENDS BotFlows, TLC

CONSTANTS u1, u2, u3, u4

FourUpdates == {u1, u2, u3, u4}
Symmetry == Permutations(Updates)
===============================================================================
