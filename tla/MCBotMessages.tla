---------------------------- MODULE MCBotMessages ----------------------------
(* A small instance of BotMessages: three updates, a list of two ids. *)
EXTENDS BotMessages, TLC

CONSTANTS u1, u2, u3, me, other

ThreeUpdates == {u1, u2, u3}
Symmetry == Permutations(Updates)

SomeRows == {[status |-> "NEW", assignee |-> Nobody, creator |-> other]}
===============================================================================
