----------------------------- MODULE MCGossip -----------------------------
(* An instance of Gossip for TLC: a sound entry of the node the chaos menu *)
(* picks, and one of another node that the schema gate refuses.            *)
EXTENDS Gossip, TLC

CONSTANTS sound, malformed, f1, f3

MCOwn  == [n \in Node |-> CASE n = 1 -> {sound} [] n = 3 -> {malformed} [] OTHER -> {}]
Drivers == Permutations(Driver)
=============================================================================
