----------------------------- MODULE MCServer -----------------------------
(* An instance of Server for TLC: a run of two tasks, then one of one.      *)
EXTENDS Server

MCTasks == <<2, 1>>
=============================================================================
