---------------------------- MODULE GrowOnlySet ----------------------------
(***************************************************************************)
(* What the header of fabric/log.py promises of the replicas: entries are  *)
(* signed by their author and form a grow-only set.  A replica never loses *)
(* an entry, and gains only what its own node authors or what some replica *)
(* already holds and the schema gate lets through.  Nothing is said about  *)
(* messages, rounds or faults.                                             *)
(***************************************************************************)

CONSTANTS Node,
          Entry,
          Own,       \* Own[n]: the entries node n can sign
          Sound      \* the entries the schema gate lets through

VARIABLE log         \* log[n]: the entries of n's replica

Init == log = [n \in Node |-> {}]

Held == UNION {log[m] : m \in Node}

\* Any number of replicas gain any number of entries.
Grow == /\ log' \in [Node -> SUBSET Entry]
        /\ \A n \in Node : /\ log[n] \subseteq log'[n]
                           /\ log'[n] \ log[n] \subseteq Own[n] \cup (Held \cap Sound)

Spec == Init /\ [][Grow]_log
=============================================================================
