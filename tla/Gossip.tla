------------------------------ MODULE Gossip ------------------------------
(***************************************************************************)
(* Anti-entropy gossip message by message (fabric/gossip.py over the       *)
(* faulted bus), which Fabric takes as one step.                           *)
(*                                                                         *)
(* A round advertises what every node holds, pushes what the advertisers   *)
(* lack, and ingests the pushes.  Rounds are run by drivers: the chaos     *)
(* scripts, each in the thread that its POST /chaos started on the one     *)
(* mesh.  Drivers share the inboxes, and drain() is not atomic.            *)
(*                                                                         *)
(* One action per node that a phase visits, two for a drain.  Of delivery  *)
(* times it keeps what a drain asks: whether a message is due.  Only a     *)
(* driver that settles, after each of its first two phases, moves the      *)
(* clock, past the slowest link: scripts start when the run is over.  What *)
(* the run left in the replicas is in all of them, and left out.           *)
(***************************************************************************)
EXTENDS Naturals

CONSTANTS Node,          \* numbers, in the order a round visits them
          Entry, Own, Sound,
          Driver,        \* threads that run rounds
          Victim,        \* nodes the chaos menu takes down or isolates
          MaxRounds      \* bound: rounds each driver runs

ASSUME GossipAssumption ==
    /\ Node \subseteq Nat
    /\ Own \in [Node -> SUBSET Entry]
    /\ \A m, n \in Node : m # n => Own[m] \cap Own[n] = {}
    /\ Sound \subseteq Entry
    /\ Victim \subseteq Node
    /\ MaxRounds \in Nat

Message == [type : {"HEAD", "PUSH"}, from : Node, entries : SUBSET Entry,
            due : BOOLEAN]

\* What else moved: nothing, rounds of other drivers, or more than that.
Moves == {"nothing", "rounds", "more"}

Phase == {"idle", "advertise", "answer", "ingest", "failed"}

VARIABLES log,       \* log[n]: the entries of n's replica
          inbox,     \* inbox[n]: gossip sent to n and not drained, due or not
          down, cut, \* nodes that are down, nodes partitioned from all others
          phase,     \* phase[t]: what driver t is doing
          ids,       \* ids[t]: the nodes of its round, those up when it began
          todo,      \* todo[t]: those its phase has yet to visit
          drained,   \* drained[t]: whether it has read an inbox it is to empty
          out,       \* out[t]: what was due there
          keep,      \* keep[t]: what was not
          rounds,    \* rounds[t]: rounds it began
          moved,     \* history: what else moved since t's last round began
          since      \* history: entries signed since the partition began

net == <<log, inbox, down, cut>>
vars == <<log, inbox, down, cut, phase, ids, todo, drained, out, keep, rounds, moved, since>>

-----------------------------------------------------------------------------
(* The bus *)

\* Mutant of Reach: partitions do not stop gossip.
ReachIfUp(x, y) == {x, y} \cap down = {}

Reach(x, y) == {x, y} \cap down = {} /\ (x \in cut <=> y \in cut)

\* Those of the messages sent to n that are not dropped.
Delivered(n, sent) == {p[2] : p \in {q \in sent : q[1] = n /\ Reach(q[2].from, n)}}

Head(n) == [type |-> "HEAD", from |-> n, entries |-> log[n], due |-> FALSE]

\* Mutant of Push: sent with no time of delivery.
PushBare(n, S) == [type |-> "PUSH", from |-> n, entries |-> S]

Push(n, S) == [type |-> "PUSH", from |-> n, entries |-> S, due |-> FALSE]

\* The messages of S once the clock has passed the slowest link.
Landed(S) == {[m EXCEPT !.due = TRUE] : m \in S}

-----------------------------------------------------------------------------
(* A round *)

Busy(t) == phase[t] \in {"advertise", "answer", "ingest"}

\* Node n is the next one driver t's phase visits: ids are sorted.
Turn(t, n) == n \in todo[t] /\ \A m \in todo[t] : n <= m

\* The others see that t makes a round.
Seen(t) == moved' = [u \in Driver |-> IF u # t /\ moved[u] = "nothing"
                                     THEN "rounds" ELSE moved[u]]

\* Driver t is done with node n in this phase.
Visited(t, n, next) ==
    /\ todo'  = [todo EXCEPT ![t] = IF todo[t] = {n} THEN ids[t] ELSE @ \ {n}]
    /\ phase' = [phase EXCEPT ![t] = IF todo[t] = {n} THEN next ELSE @]
    /\ Seen(t)

\* The mailboxes of f once t has sent from n: t settles after its last node.
Settled(t, n, f) == IF todo[t] = {n} THEN [x \in DOMAIN f |-> Landed(f[x])] ELSE f

\* Mesh.propagate and Mesh.converge make some rounds with the nodes that are
\* up when they are called.
StartRound(t) ==
    /\ phase[t] = "idle"
    /\ rounds[t] < MaxRounds
    /\ rounds' = [rounds EXCEPT ![t] = @ + 1]
    /\ ids' = [ids EXCEPT ![t] = IF @ = {} THEN Node \ down ELSE @]
    /\ ids'[t] # {}                \* a round of no node does nothing
    /\ todo' = [todo EXCEPT ![t] = ids'[t]]
    /\ phase' = [phase EXCEPT ![t] = "advertise"]
    /\ moved' = [u \in Driver |->
                   IF u = t THEN IF \E v \in Driver \ {t} : Busy(v) THEN "rounds"
                                 ELSE "nothing"
                   ELSE IF moved[u] = "nothing" THEN "rounds" ELSE moved[u]]
    /\ UNCHANGED <<net, drained, out, keep, since>>

\* 1. The next node tells the others of the round what it holds.
Advertise(t, n) ==
    /\ phase[t] = "advertise" /\ Turn(t, n)
    /\ LET sent == {<<m, Head(n)>> : m \in ids[t] \ {n}}
       IN  /\ inbox' = Settled(t, n, [m \in Node |-> inbox[m] \cup Delivered(m, sent)])
           /\ keep' = Settled(t, n, keep)
           /\ Visited(t, n, "answer")
    /\ UNCHANGED <<log, down, cut, ids, drained, out, rounds, since>>

\* drain() first reads the inbox ...
Drain(t, n) ==
    /\ phase[t] \in {"answer", "ingest"} /\ Turn(t, n) /\ ~drained[t]
    /\ drained' = [drained EXCEPT ![t] = TRUE]
    /\ out' = [out EXCEPT ![t] = {m \in inbox[n] : m.due}]
    /\ keep' = [keep EXCEPT ![t] = {m \in inbox[n] : ~m.due}]
    /\ Seen(t)
    /\ UNCHANGED <<net, phase, ids, todo, rounds, since>>

\* ... then puts back what was not due: what was sent in between is lost.
Emptied(t) ==
    /\ drained[t]
    /\ drained' = [drained EXCEPT ![t] = FALSE]
    /\ out' = [out EXCEPT ![t] = {}]

\* Mutant of Lacking: a node pushes only what it signed itself.
LackingOwn(n, known) == (log[n] \cap Own[n]) \ known

Lacking(n, known) == log[n] \ known

\* 2. The next node pushes to each advertiser what that one lacks.
Answer(t, n) ==
    /\ phase[t] = "answer" /\ Turn(t, n)
    /\ LET heads == {m \in out[t] : m.type = "HEAD" /\ Lacking(n, m.entries) # {}}
           sent == {<<m.from, Push(n, Lacking(n, m.entries))>> : m \in heads}
       IN  /\ Emptied(t)
           /\ inbox' = Settled(t, n, [m \in Node |->
                           [inbox EXCEPT ![n] = keep[t]][m] \cup Delivered(m, sent)])
           /\ keep' = Settled(t, n, [keep EXCEPT ![t] = {}])
           /\ Visited(t, n, "ingest")
    /\ UNCHANGED <<log, down, cut, ids, rounds, since>>

\* Mutant of Admitted: a signature is taken for a schema.
AdmittedAll(S) == S

\* ingest() of each pushed entry.
Admitted(S) == S \cap Sound

\* 3. The next node ingests what was pushed to it.
Ingest(t, n) ==
    /\ phase[t] = "ingest" /\ Turn(t, n)
    /\ LET pushed == UNION {m.entries : m \in {p \in out[t] : p.type = "PUSH"}}
       IN  /\ Emptied(t)
           /\ inbox' = [inbox EXCEPT ![n] = keep[t]]
           /\ keep' = [keep EXCEPT ![t] = {}]
           /\ log' = [log EXCEPT ![n] = @ \cup Admitted(pushed)]
           /\ Visited(t, n, "idle")
    /\ UNCHANGED <<down, cut, ids, rounds, since>>

\* Two drivers on one inbox can make its sort fail ("list modified during
\* sort"); the exception ends the script where it is.
Fail(t) ==
    /\ phase[t] \in {"answer", "ingest"} /\ ~drained[t]
    /\ \E u \in Driver \ {t} : Busy(u)
    /\ phase' = [phase EXCEPT ![t] = "failed"]
    /\ moved' = [u \in Driver |-> "more"]
    /\ UNCHANGED <<net, ids, todo, drained, out, keep, rounds, since>>

-----------------------------------------------------------------------------
(* Between its rounds a driver signs entries and changes the faults *)

BetweenRounds == /\ \E t \in Driver : /\ phase[t] = "idle"
                                      /\ ids' = [ids EXCEPT ![t] = {}]
                 /\ moved' = [u \in Driver |-> "more"]
                 /\ UNCHANGED <<inbox, phase, todo, drained, out, keep, rounds>>

\* FabricLog.append, or force_append of what the gate would refuse.
Publish(n, e) ==
    /\ BetweenRounds
    /\ e \in Own[n] \ log[n]
    /\ log' = [log EXCEPT ![n] = @ \cup {e}]
    /\ since' = IF cut = {} THEN since ELSE since \cup {e}
    /\ UNCHANGED <<down, cut>>

TakeDown(n) == /\ BetweenRounds
               /\ down = {} /\ down' = {n}
               /\ UNCHANGED <<log, cut, since>>

Restore(n) == /\ BetweenRounds
              /\ n \in down /\ down' = down \ {n}
              /\ UNCHANGED <<log, cut, since>>

Isolate(n) == /\ BetweenRounds
              /\ cut = {} /\ cut' = {n}
              /\ since' = {}
              /\ UNCHANGED <<log, down>>

Heal == /\ BetweenRounds
        /\ cut # {} /\ cut' = {}
        /\ since' = {}
        /\ UNCHANGED <<log, down>>

-----------------------------------------------------------------------------
Init == /\ log = [n \in Node |-> {}]
        /\ inbox = [n \in Node |-> {}]
        /\ down = {} /\ cut = {}
        /\ phase = [t \in Driver |-> "idle"]
        /\ ids = [t \in Driver |-> {}]
        /\ todo = [t \in Driver |-> {}]
        /\ drained = [t \in Driver |-> FALSE]
        /\ out = [t \in Driver |-> {}]
        /\ keep = [t \in Driver |-> {}]
        /\ rounds = [t \in Driver |-> 0]
        /\ moved = [t \in Driver |-> "more"]
        /\ since = {}

Next == \/ \E t \in Driver : StartRound(t) \/ Fail(t)
        \/ \E t \in Driver, n \in Node :
              Advertise(t, n) \/ Drain(t, n) \/ Answer(t, n) \/ Ingest(t, n)
        \/ \E n \in Node, e \in Entry : Publish(n, e)
        \/ \E n \in Victim : TakeDown(n) \/ Restore(n) \/ Isolate(n)
        \/ Heal

Spec == Init /\ [][Next]_vars

-----------------------------------------------------------------------------
(* Properties *)

\* The variables have the types of the objects they stand for.
TypeOK ==
    /\ log \in [Node -> SUBSET Entry]
    /\ inbox \in [Node -> SUBSET Message]
    /\ down \subseteq Node /\ cut \subseteq Node
    /\ phase \in [Driver -> Phase]
    /\ ids \in [Driver -> SUBSET Node]
    /\ todo \in [Driver -> SUBSET Node]
    /\ drained \in [Driver -> BOOLEAN]
    /\ out \in [Driver -> SUBSET Message] /\ keep \in [Driver -> SUBSET Message]
    /\ rounds \in [Driver -> 0..MaxRounds]
    /\ moved \in [Driver -> Moves]
    /\ since \subseteq Entry

\* However rounds overlap, fail and lose messages, the replicas are grow-only
\* sets: gossip implements what log.py promises of them.
Replicas == INSTANCE GrowOnlySet
IsGrowOnlySet == Replicas!Spec

CaughtUp(t) == \A x, y \in ids[t] :
                  Reach(x, y) => log[x] \cap Sound = log[y] \cap Sound

\* One round is enough: when nothing else moved since it began, nodes that
\* reach each other hold the same sound entries at its end, whatever rounds
\* before it left in the inboxes (there is no other recovery code).
RoundCatchesUp ==
    \A t \in Driver : phase[t] = "idle" /\ moved[t] = "nothing" => CaughtUp(t)

\* What gossip.py:8 says: a node catches up by simply running a round, with no
\* special case; so when all drivers make rounds and nothing else moves, the
\* first to end has caught up.  False: they drain each other's messages.
AnyRoundCatchesUp ==
    (\A t \in Driver : moved[t] # "more") =>
        \A t \in Driver : phase[t] = "idle" => CaughtUp(t)

\* A partition really stops gossip: what is signed on one side while it lasts
\* is not seen on the other, rounds that were under way when it began included.
PartitionStops ==
    \A e \in since, m, x \in Node :
        e \in Own[m] /\ e \in log[x] => (x \in cut <=> m \in cut)
=============================================================================
