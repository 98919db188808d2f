------------------------------ MODULE Fabric ------------------------------
(***************************************************************************)
(* The insight pipeline of a mesh of nodes (nodes.py, with the guardrail,  *)
(* the gossip round, probation and the chaos faults it drives).            *)
(*                                                                         *)
(* Every node keeps a replica of the fabric log.  An insight is announced  *)
(* by its discoverer, carried by gossip, ruled on by every peer (guardrail *)
(* then replay), and its status is what the fold of a replica says.  It is *)
(* demoted by votes: probation on the nodes that apply it, or an operator  *)
(* pruning its provenance subtree.                                         *)
(*                                                                         *)
(* Announcements and attest rounds are run by threads, the demo's or those *)
(* POST /chaos starts on one mesh (ui/server.py), which share no lock: each *)
(* folds a replica, and checks and signs later, on what it then saw.  The  *)
(* other handlers are one action each, and interleave freely with these.   *)
(* A gossip round is one step here; Gossip.tla takes it apart.             *)
(***************************************************************************)
EXTENDS FabricLog, Sequences

CONSTANTS Rogue,              \* compromised nodes: they sign what they like
          RogueBody,          \* the bodies they sign
          Driver,             \* threads that announce and run attest rounds
          Initiator,          \* nodes that open negotiations and so apply insights
          Victim,             \* nodes the chaos menu takes down or isolates
          Prunable,           \* insights an operator may prune
          DiscoveredBy,       \* provenance.discovered_by of each insight
          Scope,              \* scope.context of each insight
          Improves,           \* replay: does the claim improve on the baseline?
          Claimed, Measured,  \* metrics the evidence claims, and replay measures
          Verdict,            \* the guardrail's verdict, rate limit aside
          RATE_LIMIT_N, RATE_LIMIT_WINDOW,
          PROBATION_N, PROBATION_FAIL,
          MaxSeq,             \* bound: a node with so many entries is asked for no
                              \* announcement, injection, pruning or forgery
          MaxNow              \* bound: ticks of the coarse clock

Honest == Node \ Rogue

ASSUME FabricAssumption ==
    /\ Rogue \subseteq Node
    /\ IsFiniteSet(Driver)
    /\ Initiator \subseteq Node
    /\ Victim \subseteq Node
    /\ Prunable \subseteq Insight
    /\ RogueBody \subseteq Body
    /\ Cardinality(Rogue) < QUORUM
    /\ DiscoveredBy \in [Insight -> Node]
    /\ Improves \in [Insight -> BOOLEAN]
    /\ Claimed \in [Insight -> Hash]
    /\ Measured \in [Insight -> Hash]
    /\ Verdict \in [Insight -> (Reason \ {"RATE_LIMITED"}) \cup {"ALLOW"}]
    /\ {"ALLOW", "UNCHECKED"} \cap Reason = {}
    /\ {"RATE_LIMITED", "INVALID_SIG"} \subseteq Reason
    /\ Hash \cap Reason = {}
    /\ {PROBATION_N, PROBATION_FAIL, RATE_LIMIT_N, RATE_LIMIT_WINDOW} \subseteq Nat
    /\ MaxSeq \in [Node -> Nat]
    /\ MaxNow \in Nat

VARIABLES log,        \* log[n]: the entries of n's replica
          seq,        \* seq[n]: n's next sequence number
          subs,       \* subs[n][src]: submissions n's rate limiter remembers
          now,        \* the mesh's clock, in units the limiter tells apart
          todo,       \* todo[t]: what thread t has yet to check, and to sign
          probation,  \* probation[n][i]: live applications watched, and regressions
          down,       \* nodes that are down
          cut         \* nodes partitioned from all the others

vars == <<log, seq, subs, now, todo, probation, down, cut>>

-----------------------------------------------------------------------------
(* Guardrail.check *)

\* _rate_ok first pops the submissions that fell out of the window.  They are
\* in time order, so these are the first ones.
Recent(q) ==
    LET expired == {k \in DOMAIN q : now - q[k] > RATE_LIMIT_WINDOW}
    IN  SubSeq(q, Cardinality(expired) + 1, Len(q))

\* The ordered static checks: the signature and the id of the copy at hand, then
\* the insight itself.
Static(b) == IF b.signed /\ b.content = b.id THEN Verdict[b.content] ELSE "INVALID_SIG"

\* The decision of node n on copy b: the static checks, then the rate limit of
\* the source.
Decision(n, b) ==
    IF Static(b) # "ALLOW" THEN Static(b)
    ELSE IF Len(Recent(subs[n][DiscoveredBy[b.content]])) >= RATE_LIMIT_N
         THEN "RATE_LIMITED" ELSE "ALLOW"

\* Mutant of Record: insights the static checks deny are counted too.
RecordAll(n, b) ==
    LET q == Recent(subs[n][DiscoveredBy[b.content]])
    IN  subs' = [subs EXCEPT ![n][DiscoveredBy[b.content]] =
                   IF Len(q) >= RATE_LIMIT_N THEN q ELSE Append(q, now)]

\* What checking copy b leaves in n's rate limiter: only a submission that gets
\* as far as the limit is looked at, and only an allowed one is counted.
Record(n, b) ==
    LET q == Recent(subs[n][DiscoveredBy[b.content]])
    IN  subs' = IF Static(b) # "ALLOW" THEN subs
                ELSE [subs EXCEPT ![n][DiscoveredBy[b.content]] =
                        IF Len(q) >= RATE_LIMIT_N THEN q ELSE Append(q, now)]

\* pipeline.verify: the claim improves, and the claimed numbers are the
\* measured ones.  It is deterministic: every node gets the same answer.
Verifies(i) == Improves[i] /\ Claimed[i] = Measured[i]

-----------------------------------------------------------------------------
(* Authoring *)

\* Mutant of Author: the sequence number is not advanced.
AuthorSameSeq(n, bodies) ==
    /\ log' = [log EXCEPT ![n] = @ \cup Signed(n, seq[n], bodies)]
    /\ UNCHANGED seq

\* Node n signs the given bodies into its own log.
Author(n, bodies) ==
    /\ log' = [log EXCEPT ![n] = @ \cup Signed(n, seq[n], bodies)]
    /\ seq' = [seq EXCEPT ![n] = @ + 1]

Healthy == Node \ down

\* Every healthy node p signs bodies[p], each into its own log.
HealthyAuthor(bodies) ==
    /\ log' = [p \in Node |-> IF p \in Healthy
                              THEN log[p] \cup Signed(p, seq[p], bodies[p])
                              ELSE log[p]]
    /\ seq' = [p \in Node |-> IF p \in Healthy THEN seq[p] + 1 ELSE seq[p]]

\* Bound: the nodes of P have room for another announcement, injection or vote.
Room(P) == \A p \in P : seq[p] < MaxSeq[p]

-----------------------------------------------------------------------------
Init == /\ log = [n \in Node |-> {}]
        /\ seq = [n \in Node |-> 0]
        /\ subs = [n \in Node |-> [src \in Node |-> <<>>]]
        /\ now = 0
        /\ todo = [t \in Driver |-> {}]
        /\ probation = [n \in Node |-> [i \in Insight |-> [seen |-> 0, bad |-> 0]]]
        /\ down = {}
        /\ cut = {}

(* What the threads do *)

\* A copy a thread has to take through the guardrail of node "at", and what came
\* of that.
Job == [at : Node, copy : InsightCopy, verdict : Reason \cup {"ALLOW", "UNCHECKED"}]

Unchecked(n, b) == [at |-> n, copy |-> b, verdict |-> "UNCHECKED"]

\* A node announces its own insights and rules on those of others.
IsOwn(w) == DiscoveredBy[w.copy.content] = w.at

\* Mesh.announce: thread t submits n's own insight.
Announce(t, n, i) ==
    /\ todo[t] = {}
    /\ DiscoveredBy[i] = n
    /\ Room({n})
    /\ todo' = [todo EXCEPT ![t] = {Unchecked(n, InsightBody(i))}]
    /\ UNCHANGED <<log, seq, subs, now, probation, down, cut>>

\* Node.has_insight_for: an answer for this scope is known or being checked.
HasInsightFor(n, scope) ==
    \E i \in Insight : /\ Candidate(log[n], i) \/ Verified(log[n], i)
                       /\ Scope[Copy(log[n], i).content] = scope

\* Mesh.draft_and_submit: nothing is drafted for a scope that has an answer,
\* and the analyzer replays its own draft before submitting it.
DraftAndSubmit(t, n, i) ==
    /\ ~HasInsightFor(n, Scope[i])
    /\ Verifies(i)
    /\ Announce(t, n, i)

\* Mesh.inject_raw: an insight appended with no gate at all.
InjectRaw(n, i) ==
    /\ DiscoveredBy[i] = n
    /\ Room({n})
    /\ Author(n, {InsightBody(i)})
    /\ UNCHANGED <<subs, now, todo, probation, down, cut>>

\* Mutants of MayRule: a node votes again, or leaves it to the first voter.
RuleAgain(n, i)     == TRUE
RuleIfFirst(n, i)   == About(log[n], "ATTEST", i) = {}

\* Node n holds no attestation of its own on i.
MayRule(n, i) == n \notin Authors(About(log[n], "ATTEST", i))

\* The candidates of n's replica that n has to rule on.
Due(n) == {i \in Insight : /\ Candidate(log[n], i)
                           /\ DiscoveredBy[Copy(log[n], i).content] # n
                           /\ MayRule(n, i)}

\* Mesh.attest_round, as thread t comes to node n: it folds n's replica once and
\* goes through what it found there, whatever is signed in the meantime.
Survey(t, n) ==
    /\ todo[t] = {}
    /\ n \notin down
    /\ Due(n) # {}
    /\ todo' = [todo EXCEPT ![t] = {Unchecked(n, Copy(log[n], i)) : i \in Due(n)}]
    /\ UNCHANGED <<log, seq, subs, now, probation, down, cut>>

\* Thread t takes its next copy through the guardrail.
Check(t) ==
    /\ \A w \in todo[t] : w.verdict = "UNCHECKED"
    /\ \E w \in todo[t] :
          /\ Record(w.at, w.copy)
          /\ todo' = [todo EXCEPT ![t] = (@ \ {w}) \cup
                        {[w EXCEPT !.verdict = Decision(w.at, w.copy)]}]
    /\ UNCHANGED <<log, seq, now, probation, down, cut>>

\* What a node signs on a copy that was checked: an allowed insight of its own, or
\* the replay's ruling on somebody else's; and what it denies, it rules against.
Passed(w) == IF IsOwn(w) THEN {w.copy}
             ELSE {AttestBody(w.copy.id, Verifies(w.copy.content),
                              Measured[w.copy.content])}
Denied(w) == {DenyBody(w.copy.id, w.verdict)} \cup
             (IF IsOwn(w) THEN {} ELSE {AttestBody(w.copy.id, FALSE, w.verdict)})
Written(w) == IF w.verdict = "ALLOW" THEN Passed(w) ELSE Denied(w)

\* Thread t signs what came of its check into the log of the node it was made at.
Enter(t) ==
    \E w \in todo[t] :
       /\ w.verdict # "UNCHECKED"
       /\ Author(w.at, Written(w))
       /\ todo' = [todo EXCEPT ![t] = @ \ {w}]
       /\ UNCHANGED <<subs, now, probation, down, cut>>

-----------------------------------------------------------------------------
(* Replication *)

Linked(x, y) == x # y /\ {x, y} \cap down = {} /\ (x \in cut <=> y \in cut)

\* Gossip.round over the nodes that are up.
GossipRound ==
    /\ log' = [x \in Node |-> log[x] \cup
                 Admitted(UNION {log[y] : y \in {z \in Node : Linked(x, z)}})]
    /\ UNCHANGED <<seq, subs, now, todo, probation, down, cut>>

-----------------------------------------------------------------------------
(* Demotion *)

\* Mutant of VotesToRevoke: the end of probation is enough.
VotesAtEnd(q) == q.seen = PROBATION_N

\* What probation record q makes its node do.
VotesToRevoke(q) == q.seen = PROBATION_N /\ q.bad >= PROBATION_FAIL

\* Mesh._probation_tick at initiator n for an insight it just applied: count
\* the outcome; the last watched application may cast the node's vote.
ProbationTick(n, i, regressed) ==
    LET p == probation[n][i]
        q == [seen |-> p.seen + 1, bad |-> p.bad + IF regressed THEN 1 ELSE 0]
    IN  /\ Verified(log[n], i)
        /\ p.seen < PROBATION_N
        /\ probation' = [probation EXCEPT ![n][i] = q]
        /\ IF VotesToRevoke(q)
           THEN Author(n, {StatusBody(v, "REVOKED", "PROBATION") :
                              v \in Subtree(log[n], i)})
           ELSE UNCHANGED <<log, seq>>
        /\ UNCHANGED <<subs, now, todo, down, cut>>

\* Mesh.revoke: every healthy node votes on the subtree its own replica shows.
Revoke(i) ==
    /\ Room(Healthy)
    /\ HealthyAuthor([p \in Node |-> {StatusBody(v, "REVOKED", "OPERATOR") :
                                         v \in Subtree(log[p], i)}])
    /\ UNCHANGED <<subs, now, todo, probation, down, cut>>

\* Mesh.tombstone: the same with tombstones.
Tombstone(i) ==
    /\ Room(Healthy)
    /\ HealthyAuthor([p \in Node |-> {TombstoneBody(v) :
                                         v \in Subtree(log[p], i)}])
    /\ UNCHANGED <<subs, now, todo, probation, down, cut>>

-----------------------------------------------------------------------------
(* The environment: compromised nodes, chaos faults, time *)

\* FabricLog.force_append on a compromised node.
Compromised(n) ==
    /\ Room({n})
    /\ \E b \in RogueBody : Author(n, {b})
    /\ UNCHANGED <<subs, now, todo, probation, down, cut>>

\* chaos f1: one node at a time is down, and keeps its memory.
TakeDown(n) == /\ down = {}
               /\ down' = {n}
               /\ UNCHANGED <<log, seq, subs, now, todo, probation, cut>>

Restore(n) == /\ n \in down
              /\ down' = down \ {n}
              /\ UNCHANGED <<log, seq, subs, now, todo, probation, cut>>

\* chaos f3: one node at a time is cut off from all the others.
Isolate(n) == /\ cut = {}
              /\ cut' = {n}
              /\ UNCHANGED <<log, seq, subs, now, todo, probation, down>>

Heal == /\ cut # {}
        /\ cut' = {}
        /\ UNCHANGED <<log, seq, subs, now, todo, probation, down>>

\* Tasks, gossip and negotiations move the clock.
Tick == /\ now < MaxNow
        /\ now' = now + 1
        /\ UNCHANGED <<log, seq, subs, todo, probation, down, cut>>

Next == \/ \E t \in Driver :
              \/ Check(t)
              \/ Enter(t)
              \/ \E n \in Node : Survey(t, n)
              \/ \E n \in Node, i \in Insight : Announce(t, n, i)
              \/ \E n \in Node, i \in Insight : DraftAndSubmit(t, n, i)
        \/ \E n \in Node, i \in Insight : InjectRaw(n, i)
        \/ GossipRound
        \/ \E n \in Initiator, i \in Insight, r \in BOOLEAN : ProbationTick(n, i, r)
        \/ \E i \in Prunable : Revoke(i) \/ Tombstone(i)
        \/ \E n \in Rogue : Compromised(n)
        \/ \E n \in Victim : TakeDown(n) \/ Restore(n) \/ Isolate(n)
        \/ Heal
        \/ Tick

Spec == Init /\ [][Next]_vars

\* Passes keep being made: gossip rounds run, every thread goes on and keeps
\* coming to every node, and the chaos scripts undo the fault they inject.
Fairness == /\ WF_vars(GossipRound)
            /\ \A t \in Driver : WF_vars(Check(t)) /\ WF_vars(Enter(t))
            /\ \A t \in Driver, n \in Node : WF_vars(Survey(t, n))
            /\ \A n \in Victim : WF_vars(Restore(n))
            /\ WF_vars(Heal)

FairSpec == Spec /\ Fairness

-----------------------------------------------------------------------------
(* Properties *)

\* The variables have the types of the objects they stand for.
TypeOK ==
    /\ log \in [Node -> SUBSET Entry]
    /\ seq \in [Node -> Nat]
    /\ subs \in [Node -> [Node -> Seq(Nat)]]
    /\ now \in Nat
    /\ todo \in [Driver -> SUBSET Job]
    /\ probation \in [Node -> [Insight -> [seen : Nat, bad : Nat]]]
    /\ down \subseteq Node
    /\ cut \subseteq Node

\* An honest replica holds no insight under an id its content does not hash
\* to, whatever a compromised peer publishes or relays (log.py valid_body).
BodyIsBound ==
    \A n \in Honest : \A e \in log[n] :
        e.body.kind = "INSIGHT" => e.body.content = e.body.id

\* Nobody's entries are found anywhere before they are in their author's own
\* log, and none carries a sequence number its author has yet to use.
OwnEntriesAtHome ==
    \A n \in Node : \A e \in log[n] :
        /\ e.seq < seq[e.author]
        /\ ValidBody(e.body) => e \in log[e.author]

Rulings(S, a, i) == {e \in About(S, "ATTEST", i) : e.author = a}

\* attest_round (nodes.py:226) skips what a node has ruled on, in the replica it
\* folded before.  However rounds overlap, an honest node rules on an insight at
\* most once for every thread there is, so with one thread its ruling is final.
OneRulingPerDriver ==
    \A n \in Node, a \in Honest, i \in Insight :
        Cardinality(Rulings(log[n], a, i)) <= Cardinality(Driver)

\* Fewer than QUORUM compromised nodes cannot get an insight VERIFIED that the
\* guardrail denies or the replay does not confirm.
NoPoisonVerified ==
    \A n \in Honest, i \in Insight :
        Verified(log[n], i) => Verdict[i] = "ALLOW" /\ Verifies(i)

\* Nor can they demote one: an insight is QUARANTINED or REVOKED only if an
\* honest node attested against it or voted to revoke it.
DemotionNeedsHonestVoter ==
    \A n \in Honest, i \in Insight :
        StatusOf(log[n], i) \in {"QUARANTINED", "REVOKED"} =>
            Honest \cap (BadVoters(log[n], i) \cup
                         StatusVoters(log[n], i, "REVOKED")) # {}

HonestOk(S, i) == Honest \cap OkVoters(S, i, Measured[i])

\* Nodes whose standing ruling on i says nothing about i: the limiter was full,
\* or the copy at hand had a spoiled signature.
Mishap       == {"RATE_LIMITED", "INVALID_SIG"}
Misled(S, i) == Authors({e \in Standing(S, i) : e.body.replay_hash \in Mishap})

\* Once QUORUM honest nodes have confirmed an insight, a replica that shows it
\* goes on taking it for VERIFIED at least, whatever arrives later.  One thing
\* alone undoes it: a second ruling of one of them, by a thread that had not seen
\* the first, came out as a mishap and took the first one's place (log.py:216).
HonestQuorumSticks ==
    [][\A n \in Honest, i \in Insight :
          Quorate(HonestOk(log[n], i)) =>
              \/ Rank(StatusOf(log'[n], i)) >= Rank("VERIFIED")
              \/ HonestOk(log[n], i) \cap Misled(log'[n], i) # {}]_vars

\* The honest nodes replica S shows having ruled on i.
HonestRulers(S, i) == Honest \cap Authors(About(S, "ATTEST", i))

\* Honest nodes do not split, and are not wrong: where a quorum of them has ruled,
\* an insight that guardrail or replay refuses is QUARANTINED at least, and a
\* sound one VERIFIED at least unless an honest ruling on it was a mishap;
\* whatever compromised nodes add.
HonestPeersDecide ==
    \A n \in Honest, i \in Insight :
        Quorate(HonestRulers(log[n], i)) =>
            IF Verdict[i] = "ALLOW" /\ Verifies(i)
            THEN \/ Rank(StatusOf(log[n], i)) >= Rank("VERIFIED")
                 \/ Honest \cap Misled(log[n], i) # {}
            ELSE Rank(StatusOf(log[n], i)) >= Rank("QUARANTINED")

\* What node n let through its guardrail of source src and has signed (or was
\* injected), every repeat included, and the threads that are about to sign more.
LetThrough(n, src) ==
    {e \in log[n] : /\ e.author = n
                    /\ DiscoveredBy[e.body.id] = src
                    /\ \/ e.body.kind = "INSIGHT"
                       \/ e.body.kind = "ATTEST" /\ e.body.replay_hash \in Hash}
InHand(n, src) ==
    {t \in Driver : \E w \in todo[t] : /\ w.at = n
                                       /\ w.verdict = "ALLOW"
                                       /\ DiscoveredBy[w.copy.id] = src}

\* The limiter denies on what it let through, never on what it denied: by the
\* time a node rate limits a source it has let RATE_LIMIT_N submissions of that
\* source through, repeats of one insight included.
LimiterDenialsAreEarned ==
    \A n \in Honest : \A e \in log[n] :
        e.author = n /\ e.body.kind = "GUARDRAIL_DENY" /\ e.body.reason = "RATE_LIMITED" =>
            LET src == DiscoveredBy[e.body.id]
            IN  Cardinality(LetThrough(n, src)) + Cardinality(InHand(n, src)) >= RATE_LIMIT_N

\* Node a watched i regress.
Regressed(a, i) == /\ probation[a][i].seen = PROBATION_N
                   /\ probation[a][i].bad >= PROBATION_FAIL

OperatorVotes(S, i) ==
    {e \in S : /\ e.body.id = i
               /\ \/ e.body.kind = "TOMBSTONE"
                  \/ e.body.kind = "STATUS" /\ e.body.reason = "OPERATOR"}

\* Probation erases nothing on one node's bad luck: an insight no operator
\* pruned and no compromised node voted on is REVOKED only if QUORUM nodes
\* each watched it, or an insight it descends from, regress.
RevocationIsEarned ==
    \A n \in Honest, i \in Insight :
        /\ StatusOf(log[n], i) = "REVOKED"
        /\ OperatorVotes(log[n], i) = {}
        => Quorate(Rogue \cup {a \in Honest : \E p \in Insight :
                      Regressed(a, p) /\ i \in Subtree(log[a], p)})

\* A confirmed insight settles: if faults end and no limiter is full, an
\* insight that some node knows, and that guardrail and replay confirm, comes to
\* be known and ranked VERIFIED or above by every node.
SoundInsightSettles ==
    <>[](down = {} /\ cut = {}) =>
        \A i \in Insight, n \in Node :
            (Known(log[n], i) /\ Verdict[i] = "ALLOW" /\ Verifies(i)) ~>
                \A m \in Node : /\ Known(log[m], i)
                                /\ Rank(StatusOf(log[m], i)) >= Rank("VERIFIED")

-----------------------------------------------------------------------------
(* What the repository says of the program and the code does not do *)

\* core/types.py:100, fabric/log.py:17: the fold is a join over the status
\* lattice, so more entries never lower a status.  (An author's later
\* attestation replaces its earlier one.)
StatusNeverRegresses ==
    [][\A n \in Honest, i \in Insight :
          Known(log[n], i) =>
              Rank(StatusOf(log'[n], i)) >= Rank(StatusOf(log[n], i))]_vars

OperatorVotedOn(a, i) == \E e \in OperatorVotes(log[a], i) : e.author = a

\* nodes.py:319: the honest nodes that prune an insight reach the same subtree.
\* (Each derives it from what its own replica happens to hold.)
SamePruneVerdict ==
    \A a, b \in Honest, p \in Prunable :
        OperatorVotedOn(a, p) /\ OperatorVotedOn(b, p) =>
            \A v \in Insight : OperatorVotedOn(a, v) <=> OperatorVotedOn(b, v)
=============================================================================
