---------------------------- MODULE Handshake ----------------------------
(***************************************************************************)
(* The sessions of core/csp_mini.negotiate over the bus of core/bus.py, one *)
(* after the other on the same two inboxes: intents, feasibility, offers,   *)
(* the check of the final point, COMMIT and COMMIT_ACK, under delay, loss   *)
(* and a budget of virtual time.  Concession says what the offers are; here *)
(* a side may always answer or counter.                                     *)
(*                                                                         *)
(* Both sides run in one thread, so a session waits for one agent at a time *)
(* and time moves only while it waits.  Faults come from other threads: any *)
(* envelope may be lost.                                                    *)
(***************************************************************************)
EXTENDS Feasible

CONSTANTS Profile,      \* the pairs of agents: [a, b, flaw]
          NoPoint,      \* nothing agreed
          Sessions,     \* bound: sessions in a row
          Delays,       \* how long an envelope may travel
          Gaps,         \* time between two sessions
          TIMEOUT_MS, MSG_WAIT, R_MAX

Agent == {"a", "b"}
Peer(x) == IF x = "a" THEN "b" ELSE "a"

Types    == {"INTENT_DECLARE", "PROPOSE", "COUNTER", "ACCEPT", "COMMIT", "COMMIT_ACK", "ABORT"}
Outcomes == {"none", "open", "contract", "TIMEOUT", "EMPTY_FEASIBLE",
             "POLICY_VIOLATION", "SCHEMA_MISMATCH"}

\* What validate_descriptor may find.
Flaws == {"none", "POLICY_VIOLATION", "SCHEMA_MISMATCH"}

ASSUME HandshakeAssumption ==
    /\ \A f \in Profile :
          /\ f.flaw \in Flaws
          /\ \A s \in {f.a, f.b} : /\ s \in Seq({s[i] : i \in DOMAIN s})
                                 /\ \A i \in DOMAIN s : IsConstraint(s[i])
    /\ NoPoint \notin Point
    /\ Sessions \in Nat
    /\ Delays \subseteq Nat /\ Gaps \subseteq Nat
    /\ TIMEOUT_MS \in Nat \ {0} /\ MSG_WAIT \in Nat \ {0} /\ R_MAX \in Nat
    /\ \A d \in Delays : d <= 2 * MSG_WAIT     \* LOSSY_DELAY_MS, msg_wait_ms

VARIABLES
    now,            \* the virtual clock
    inbox,          \* inbox[x]: envelopes on their way to x, [at, env]
    \* of the session under way, or the last one:
    sess,           \* its number, 0 before the first
    profile,        \* the two agents' constraints
    deadline,
    seq,            \* seq[x]: envelopes x has signed
    seen,           \* seen[x]: numbers of those x has taken
    last,           \* last[x]: the envelope x sent last
    pc,             \* what is waited for
    cur,            \* who answers the offer, and then commits
    retried,        \* this wait has retransmitted
    missed,         \* a's wait for an intent gave up
    rounds,
    agreed,         \* the agreed point
    signed,         \* who has signed the contract
    outcome,        \* the result: a contract, or the reason of the abort
    lost            \* history: the types of the envelopes lost when first sent

bus     == <<now, inbox>>
channel == <<seq, last, lost>>
vars    == <<now, inbox, sess, profile, deadline, seq, seen, last, pc, cur, retried,
             missed, rounds, agreed, signed, outcome, lost>>

-----------------------------------------------------------------------------
(* The pair of agents *)

Constraints == profile.a \o profile.b
F           == FeasiblePoints(Constraints)

\* Mutant of Enforced: the point is checked against the region it came from.
EnforcedByRegion(p) == \A d \in Dim : p[d] \in FeasibleBox(Constraints)[d]

\* Fail-closed: the final point against each side's own constraints.
Enforced(p) == HardOK(profile.a, p) /\ HardOK(profile.b, p)

-----------------------------------------------------------------------------
(* Sending *)

Envelope(x, type) == [sess |-> sess, from |-> x, seq |-> seq[x], type |-> type]

\* Mutant of Put: delivered to its sender.
PutBack(boxes, env, at) ==
    [boxes EXCEPT ![env.from] = @ \cup {[at |-> at, env |-> env]}]

Put(boxes, env, at) ==
    [boxes EXCEPT ![Peer(env.from)] = @ \cup {[at |-> at, env |-> env]}]

\* Bus.send at time t, from the inboxes as they are by then.
Post(boxes, env, t) == \E d \in Delays : inbox' = Put(boxes, env, t + d)

\* send(); the envelope is lost if a node is down or cut off.
Send(boxes, x, type, t) ==
    /\ \/ Post(boxes, Envelope(x, type), t) /\ UNCHANGED lost
       \/ inbox' = boxes /\ lost' = lost \cup {type}
    /\ seq'  = [seq EXCEPT ![x] = @ + 1]
    /\ last' = [last EXCEPT ![x] = Envelope(x, type)]

-----------------------------------------------------------------------------
(* Receiving *)

Waiter == CASE pc = "intentA" -> "a"
            [] pc = "intentB" -> "b"
            [] pc \in {"offer", "ack"} -> cur
            [] OTHER -> Peer(cur)

Left == deadline - now

\* The budget may shorten the wait.
Patience == IF Left < MSG_WAIT THEN Left ELSE MSG_WAIT

Waiting == outcome = "open" /\ Left > 0

\* The envelope Bus.recv hands over, if it comes in time.
Earliest(m) == /\ m \in inbox[Waiter]
               /\ \A n \in inbox[Waiter] : m.at <= n.at
InTime(m)   == m.at <= now + Patience

\* Mutant of Fresh: an earlier session's envelope will do.
FreshAny(m) == m.env.seq \notin seen[Waiter]

Fresh(m) == m.env.sess = sess /\ m.env.seq \notin seen[Waiter]

Arrival(m) == IF m.at > now THEN m.at ELSE now
Without(m) == [inbox EXCEPT ![Waiter] = @ \ {m}]

\* recv returns m.
Receive(m) ==
    /\ Waiting /\ Earliest(m) /\ InTime(m) /\ Fresh(m)
    /\ now'     = Arrival(m)
    /\ seen'    = [seen EXCEPT ![Waiter] = @ \cup {m.env.seq}]
    /\ retried' = FALSE

Nothing == \A m \in inbox[Waiter] : ~InTime(m)

\* Left over from an earlier session, or a duplicate: recv looks again.
Discard ==
    \E m \in inbox[Waiter] :
        /\ Waiting /\ Earliest(m) /\ InTime(m) /\ ~Fresh(m)
        /\ now'   = Arrival(m)
        /\ inbox' = Without(m)
        /\ UNCHANGED <<sess, profile, deadline, seq, seen, last, pc, cur, retried, missed,
                       rounds, agreed, signed, outcome, lost>>

\* Mutant of Repeated: the envelope that is waited for is sent again.
RepeatedByPeer == last[Peer(Waiter)]

\* What is retransmitted: the waiter's own last envelope.
Repeated == last[Waiter]

Retransmit ==
    /\ Waiting /\ Nothing /\ ~retried
    /\ now'     = now + Patience
    /\ retried' = TRUE
    /\ Post(inbox, Repeated, now') \/ UNCHANGED inbox
    /\ UNCHANGED <<sess, profile, deadline, seq, seen, last, pc, cur, missed, rounds,
                   agreed, signed, outcome, lost>>

\* Mutant of Spent: the first wait is the last.
SpentAtOnce == Nothing

\* recv returns None: the budget is spent, or the second wait was in vain.
Spent == retried /\ Nothing

\* Mutant of AbortOnSilence: once it is signed, silence is taken for consent.
AbortUnlessSigned == outcome' = IF signed # {} THEN "contract" ELSE "TIMEOUT"

AbortOnSilence == outcome' = "TIMEOUT"

\* a's wait for an intent is followed by b's, whatever became of it.
GiveUp ==
    /\ outcome = "open"
    /\ \/ Left <= 0 /\ UNCHANGED now
       \/ Waiting /\ Spent /\ now' = now + Patience
    /\ retried' = FALSE
    /\ \/ /\ pc = "intentA"
          /\ pc' = "intentB" /\ missed' = TRUE
          /\ UNCHANGED outcome
       \/ /\ pc # "intentA"
          /\ pc' = "idle"
          /\ AbortOnSilence
          /\ UNCHANGED missed
    /\ UNCHANGED <<inbox, sess, profile, deadline, seq, seen, last, cur, rounds, agreed,
                   signed, lost>>

-----------------------------------------------------------------------------
(* The session *)

\* run_task lets time pass and calls negotiate, which sends both intents.
Begin ==
    /\ outcome # "open" /\ sess < Sessions
    /\ \E gap \in Gaps : now' = now + gap
    /\ sess'     = sess + 1
    /\ profile'  \in Profile
    /\ deadline' = now' + TIMEOUT_MS
    /\ last' = [x \in Agent |-> [sess |-> sess + 1, from |-> x, seq |-> 0,
                                 type |-> "INTENT_DECLARE"]]
    /\ \E delay \in [Agent -> Delays], cut \in SUBSET Agent :
          /\ inbox' = [x \in Agent |-> inbox[x] \cup
                          {[at |-> now' + delay[y], env |-> last'[y]] : y \in {Peer(x)} \ cut}]
          /\ lost'  = {"INTENT_DECLARE" : y \in cut}
    /\ seq'  = [x \in Agent |-> 1]
    /\ seen' = [x \in Agent |-> {}]
    /\ pc' = "intentA" /\ cur' = "a"
    /\ retried' = FALSE /\ missed' = FALSE
    /\ rounds' = 0 /\ agreed' = NoPoint /\ signed' = {}
    /\ outcome' = "open"

IntentOfB ==
    \E m \in inbox["a"] :
        /\ pc = "intentA" /\ Receive(m)
        /\ pc' = "intentB"
        /\ inbox' = Without(m)
        /\ UNCHANGED <<sess, profile, deadline, channel, cur, missed, rounds, agreed, signed,
                       outcome>>

\* Without an agreement on anything; nothing is sent.
Refuse(m, reason) ==
    /\ outcome' = reason /\ pc' = "idle"
    /\ inbox' = Without(m)
    /\ UNCHANGED <<channel, cur, rounds>>

\* _Abort: a tells b.
Abort(m, reason) ==
    /\ outcome' = reason /\ pc' = "idle"
    /\ Send(Without(m), "a", "ABORT", now')
    /\ UNCHANGED <<cur, rounds>>

Propose(m) ==
    /\ pc' = "offer" /\ rounds' = 1
    /\ \E proposer \in Agent :          \* the nonces choose
          /\ Send(Without(m), proposer, "PROPOSE", now')
          /\ cur' = Peer(proposer)
    /\ UNCHANGED outcome

\* The second intent; then descriptors, feasibility, and the first offer.
IntentOfA ==
    \E m \in inbox["b"] :
        /\ pc = "intentB" /\ Receive(m)
        /\ \/ missed /\ Refuse(m, "TIMEOUT")
           \/ ~missed /\ profile.flaw # "none" /\ Abort(m, profile.flaw)
           \/ ~missed /\ profile.flaw = "none" /\ F = {} /\ Refuse(m, "EMPTY_FEASIBLE")
           \/ ~missed /\ profile.flaw = "none" /\ F # {} /\ Propose(m)
        /\ UNCHANGED <<sess, profile, deadline, missed, agreed, signed>>

Counter ==
    \E m \in inbox[cur] :
        /\ pc = "offer" /\ Receive(m) /\ rounds < R_MAX
        /\ rounds' = rounds + 1
        /\ Send(Without(m), cur, "COUNTER", now')
        /\ cur' = Peer(cur)
        /\ UNCHANGED <<sess, profile, deadline, pc, missed, agreed, signed, outcome>>

\* ACCEPT, or SETTLE at the midpoint: the point is one of F.
Answer ==
    \E m \in inbox[cur] :
        /\ pc = "offer" /\ Receive(m)
        /\ agreed' \in F
        /\ Send(Without(m), cur, "ACCEPT", now')
        /\ pc' = "answer"
        /\ UNCHANGED <<sess, profile, deadline, cur, missed, rounds, signed, outcome>>

\* The answer is taken, the point checked; cur signs the contract.
Answered ==
    \E m \in inbox[Peer(cur)] :
        /\ pc = "answer" /\ Receive(m)
        /\ \/ /\ Enforced(agreed)
              /\ signed' = {cur}
              /\ Send(Without(m), cur, "COMMIT", now')
              /\ pc' = "commit"
              /\ UNCHANGED outcome
           \/ /\ ~Enforced(agreed)
              /\ outcome' = "POLICY_VIOLATION" /\ pc' = "idle"
              /\ inbox' = Without(m)
              /\ UNCHANGED <<channel, signed>>
        /\ UNCHANGED <<sess, profile, deadline, cur, missed, rounds, agreed>>

Committed ==
    \E m \in inbox[Peer(cur)] :
        /\ pc = "commit" /\ Receive(m)
        /\ signed' = signed \cup {Peer(cur)}
        /\ Send(Without(m), Peer(cur), "COMMIT_ACK", now')
        /\ pc' = "ack"
        /\ UNCHANGED <<sess, profile, deadline, cur, missed, rounds, agreed, outcome>>

Acknowledged ==
    \E m \in inbox[cur] :
        /\ pc = "ack" /\ Receive(m)
        /\ outcome' = "contract" /\ pc' = "idle"
        /\ inbox' = Without(m)
        /\ UNCHANGED <<sess, profile, deadline, channel, cur, missed, rounds, agreed, signed>>

Init ==
    /\ now = 0 /\ deadline = 0 /\ sess = 0
    /\ profile \in Profile
    /\ inbox = [x \in Agent |-> {}]
    /\ seq = [x \in Agent |-> 0] /\ seen = [x \in Agent |-> {}]
    /\ last = [x \in Agent |-> [sess |-> 0, from |-> x, seq |-> 0, type |-> "INTENT_DECLARE"]]
    /\ pc = "idle" /\ cur = "a"
    /\ retried = FALSE /\ missed = FALSE
    /\ rounds = 0 /\ agreed = NoPoint /\ signed = {}
    /\ outcome = "none" /\ lost = {}

Next == \/ Begin \/ Discard \/ Retransmit \/ GiveUp
        \/ IntentOfB \/ IntentOfA \/ Counter \/ Answer
        \/ Answered \/ Committed \/ Acknowledged

Spec == Init /\ [][Next]_vars

-----------------------------------------------------------------------------
(* Properties *)

Envelopes == [sess : 0..Sessions, from : Agent, seq : Nat, type : Types]

\* The variables have the types of the objects they stand for, and an inbox
\* holds what its owner's peer signed.
TypeOK ==
    /\ now \in Nat /\ deadline \in Nat /\ sess \in 0..Sessions
    /\ profile \in Profile
    /\ inbox \in [Agent -> SUBSET [at : Nat, env : Envelopes]]
    /\ \A x \in Agent : \A m \in inbox[x] : m.env.from = Peer(x)
    /\ seq \in [Agent -> Nat]
    /\ seen \in [Agent -> SUBSET Nat]
    /\ last \in [Agent -> Envelopes]
    /\ pc \in {"idle", "intentA", "intentB", "offer", "answer", "commit", "ack"}
    /\ cur \in Agent
    /\ retried \in BOOLEAN /\ missed \in BOOLEAN
    /\ rounds \in Nat
    /\ agreed \in Point \cup {NoPoint}
    /\ signed \subseteq Agent
    /\ outcome \in Outcomes
    /\ lost \subseteq Types

\* What each wait is for.
Awaited == CASE pc \in {"intentA", "intentB"} -> {"INTENT_DECLARE"}
             [] pc = "offer"  -> {"PROPOSE", "COUNTER"}
             [] pc = "answer" -> {"ACCEPT"}
             [] pc = "commit" -> {"COMMIT"}
             [] pc = "ack"    -> {"COMMIT_ACK"}
             [] OTHER -> {}

\* recv checks no message type, and whatever it returns is taken for the next
\* step's message.  Nothing else could be: whatever is on its way to the waiter
\* and passes the session check and the replay guard is what it waits for.
NothingElseCounts ==
    outcome = "open" =>
        \A m \in inbox[Waiter] :
            m.env.sess = sess /\ m.env.seq \notin seen[Waiter] => m.env.type \in Awaited

\* A session never outlasts its budget; and unless one of its envelopes was
\* lost, it ends in TIMEOUT only with the budget spent: a slow link alone never
\* makes recv give up early (csp_mini.py recv, msg_wait_ms).
BudgetKept ==
    /\ outcome # "none" => now <= deadline
    /\ outcome = "TIMEOUT" /\ lost = {} => now = deadline

\* EMPTY_FEASIBLE, and the POLICY_VIOLATION of the final check, are true: no
\* value of the registered domains meets both sides' constraints and the
\* physics, so the grid loses nothing that matters.
Realizable(p) == CouplingOK(p) /\ HardOK(profile.a, p) /\ HardOK(profile.b, p)
JustifiedRefusal ==
    \/ outcome = "EMPTY_FEASIBLE"
    \/ outcome = "POLICY_VIOLATION" /\ profile.flaw = "none"
    => ~\E p \in Point : Realizable(p)

\* Relaxation opens a negotiation that cannot succeed: a contract stands only
\* where nothing was relaxed, because the final check knows no relaxation.
RelaxedNeverSettles == outcome = "contract" => ~Relaxed(Constraints)

\* Retransmission repairs no more than an intent: whoever waits repeats its own
\* last envelope, and that one was taken long ago.  A session that lost any
\* other envelope never ends in a contract.
LossIsFinal == outcome = "contract" => lost \subseteq {"INTENT_DECLARE"}

\* A session keeps the promise of Agreement: a point before signatures, both
\* signatures before a contract, and an aborted session never turns into one.
Result == IF outcome \in {"open", "contract"} THEN outcome ELSE "aborted"
A == INSTANCE Agreement WITH Party <- Agent, result <- Result
IsAgreement == A!Spec
=============================================================================
