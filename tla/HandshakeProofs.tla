-------------------------- MODULE HandshakeProofs --------------------------
(* The promises of a negotiation, for every pair of agents, budget and delay. *)
(* The inductive invariant says what is on its way: at most one envelope that *)
(* its receiver has not taken, and that is the one waited for.  A count of   *)
(* waits, retransmissions and envelopes left shows that sessions run out.    *)
EXTENDS Handshake, FeasibleProofs

BoxesOK(boxes) == /\ boxes \in [Agent -> SUBSET [at : Nat, env : Envelopes]]
                  /\ \A x \in Agent : \A m \in boxes[x] : m.env.from = Peer(x)

LEMMA PeerIs ==
    \A x \in Agent : Peer(x) \in Agent /\ Peer(Peer(x)) = x /\ Peer(x) # x
BY DEF Agent, Peer

LEMMA WaiterIs == TypeOK => Waiter \in Agent
BY PeerIs DEF TypeOK, Waiter, Agent

-----------------------------------------------------------------------------
(* Types *)

LEMMA PostTypes ==
    ASSUME NEW boxes, BoxesOK(boxes), NEW env \in Envelopes, NEW t \in Nat,
           Post(boxes, env, t)
    PROVE  BoxesOK(inbox')
<1>1. PICK d \in Delays : inbox' = Put(boxes, env, t + d)
  BY DEF Post
<1>2. t + d \in Nat
  BY HandshakeAssumption
<1>3. env.from \in Agent /\ Peer(env.from) \in Agent /\ Peer(Peer(env.from)) = env.from
  BY PeerIs DEF Envelopes
<1> DEFINE n == [at |-> t + d, env |-> env]
<1>4. n \in [at : Nat, env : Envelopes] /\ n.env = env
  BY <1>2
<1>5. inbox' = [boxes EXCEPT ![Peer(env.from)] = @ \cup {n}]
  BY <1>1 DEF Put
<1> HIDE DEF n
<1> QED BY <1>3, <1>4, <1>5 DEF BoxesOK

LEMMA EnvelopeTypes ==
    ASSUME TypeOK, NEW x \in Agent, NEW type \in Types
    PROVE  Envelope(x, type) \in Envelopes
BY DEF TypeOK, Envelope, Envelopes

LEMMA SendTypes ==
    ASSUME TypeOK, NEW boxes, BoxesOK(boxes), NEW x \in Agent, NEW type \in Types,
           NEW t \in Nat, Send(boxes, x, type, t)
    PROVE  /\ BoxesOK(inbox')
           /\ seq' \in [Agent -> Nat] /\ last' \in [Agent -> Envelopes]
           /\ lost' \subseteq Types
<1>1. Envelope(x, type) \in Envelopes
  BY EnvelopeTypes
<1>2. BoxesOK(inbox')
  BY <1>1, PostTypes DEF Send
<1> QED BY <1>1, <1>2 DEF Send, TypeOK

LEMMA PatienceTypes ==
    ASSUME TypeOK, Waiting
    PROVE  /\ Patience \in Nat /\ now + Patience \in Nat
           /\ now + Patience <= deadline
           /\ Patience <= MSG_WAIT
           /\ Patience < MSG_WAIT => now + Patience = deadline
BY HandshakeAssumption DEF TypeOK, Waiting, Left, Patience

LEMMA WithoutTypes ==
    ASSUME TypeOK, NEW m
    PROVE  BoxesOK(Without(m))
BY WaiterIs DEF TypeOK, Without, BoxesOK

LEMMA ReceiveTypes ==
    ASSUME TypeOK, NEW m, Receive(m)
    PROVE  /\ Waiter \in Agent /\ m \in inbox[Waiter]
           /\ m \in [at : Nat, env : Envelopes] /\ m.env.from = Peer(Waiter)
           /\ now' \in Nat /\ now <= now' /\ now' <= deadline
           /\ seen' \in [Agent -> SUBSET Nat]
           /\ retried' = FALSE /\ BoxesOK(Without(m))
<1>1. Waiter \in Agent /\ m \in inbox[Waiter]
  BY WaiterIs DEF Receive, Earliest
<1>2. m \in [at : Nat, env : Envelopes] /\ m.env.from = Peer(Waiter)
  BY <1>1 DEF TypeOK
<1>3. m.at \in Nat /\ m.env.seq \in Nat
  BY <1>2 DEF Envelopes
<1>4. m.at <= now + Patience /\ now + Patience <= deadline /\ Patience \in Nat
  BY PatienceTypes DEF Receive, InTime
<1>5. now' \in Nat /\ now <= now' /\ now' <= deadline
  BY <1>3, <1>4 DEF Receive, Arrival, TypeOK
<1>6. seen' \in [Agent -> SUBSET Nat] /\ retried' = FALSE
  BY <1>1, <1>3 DEF Receive, TypeOK
<1> QED BY <1>1, <1>2, <1>5, <1>6, WithoutTypes

LEMMA ConstraintsTypes ==
    ASSUME TypeOK
    PROVE  /\ ConstraintList(profile.a) /\ ConstraintList(profile.b)
           /\ ConstraintList(Constraints)
           /\ profile.flaw \in Flaws
<1>1. /\ ConstraintList(profile.a) /\ ConstraintList(profile.b)
      /\ profile.flaw \in Flaws
  BY HandshakeAssumption DEF TypeOK, ConstraintList
<1> DEFINE h == profile.a
           g == profile.b
           X == {h[i] : i \in DOMAIN h} \cup {g[i] : i \in DOMAIN g}
<1>2. h \in Seq(X) /\ g \in Seq(X)
  <2>1. h \in Seq({h[i] : i \in DOMAIN h}) /\ g \in Seq({g[i] : i \in DOMAIN g})
    BY <1>1 DEF ConstraintList
  <2> QED BY <2>1
<1>3. \A e \in X : IsConstraint(e)
  BY <1>1 DEF ConstraintList
<1> HIDE DEF X, h, g
<1> DEFINE c == h \o g
<1>4. c \in Seq(X)
  BY <1>2
<1> HIDE DEF c
<1>5. \A i \in DOMAIN c : c[i] \in X /\ IsConstraint(c[i])
  BY <1>3, <1>4
<1>6. c \in Seq({c[i] : i \in DOMAIN c})
  <2>1. c \in [1..Len(c) -> X] /\ Len(c) \in Nat /\ DOMAIN c = 1..Len(c)
    BY <1>4
  <2>2. c \in [1..Len(c) -> {c[i] : i \in DOMAIN c}]
    BY <2>1
  <2> QED BY <2>1, <2>2
<1>7. ConstraintList(c)
  BY <1>5, <1>6 DEF ConstraintList
<1>8. Constraints = c
  BY DEF Constraints, c, h, g
<1> QED BY <1>1, <1>7, <1>8

LEMMA GridTypes ==
    ASSUME TypeOK
    PROVE  F \subseteq Point /\ NoPoint \notin F
BY ConstraintsTypes, GridIsInBox, HandshakeAssumption DEF F

LEMMA InitTypes == Init => TypeOK
<1> SUFFICES ASSUME Init PROVE TypeOK
  OBVIOUS
<1>1. 0 \in 0..Sessions
  BY HandshakeAssumption
<1>2. last \in [Agent -> Envelopes]
  BY <1>1 DEF Init, Envelopes, Types
<1>3. inbox \in [Agent -> SUBSET [at : Nat, env : Envelopes]]
  BY DEF Init
<1>4. \A x \in Agent : \A m \in inbox[x] : m.env.from = Peer(x)
  BY DEF Init
<1>5. cur \in Agent /\ outcome \in Outcomes
  BY DEF Init, Agent, Outcomes
<1> QED BY <1>1, <1>2, <1>3, <1>4, <1>5 DEF Init, TypeOK

LEMMA BeginTypes == TypeOK /\ Begin => TypeOK'
<1> SUFFICES ASSUME TypeOK, Begin PROVE TypeOK'
  OBVIOUS
<1>1. sess' = sess + 1 /\ sess' \in 0..Sessions
  BY HandshakeAssumption DEF Begin, TypeOK
<1>2. now' \in Nat /\ deadline' \in Nat
  BY HandshakeAssumption DEF Begin, TypeOK
<1>3. /\ last' \in [Agent -> Envelopes]
      /\ \A x \in Agent : last'[x].from = x
  BY <1>1 DEF Begin, Envelopes, Types
<1>4. /\ inbox' \in [Agent -> SUBSET [at : Nat, env : Envelopes]]
      /\ \A x \in Agent : \A m \in inbox'[x] : m.env.from = Peer(x)
      /\ lost' \subseteq Types
  <2>1. PICK delay \in [Agent -> Delays], cut \in SUBSET Agent :
           /\ inbox' = [x \in Agent |-> inbox[x] \cup
                  {[at |-> now' + delay[y], env |-> last'[y]] : y \in {Peer(x)} \ cut}]
           /\ lost'  = {"INTENT_DECLARE" : y \in cut}
    BY DEF Begin
  <2>2. \A x \in Agent : now' + delay[x] \in Nat
    <3>1. \A x \in Agent : delay[x] \in Nat
      BY HandshakeAssumption
    <3> QED BY <1>2, <3>1
  <2>3. ASSUME NEW x \in Agent, NEW m \in inbox'[x]
        PROVE  m \in [at : Nat, env : Envelopes] /\ m.env.from = Peer(x)
    <3>1. CASE m \in inbox[x]
      BY <3>1 DEF TypeOK
    <3>2. CASE m \notin inbox[x]
      <4>1. m = [at |-> now' + delay[Peer(x)], env |-> last'[Peer(x)]]
        BY <2>1, <3>2
      <4> QED BY <1>3, <2>2, <4>1, PeerIs
    <3> QED BY <3>1, <3>2
  <2>4. lost' \subseteq Types
    BY <2>1 DEF Types
  <2> QED BY <2>1, <2>3, <2>4
<1>5. /\ seq' \in [Agent -> Nat] /\ seen' \in [Agent -> SUBSET Nat]
      /\ pc' = "intentA" /\ cur' \in Agent /\ retried' = FALSE /\ missed' = FALSE
      /\ rounds' \in Nat /\ agreed' = NoPoint /\ signed' = {} /\ outcome' = "open"
      /\ profile' \in Profile
  BY DEF Begin, Agent
<1> QED BY <1>1, <1>2, <1>3, <1>4, <1>5 DEF TypeOK, Outcomes

LEMMA WaitTypes ==
    TypeOK /\ (Discard \/ Retransmit \/ GiveUp) => TypeOK'
<1> SUFFICES ASSUME TypeOK PROVE (Discard \/ Retransmit \/ GiveUp) => TypeOK'
  OBVIOUS
<1>1. ASSUME Discard PROVE TypeOK'
  <2>1. PICK m \in inbox[Waiter] : /\ Waiting /\ now' = Arrival(m) /\ inbox' = Without(m)
    BY <1>1 DEF Discard
  <2>2. BoxesOK(inbox')
    BY <2>1, WithoutTypes
  <2>3. now' \in Nat
    BY <2>1, WaiterIs DEF TypeOK, Arrival
  <2> QED BY <1>1, <2>2, <2>3 DEF Discard, TypeOK, BoxesOK
<1>2. ASSUME Retransmit PROVE TypeOK'
  <2>1. now' \in Nat
    BY <1>2, PatienceTypes DEF Retransmit
  <2>2. BoxesOK(inbox) /\ Repeated \in Envelopes
    BY WaiterIs DEF TypeOK, BoxesOK, Repeated
  <2>3. BoxesOK(inbox')
    BY <1>2, <2>1, <2>2, PostTypes DEF Retransmit
  <2> QED BY <1>2, <2>1, <2>3 DEF Retransmit, TypeOK, BoxesOK
<1>3. ASSUME GiveUp PROVE TypeOK'
  <2>1. now' \in Nat
    BY <1>3, PatienceTypes DEF GiveUp, TypeOK
  <2> QED BY <1>3, <2>1 DEF GiveUp, AbortOnSilence, TypeOK, Outcomes
<1> QED BY <1>1, <1>2, <1>3

\* The variables Send writes, as TypeOK wants them.
SentTypes == /\ BoxesOK(inbox')
             /\ seq' \in [Agent -> Nat] /\ last' \in [Agent -> Envelopes]
             /\ lost' \subseteq Types

LEMMA KeptTypes ==
    ASSUME TypeOK, NEW m, inbox' = Without(m), UNCHANGED channel
    PROVE  SentTypes
BY WithoutTypes DEF TypeOK, SentTypes, channel

LEMMA SentAreTypes ==
    ASSUME TypeOK, NEW m, Receive(m), NEW x \in Agent, NEW type \in Types,
           Send(Without(m), x, type, now')
    PROVE  SentTypes
BY ReceiveTypes, SendTypes DEF SentTypes

LEMMA SessionTypes ==
    ASSUME TypeOK,
           IntentOfB \/ IntentOfA \/ Counter \/ Answer \/ Answered \/ Committed \/ Acknowledged
    PROVE  TypeOK'
<1>0. /\ cur \in Agent /\ Peer(cur) \in Agent /\ profile.flaw \in Flaws
      /\ F \subseteq Point
  BY PeerIs, ConstraintsTypes, GridTypes DEF TypeOK
<1>1. ASSUME IntentOfB PROVE TypeOK'
  <2>1. PICK m \in inbox["a"] : Receive(m) /\ inbox' = Without(m)
    BY <1>1 DEF IntentOfB
  <2>2. SentTypes
    BY <1>1, <2>1, KeptTypes DEF IntentOfB
  <2> QED BY <1>1, <2>1, <2>2, ReceiveTypes DEF IntentOfB, SentTypes, BoxesOK, TypeOK
<1>2. ASSUME IntentOfA PROVE TypeOK'
  <2>1. PICK m \in inbox["b"] :
           /\ pc = "intentB" /\ Receive(m)
           /\ \/ missed /\ Refuse(m, "TIMEOUT")
              \/ ~missed /\ profile.flaw # "none" /\ Abort(m, profile.flaw)
              \/ ~missed /\ profile.flaw = "none" /\ F = {} /\ Refuse(m, "EMPTY_FEASIBLE")
              \/ ~missed /\ profile.flaw = "none" /\ F # {} /\ Propose(m)
           /\ UNCHANGED <<sess, profile, deadline, missed, agreed, signed>>
    BY <1>2 DEF IntentOfA
  <2>2. /\ SentTypes /\ outcome' \in Outcomes /\ pc' \in {"idle", "offer"}
        /\ cur' \in Agent /\ rounds' \in Nat
    <3>1. CASE Refuse(m, "TIMEOUT") \/ Refuse(m, "EMPTY_FEASIBLE")
      <4>1. SentTypes
        BY <3>1, KeptTypes DEF Refuse
      <4> QED BY <3>1, <4>1 DEF Refuse, TypeOK, Outcomes
    <3>2. CASE profile.flaw # "none" /\ Abort(m, profile.flaw)
      <4>1. SentTypes
        BY <2>1, <3>2, SentAreTypes DEF Abort, Agent, Types
      <4> QED BY <1>0, <3>2, <4>1 DEF Abort, TypeOK, Outcomes, Flaws
    <3>3. CASE Propose(m)
      <4>1. PICK p \in Agent : Send(Without(m), p, "PROPOSE", now') /\ cur' = Peer(p)
        BY <3>3 DEF Propose
      <4>2. SentTypes
        BY <2>1, <4>1, SentAreTypes DEF Types
      <4> QED BY <3>3, <4>1, <4>2, PeerIs DEF Propose, TypeOK
    <3> QED BY <2>1, <3>1, <3>2, <3>3
  <2> QED BY <2>1, <2>2, ReceiveTypes DEF SentTypes, BoxesOK, TypeOK
<1>3. ASSUME Counter PROVE TypeOK'
  <2>1. PICK m \in inbox[cur] : Receive(m) /\ Send(Without(m), cur, "COUNTER", now')
    BY <1>3 DEF Counter
  <2>2. SentTypes
    BY <1>0, <2>1, SentAreTypes DEF Types
  <2>3. /\ rounds' \in Nat /\ cur' \in Agent
        /\ UNCHANGED <<sess, profile, deadline, pc, missed, agreed, signed, outcome>>
    BY <1>0, <1>3 DEF Counter, TypeOK
  <2> QED BY <2>1, <2>2, <2>3, ReceiveTypes DEF SentTypes, BoxesOK, TypeOK
<1>4. ASSUME Answer PROVE TypeOK'
  <2>1. PICK m \in inbox[cur] : Receive(m) /\ Send(Without(m), cur, "ACCEPT", now')
    BY <1>4 DEF Answer
  <2>2. SentTypes
    BY <1>0, <2>1, SentAreTypes DEF Types
  <2> QED BY <1>0, <1>4, <2>1, <2>2, ReceiveTypes DEF Answer, SentTypes, BoxesOK, TypeOK
<1>5. ASSUME Answered PROVE TypeOK'
  <2>1. PICK m \in inbox[Peer(cur)] :
           /\ pc = "answer" /\ Receive(m)
           /\ \/ /\ Enforced(agreed)
                 /\ signed' = {cur}
                 /\ Send(Without(m), cur, "COMMIT", now')
                 /\ pc' = "commit"
                 /\ UNCHANGED outcome
              \/ /\ ~Enforced(agreed)
                 /\ outcome' = "POLICY_VIOLATION" /\ pc' = "idle"
                 /\ inbox' = Without(m)
                 /\ UNCHANGED <<channel, signed>>
           /\ UNCHANGED <<sess, profile, deadline, cur, missed, rounds, agreed>>
    BY <1>5 DEF Answered
  <2>2. SentTypes
    BY <1>0, <2>1, SentAreTypes, KeptTypes DEF Types
  <2> QED BY <1>0, <2>1, <2>2, ReceiveTypes DEF Outcomes, SentTypes, BoxesOK, TypeOK
<1>6. ASSUME Committed PROVE TypeOK'
  <2>1. PICK m \in inbox[Peer(cur)] :
           Receive(m) /\ Send(Without(m), Peer(cur), "COMMIT_ACK", now')
    BY <1>6 DEF Committed
  <2>2. SentTypes
    BY <1>0, <2>1, SentAreTypes DEF Types
  <2> QED BY <1>0, <1>6, <2>1, <2>2, ReceiveTypes DEF Committed, SentTypes, BoxesOK, TypeOK
<1>7. ASSUME Acknowledged PROVE TypeOK'
  <2>1. PICK m \in inbox[cur] : Receive(m) /\ inbox' = Without(m)
    BY <1>7 DEF Acknowledged
  <2>2. SentTypes
    BY <1>7, <2>1, KeptTypes DEF Acknowledged
  <2> QED BY <1>7, <2>1, <2>2, ReceiveTypes
          DEF Acknowledged, SentTypes, BoxesOK, TypeOK, Outcomes
<1> QED BY <1>1, <1>2, <1>3, <1>4, <1>5, <1>6, <1>7

LEMMA StutterTypes == TypeOK /\ UNCHANGED vars => TypeOK'
BY DEF vars, TypeOK

\* The variables keep their types, and an inbox holds what its owner's peer
\* signed.
THEOREM TypeCorrect == Spec => []TypeOK
<1>1. TypeOK /\ [Next]_vars => TypeOK'
  BY BeginTypes, WaitTypes, SessionTypes, StutterTypes DEF Next
<1> QED BY <1>1, InitTypes, PTL DEF Spec

-----------------------------------------------------------------------------
(* What is on its way.  Of a session that is open, whoever waits has not    *)
(* taken its peer's last envelope, and nothing else of the session that it  *)
(* has not taken is on its way to it; the other side has taken everything,  *)
(* but for the first intents, which cross.                                 *)

\* x has taken all that its peer has sent, sn being what it has taken.
Taken(boxes, sn, x) == /\ last[Peer(x)].seq \in sn[x]
                       /\ \A m \in boxes[x] : m.env.sess = sess => m.env.seq \in sn[x]

Quiet(x) == Taken(inbox, seen, x)

Expects(x) == /\ last[Peer(x)].seq \notin seen[x]
              /\ \A m \in inbox[x] :
                    m.env.sess = sess /\ m.env.seq \notin seen[x] => m.env = last[Peer(x)]

NoFuture == \A x \in Agent : \A m \in inbox[x] : m.env.sess <= sess

Numbered == \A x \in Agent : /\ last[x].sess = sess /\ seq[x] = last[x].seq + 1
                            /\ \A n \in seen[x] : n < seq[Peer(x)]

Flow == /\ pc # "idle" /\ (missed => pc = "intentB")
        /\ Numbered
        /\ last[Peer(Waiter)].type \in Awaited
        /\ Expects(Waiter)
        /\ pc = "intentA" => last["a"].type = "INTENT_DECLARE" /\ Expects("b")
        /\ pc # "intentA" /\ ~missed => Quiet(Peer(Waiter))

ChannelInv == /\ NoFuture
              /\ \A x \in Agent : last[x].from = x
              /\ outcome = "open" => Flow

\* What recv returns is the peer's last envelope, and then all is taken.
LEMMA ReceiveTakes ==
    ASSUME TypeOK, ChannelInv, outcome = "open", NEW m, Receive(m)
    PROVE  /\ m.env = last[Peer(Waiter)] /\ m.env.sess = sess /\ m.env.seq \notin seen[Waiter]
           /\ Taken(Without(m), seen', Waiter)
           /\ Quiet(Peer(Waiter)) => Taken(Without(m), seen', Peer(Waiter))
           /\ \A x \in Agent : \A n \in seen'[x] : n < seq[Peer(x)]
<1>1. Waiter \in Agent /\ Peer(Waiter) \in Agent /\ Peer(Waiter) # Waiter /\ m \in inbox[Waiter]
  BY ReceiveTypes, PeerIs
<1>2. Expects(Waiter) /\ Numbered
  BY DEF ChannelInv, Flow
<1> DEFINE w == Waiter
           v == Peer(Waiter)
<1>3. m.env.sess = sess /\ m.env.seq \notin seen[w] /\ seen' = [seen EXCEPT ![w] = @ \cup {m.env.seq}]
  BY DEF Receive, Fresh
<1>4. m.env = last[v]
  BY <1>1, <1>2, <1>3 DEF Expects
<1>5. seen' \in [Agent -> SUBSET Nat] /\ seen \in [Agent -> SUBSET Nat]
  BY ReceiveTypes DEF TypeOK
<1>6. Without(m) = [inbox EXCEPT ![w] = @ \ {m}] /\ DOMAIN inbox = Agent
  BY DEF Without, TypeOK
<1> HIDE DEF w, v
<1>7. w \in Agent /\ v \in Agent /\ v # w
  BY <1>1 DEF w, v
<1>8. /\ seen'[w] = seen[w] \cup {m.env.seq} /\ seen'[v] = seen[v]
      /\ Without(m)[w] = inbox[w] \ {m} /\ Without(m)[v] = inbox[v]
  BY <1>3, <1>5, <1>6, <1>7
<1>9. Taken(Without(m), seen', Waiter)
  BY <1>2, <1>4, <1>8 DEF Taken, Expects, w, v
<1>10. Quiet(v) => Taken(Without(m), seen', v)
  BY <1>8 DEF Quiet, Taken
<1>11. ASSUME NEW x \in Agent, NEW n \in seen'[x]
       PROVE  n < seq[Peer(x)]
  <2>1. CASE n \in seen[x]
    BY <1>2, <2>1 DEF Numbered
  <2>2. CASE n \notin seen[x]
    <3>1. x = w /\ n = m.env.seq
      BY <1>3, <1>5, <1>7, <2>2
    <3>2. n = last[v].seq /\ seq[v] = last[v].seq + 1 /\ Peer(x) = v
      BY <1>2, <1>4, <1>7, <3>1 DEF Numbered, v, w
    <3>3. last[v].seq \in Nat
      BY <1>7 DEF TypeOK, Envelopes
    <3> QED BY <3>2, <3>3
  <2> QED BY <2>1, <2>2
<1> QED BY <1>3, <1>4, <1>9, <1>10, <1>11 DEF w, v

\* After Send by y, all is taken but what y sent.
SentBy(y, type) == /\ Numbered' /\ NoFuture'
                   /\ \A x \in Agent : last'[x].from = x
                   /\ last'[y].type = type
                   /\ Expects(Peer(y))' /\ Quiet(y)'

LEMMA SendAwaits ==
    ASSUME TypeOK, ChannelInv, outcome = "open", NEW m, Receive(m),
           \A x \in Agent : Taken(Without(m), seen', x),
           NEW y \in Agent, NEW type \in Types, Send(Without(m), y, type, now'), sess' = sess
    PROVE  SentBy(y, type)
<1> DEFINE z == Peer(y)
           e == Envelope(y, type)
           boxes == Without(m)
<1>1. z \in Agent /\ Peer(z) = y /\ z # y /\ e \in Envelopes
  BY PeerIs, EnvelopeTypes
<1>2. e.sess = sess /\ e.from = y /\ e.seq = seq[y] /\ e.type = type
  BY DEF Envelope
<1>3. seq' = [seq EXCEPT ![y] = @ + 1] /\ last' = [last EXCEPT ![y] = e]
  BY DEF Send
<1> HIDE DEF e
<1>4. /\ seq \in [Agent -> Nat] /\ last \in [Agent -> Envelopes] /\ sess \in Nat
      /\ seen' \in [Agent -> SUBSET Nat] /\ BoxesOK(boxes)
  <2>1. seq \in [Agent -> Nat] /\ last \in [Agent -> Envelopes] /\ sess \in Nat
    BY HandshakeAssumption DEF TypeOK
  <2>2. seen' \in [Agent -> SUBSET Nat] /\ BoxesOK(Without(m))
    BY ReceiveTypes
  <2> QED BY <2>1, <2>2
<1>5. /\ Numbered /\ NoFuture /\ \A x \in Agent : last[x].from = x
      /\ \A x \in Agent : \A n \in seen'[x] : n < seq[Peer(x)]
  BY ReceiveTakes DEF ChannelInv, Flow
<1>6. \A x \in Agent : boxes[x] \subseteq inbox[x]
  BY DEF Without, TypeOK
<1>7. \/ inbox' = boxes
      \/ \E d \in Delays : inbox' = [boxes EXCEPT ![z] = @ \cup {[at |-> now' + d, env |-> e]}]
  BY <1>2 DEF Send, Post, Put, e
<1>70. DOMAIN boxes = Agent
  BY <1>4 DEF BoxesOK
<1> HIDE DEF z, boxes
<1>8. /\ inbox'[y] = boxes[y]
      /\ \A k \in inbox'[z] : k \in boxes[z] \/ k.env = e
  <2>1. CASE inbox' = boxes
    BY <2>1
  <2>2. ASSUME NEW d \in Delays, inbox' = [boxes EXCEPT ![z] = @ \cup {[at |-> now' + d, env |-> e]}]
        PROVE  /\ inbox'[y] = boxes[y]
               /\ \A k \in inbox'[z] : k \in boxes[z] \/ k.env = e
    BY <1>1, <1>70, <2>2
  <2> QED BY <1>7, <2>1, <2>2
<1>9. /\ last'[y] = e /\ last'[z] = last[z]
      /\ seq'[y] = seq[y] + 1 /\ seq'[z] = seq[z]
  BY <1>1, <1>3, <1>4
<1>10. \A x \in Agent : x = y \/ x = z
  BY <1>1 DEF Agent
<1>11. Numbered'
  <2>1. ASSUME NEW x \in Agent
        PROVE  /\ last'[x].sess = sess' /\ seq'[x] = last'[x].seq + 1
               /\ \A n \in seen'[x] : n < seq'[Peer(x)]
    <3>1. last'[x].sess = sess' /\ seq'[x] = last'[x].seq + 1
      BY <1>1, <1>2, <1>5, <1>9, <1>10 DEF Numbered
    <3>2. \A p \in Agent : seq[p] \in Nat /\ seq'[p] \in Nat /\ seq[p] <= seq'[p]
      BY <1>1, <1>4, <1>9, <1>10
    <3>3. Peer(x) \in Agent /\ seen'[x] \subseteq Nat
      BY <1>4, PeerIs
    <3> QED BY <1>5, <3>1, <3>2, <3>3
  <2> QED BY <2>1 DEF Numbered
<1>12. NoFuture'
  <2>1. ASSUME NEW x \in Agent, NEW k \in inbox'[x] PROVE k.env.sess <= sess'
    <3>1. CASE k \in boxes[x]
      BY <1>5, <1>6, <3>1 DEF NoFuture
    <3>2. CASE k \notin boxes[x]
      BY <1>2, <1>4, <1>8, <1>10, <3>2
    <3> QED BY <3>1, <3>2
  <2> QED BY <2>1 DEF NoFuture
<1>13. \A x \in Agent : last'[x].from = x
  BY <1>2, <1>5, <1>9, <1>10
<1>14. Expects(z)'
  <2>1. Taken(boxes, seen', z)
    BY <1>1 DEF boxes
  <2>2. last'[Peer(z)].seq = seq[y]
    BY <1>1, <1>2, <1>9
  <2>3. seq[y] \notin seen'[z]
    BY <1>1, <1>4, <1>5
  <2>4. ASSUME NEW k \in inbox'[z], k.env.sess = sess', k.env.seq \notin seen'[z]
        PROVE  k.env = last'[Peer(z)]
    BY <1>1, <1>8, <1>9, <2>1, <2>4 DEF Taken
  <2> QED BY <2>2, <2>3, <2>4 DEF Expects
<1>15. Quiet(y)'
  <2>1. Taken(boxes, seen', y)
    BY DEF boxes
  <2> QED BY <1>1, <1>8, <1>9, <2>1 DEF Quiet, Taken, z
<1> QED BY <1>2, <1>9, <1>11, <1>12, <1>13, <1>14, <1>15 DEF SentBy, z

LEMMA ChannelInit == Init => ChannelInv
BY DEF Init, ChannelInv, NoFuture, Agent

LEMMA ChannelBegin == TypeOK /\ ChannelInv /\ Begin => ChannelInv'
<1> SUFFICES ASSUME TypeOK, ChannelInv, Begin PROVE ChannelInv'
  OBVIOUS
<1>1. /\ sess \in Nat /\ sess' = sess + 1 /\ pc' = "intentA" /\ missed' = FALSE
      /\ seq' = [x \in Agent |-> 1] /\ seen' = [x \in Agent |-> {}]
      /\ last' = [x \in Agent |-> [sess |-> sess + 1, from |-> x, seq |-> 0,
                                   type |-> "INTENT_DECLARE"]]
  BY HandshakeAssumption DEF Begin, TypeOK
<1>2. \A x \in Agent : \A m \in inbox'[x] : m \in inbox[x] \/ m.env = last'[Peer(x)]
  BY DEF Begin
<1>3. NoFuture'
  <2>1. \A x \in Agent : \A m \in inbox[x] : m.env.sess <= sess /\ m.env.sess \in Nat
    BY DEF ChannelInv, NoFuture, TypeOK, Envelopes
  <2>2. ASSUME NEW x \in Agent, NEW m \in inbox'[x] PROVE m.env.sess <= sess'
    <3>1. CASE m \in inbox[x]
      BY <1>1, <2>1, <3>1
    <3>2. CASE m.env = last'[Peer(x)]
      BY <1>1, <3>2, PeerIs
    <3> QED BY <1>2, <3>1, <3>2
  <2> QED BY <2>2 DEF NoFuture
<1>4. \A x \in Agent : last'[x].from = x
  BY <1>1
<1>5. Numbered'
  BY <1>1, PeerIs DEF Numbered
<1>6. \A x \in Agent : Expects(x)'
  <2>1. ASSUME NEW x \in Agent PROVE last'[Peer(x)].seq \notin seen'[x]
    BY <1>1
  <2>2. ASSUME NEW x \in Agent, NEW m \in inbox'[x], m.env.sess = sess'
        PROVE  m.env = last'[Peer(x)]
    <3>1. m \notin inbox[x]
      BY <1>1, <2>2 DEF ChannelInv, NoFuture
    <3> QED BY <1>2, <2>2, <3>1
  <2> QED BY <2>1, <2>2 DEF Expects
<1>7. Waiter' = "a" /\ Awaited' = {"INTENT_DECLARE"} /\ "a" \in Agent /\ "b" \in Agent
  BY <1>1 DEF Waiter, Awaited, Agent
<1>8. last'[Peer(Waiter')].type \in Awaited' /\ last'["a"].type = "INTENT_DECLARE"
  BY <1>1, <1>7, PeerIs
<1> QED BY <1>1, <1>3, <1>4, <1>5, <1>6, <1>7, <1>8 DEF ChannelInv, Flow

LEMMA ChannelDiscard == TypeOK /\ ChannelInv /\ Discard => ChannelInv'
<1> SUFFICES ASSUME TypeOK, ChannelInv, Discard PROVE ChannelInv'
  OBVIOUS
<1>1. UNCHANGED <<sess, seq, seen, last, pc, cur, missed, outcome>>
  BY DEF Discard
<1>2. \A x \in Agent : inbox'[x] \subseteq inbox[x]
  BY DEF Discard, Without, TypeOK
<1>3. Waiter' = Waiter /\ Awaited' = Awaited
  BY <1>1 DEF Waiter, Awaited
<1>4. Waiter \in Agent /\ Peer(Waiter) \in Agent /\ "b" \in Agent
  BY WaiterIs, PeerIs DEF Agent
<1>5. NoFuture'
  BY <1>1, <1>2 DEF ChannelInv, NoFuture
<1>6. \A x \in Agent : (Expects(x) => Expects(x)') /\ (Quiet(x) => Quiet(x)')
  BY <1>1, <1>2 DEF Expects, Quiet, Taken
<1>7. Numbered => Numbered'
  BY <1>1 DEF Numbered
<1> QED BY <1>1, <1>3, <1>4, <1>5, <1>6, <1>7 DEF ChannelInv, Flow

LEMMA ChannelRetransmit == TypeOK /\ ChannelInv /\ Retransmit => ChannelInv'
<1> SUFFICES ASSUME TypeOK, ChannelInv, Retransmit PROVE ChannelInv'
  OBVIOUS
<1> DEFINE w == Waiter
           v == Peer(Waiter)
           e == last[Waiter]
<1>1. UNCHANGED <<sess, seq, seen, last, pc, cur, missed, outcome>> /\ outcome = "open"
  BY DEF Retransmit, Waiting
<1>2. w \in Agent /\ v \in Agent /\ v # w /\ Peer(v) = w /\ e.from = w /\ Flow
  BY <1>1, WaiterIs, PeerIs DEF ChannelInv
<1>3. Waiter' = Waiter /\ Awaited' = Awaited
  BY <1>1 DEF Waiter, Awaited
<1>4. inbox'[w] = inbox[w] /\ \A k \in inbox'[v] : k \in inbox[v] \/ k.env = e
  <2>1. DOMAIN inbox = Agent
    BY DEF TypeOK
  <2>2. \/ inbox' = inbox
        \/ \E d \in Delays : inbox' = [inbox EXCEPT ![v] = @ \cup {[at |-> now' + d, env |-> e]}]
    BY <1>2 DEF Retransmit, Post, Put, Repeated
  <2> HIDE DEF w, v, e
  <2>3. ASSUME NEW d \in Delays, inbox' = [inbox EXCEPT ![v] = @ \cup {[at |-> now' + d, env |-> e]}]
        PROVE  inbox'[w] = inbox[w] /\ \A k \in inbox'[v] : k \in inbox[v] \/ k.env = e
    BY <1>2, <2>1, <2>3
  <2> QED BY <2>2, <2>3
<1>5. \A x \in Agent : x = w \/ x = v
  BY <1>2 DEF Agent
<1>6. /\ Numbered /\ last[v].type \in Awaited /\ Expects(w)
      /\ pc # "idle" /\ (missed => pc = "intentB")
      /\ pc = "intentA" => last["a"].type = "INTENT_DECLARE" /\ Expects("b")
      /\ pc # "intentA" /\ ~missed => Quiet(v)
  BY <1>2 DEF Flow
<1> HIDE DEF v, e
<1>7. NoFuture'
  <2>1. NoFuture /\ e.sess = sess /\ sess \in Nat
    BY <1>2, <1>6, HandshakeAssumption DEF ChannelInv, Numbered, e, TypeOK
  <2> QED BY <1>1, <1>4, <1>5, <2>1 DEF NoFuture
<1>8. Numbered' /\ \A x \in Agent : last'[x].from = x
  BY <1>1, <1>6 DEF Numbered, ChannelInv
<1>9. Expects(w)'
  BY <1>1, <1>4, <1>6, <1>3 DEF Expects
<1>10. pc = "intentA" => Expects("b")'
  <2>1. SUFFICES ASSUME pc = "intentA" PROVE Expects("b")'
    OBVIOUS
  <2>2. w = "a" /\ v = "b" /\ Peer("b") = "a"
    BY <2>1 DEF Waiter, v, Peer
  <2>3. e = last[Peer("b")]
    BY <2>2 DEF e
  <2> QED BY <1>1, <1>4, <1>6, <2>1, <2>2, <2>3 DEF Expects
<1>11. pc # "intentA" /\ ~missed => Quiet(v)'
  <2>1. SUFFICES ASSUME Quiet(v) PROVE Quiet(v)'
    BY <1>6
  <2>2. e.seq \in seen[v]
    BY <1>2, <2>1 DEF Quiet, Taken, e
  <2>3. v' = v
    BY <1>3 DEF v
  <2> QED BY <1>1, <1>4, <2>1, <2>2, <2>3 DEF Quiet, Taken
<1> QED BY <1>1, <1>3, <1>6, <1>7, <1>8, <1>9, <1>10, <1>11 DEF ChannelInv, Flow, v

LEMMA ChannelGiveUp == TypeOK /\ ChannelInv /\ GiveUp => ChannelInv'
<1> SUFFICES ASSUME TypeOK, ChannelInv, GiveUp PROVE ChannelInv'
  OBVIOUS
<1>1. UNCHANGED <<inbox, sess, seq, seen, last, cur>> /\ outcome = "open" /\ Flow
  BY DEF GiveUp, ChannelInv
<1>2. NoFuture' /\ Numbered' /\ \A x \in Agent : last'[x].from = x
  BY <1>1 DEF ChannelInv, NoFuture, Flow, Numbered
<1>3. CASE outcome' = "TIMEOUT"
  BY <1>2, <1>3 DEF ChannelInv
<1>4. CASE outcome' # "TIMEOUT"
  <2>1. pc = "intentA" /\ pc' = "intentB" /\ missed' = TRUE /\ UNCHANGED outcome
    BY <1>4 DEF GiveUp, AbortOnSilence
  <2>2. Waiter' = "b" /\ Awaited' = {"INTENT_DECLARE"} /\ Peer("b") = "a"
    BY <2>1 DEF Waiter, Awaited, Peer
  <2>3. last["a"].type = "INTENT_DECLARE" /\ Expects("b")
    BY <1>1, <2>1 DEF Flow
  <2>4. Expects("b")'
    BY <1>1, <2>3 DEF Expects
  <2> QED BY <1>1, <1>2, <2>1, <2>2, <2>3, <2>4 DEF ChannelInv, Flow
<1> QED BY <1>3, <1>4

LEMMA SentFlows ==
    ASSUME NEW y \in Agent, NEW type, SentBy(y, type), Waiter' = Peer(y), type \in Awaited',
           pc' \notin {"idle", "intentA"}, missed' = FALSE
    PROVE  ChannelInv'
<1>1. Peer(Waiter') = y
  BY PeerIs
<1>2. Expects(Waiter)' /\ Quiet(Peer(Waiter))'
  BY <1>1 DEF SentBy
<1> QED BY <1>1, <1>2 DEF SentBy, ChannelInv, Flow

\* A session that ends leaves nothing to be asked of its channel.
LEMMA ChannelEnds ==
    ASSUME TypeOK, ChannelInv, NEW m, inbox' = Without(m), outcome' # "open",
           UNCHANGED <<sess, last>>
    PROVE  ChannelInv'
<1>1. \A x \in Agent : inbox'[x] \subseteq inbox[x]
  BY DEF Without, TypeOK
<1> QED BY <1>1 DEF ChannelInv, NoFuture

LEMMA ChannelIntentOfB == TypeOK /\ ChannelInv /\ IntentOfB => ChannelInv'
<1> SUFFICES ASSUME TypeOK, ChannelInv, IntentOfB PROVE ChannelInv'
  OBVIOUS
<1>1. PICK m \in inbox["a"] : Receive(m) /\ inbox' = Without(m)
  BY DEF IntentOfB
<1>2. /\ pc = "intentA" /\ pc' = "intentB" /\ outcome = "open"
      /\ UNCHANGED <<sess, last, seq, cur, missed, outcome>>
  BY DEF IntentOfB, channel, Receive, Waiting
<1>3. Flow /\ missed = FALSE
  BY <1>2 DEF ChannelInv, Flow, TypeOK
<1>4. Waiter = "a" /\ Waiter' = "b" /\ Peer("b") = "a" /\ Peer("a") = "b" /\ "a" \in Agent
      /\ Awaited = Awaited' /\ "b" \in Agent
  BY <1>2 DEF Waiter, Peer, Agent, Awaited
<1>5. \A x \in Agent : inbox'[x] \subseteq inbox[x]
  BY <1>1 DEF Without, TypeOK
<1>6. NoFuture'
  BY <1>2, <1>5 DEF ChannelInv, NoFuture
<1>7. Numbered'
  BY <1>1, <1>2, <1>3, ReceiveTakes DEF Flow, Numbered
<1>8. Quiet("a")'
  BY <1>1, <1>2, <1>4, ReceiveTakes DEF Quiet, Taken
<1>9. Expects("b")'
  <2>1. Expects("b") /\ seen' = [seen EXCEPT !["a"] = @ \cup {m.env.seq}]
    BY <1>1, <1>2, <1>3, <1>4 DEF Flow, Receive
  <2>2. seen'["b"] = seen["b"]
    BY <1>4, <2>1 DEF TypeOK
  <2> QED BY <1>2, <1>4, <1>5, <2>1, <2>2 DEF Expects
<1>10. last'["a"].type \in Awaited'
  BY <1>2, <1>3, <1>4 DEF Flow, Awaited
<1> QED BY <1>2, <1>3, <1>4, <1>6, <1>7, <1>8, <1>9, <1>10 DEF ChannelInv, Flow

\* A step that takes an envelope once the intents are through.
LEMMA TakenByBoth ==
    ASSUME TypeOK, ChannelInv, NEW m, Receive(m), pc # "intentA", ~missed
    PROVE  /\ outcome = "open"
           /\ \A x \in Agent : Taken(Without(m), seen', x)
<1>1. outcome = "open" /\ Flow
  BY DEF Receive, Waiting, ChannelInv
<1>2. Taken(Without(m), seen', Waiter) /\ Taken(Without(m), seen', Peer(Waiter))
  BY <1>1, ReceiveTakes DEF Flow
<1>3. \A x \in Agent : x = Waiter \/ x = Peer(Waiter)
  BY WaiterIs DEF Agent, Peer
<1> QED BY <1>1, <1>2, <1>3

LEMMA ChannelIntentOfA == TypeOK /\ ChannelInv /\ IntentOfA => ChannelInv'
<1> SUFFICES ASSUME TypeOK, ChannelInv, IntentOfA PROVE ChannelInv'
  OBVIOUS
<1>1. PICK m \in inbox["b"] :
           /\ pc = "intentB" /\ Receive(m)
           /\ \/ missed /\ Refuse(m, "TIMEOUT")
              \/ ~missed /\ profile.flaw # "none" /\ Abort(m, profile.flaw)
              \/ ~missed /\ profile.flaw = "none" /\ F = {} /\ Refuse(m, "EMPTY_FEASIBLE")
              \/ ~missed /\ profile.flaw = "none" /\ F # {} /\ Propose(m)
           /\ UNCHANGED <<sess, profile, deadline, missed, agreed, signed>>
  BY DEF IntentOfA
<1>2. CASE Refuse(m, "TIMEOUT") \/ Refuse(m, "EMPTY_FEASIBLE")
  BY <1>1, <1>2, ChannelEnds DEF Refuse, channel
<1>3. CASE ~missed /\ profile.flaw # "none" /\ Abort(m, profile.flaw)
  <2>1. outcome = "open" /\ \A x \in Agent : Taken(Without(m), seen', x)
    BY <1>1, <1>3, TakenByBoth
  <2>2. Send(Without(m), "a", "ABORT", now') /\ outcome' = profile.flaw /\ profile.flaw # "open"
    BY <1>3, ConstraintsTypes DEF Abort, Flaws
  <2>3. "a" \in Agent /\ "ABORT" \in Types /\ sess' = sess
    BY <1>1 DEF Agent, Types
  <2>4. SentBy("a", "ABORT")
    BY <1>1, <2>1, <2>2, <2>3, SendAwaits
  <2> QED BY <2>2, <2>4 DEF SentBy, ChannelInv
<1>4. CASE ~missed /\ Propose(m)
  <2>1. outcome = "open" /\ \A x \in Agent : Taken(Without(m), seen', x)
    BY <1>1, <1>4, TakenByBoth
  <2>2. PICK p \in Agent : Send(Without(m), p, "PROPOSE", now') /\ cur' = Peer(p)
    BY <1>4 DEF Propose
  <2>3. "PROPOSE" \in Types /\ sess' = sess
    BY <1>1 DEF Types
  <2>4. SentBy(p, "PROPOSE")
    BY <1>1, <2>1, <2>2, <2>3, SendAwaits
  <2>5. pc' = "offer" /\ missed' = FALSE
    BY <1>1, <1>4 DEF Propose, TypeOK
  <2>6. Waiter' = Peer(p) /\ "PROPOSE" \in Awaited'
    BY <2>2, <2>5 DEF Waiter, Awaited
  <2> QED BY <2>4, <2>5, <2>6, SentFlows
<1> QED BY <1>1, <1>2, <1>3, <1>4

LEMMA ChannelOffers == TypeOK /\ ChannelInv /\ (Counter \/ Answer) => ChannelInv'
<1> SUFFICES ASSUME TypeOK, ChannelInv, Counter \/ Answer PROVE ChannelInv'
  OBVIOUS
<1>1. PICK type \in {"COUNTER", "ACCEPT"} :
         /\ type = "COUNTER" => pc' = "offer" /\ cur' = Peer(cur)
         /\ type = "ACCEPT"  => pc' = "answer" /\ cur' = cur
         /\ pc = "offer" /\ UNCHANGED <<sess, missed>>
         /\ \E m \in inbox[cur] : Receive(m) /\ Send(Without(m), cur, type, now')
  <2>1. CASE Counter
    BY <2>1 DEF Counter
  <2>2. CASE Answer
    BY <2>2 DEF Answer
  <2> QED BY <2>1, <2>2
<1>2. PICK m \in inbox[cur] : Receive(m) /\ Send(Without(m), cur, type, now')
  BY <1>1
<1>3. missed = FALSE
  BY <1>1, <1>2 DEF ChannelInv, Flow, TypeOK, Receive, Waiting
<1>4. outcome = "open" /\ \A x \in Agent : Taken(Without(m), seen', x)
  BY <1>1, <1>2, <1>3, TakenByBoth
<1>5. cur \in Agent /\ type \in Types
  BY DEF TypeOK, Types
<1>6. SentBy(cur, type)
  BY <1>1, <1>2, <1>4, <1>5, SendAwaits
<1>7. Waiter' = Peer(cur) /\ type \in Awaited' /\ pc' \notin {"idle", "intentA"} /\ missed' = FALSE
  BY <1>1, <1>3 DEF Waiter, Awaited
<1> QED BY <1>5, <1>6, <1>7, SentFlows

LEMMA ChannelAnswered == TypeOK /\ ChannelInv /\ Answered => ChannelInv'
<1> SUFFICES ASSUME TypeOK, ChannelInv, Answered PROVE ChannelInv'
  OBVIOUS
<1>1. PICK m \in inbox[Peer(cur)] :
         /\ pc = "answer" /\ Receive(m) /\ UNCHANGED <<sess, cur, missed>>
         /\ \/ Send(Without(m), cur, "COMMIT", now') /\ pc' = "commit" /\ UNCHANGED outcome
            \/ outcome' = "POLICY_VIOLATION" /\ inbox' = Without(m) /\ UNCHANGED last
  BY DEF Answered, channel
<1>2. missed = FALSE
  BY <1>1 DEF ChannelInv, Flow, TypeOK, Receive, Waiting
<1>3. outcome = "open" /\ \A x \in Agent : Taken(Without(m), seen', x)
  BY <1>1, <1>2, TakenByBoth
<1>4. CASE Send(Without(m), cur, "COMMIT", now') /\ pc' = "commit" /\ UNCHANGED outcome
  <2>1. cur \in Agent /\ "COMMIT" \in Types
    BY DEF TypeOK, Types
  <2>2. SentBy(cur, "COMMIT")
    BY <1>1, <1>3, <1>4, <2>1, SendAwaits
  <2>3. Waiter' = Peer(cur) /\ "COMMIT" \in Awaited'
    BY <1>1, <1>4 DEF Waiter, Awaited
  <2> QED BY <1>1, <1>2, <1>4, <2>1, <2>2, <2>3, SentFlows
<1>5. CASE outcome' = "POLICY_VIOLATION" /\ inbox' = Without(m) /\ UNCHANGED last
  BY <1>1, <1>5, ChannelEnds
<1> QED BY <1>1, <1>4, <1>5

LEMMA ChannelCommitted == TypeOK /\ ChannelInv /\ Committed => ChannelInv'
<1> SUFFICES ASSUME TypeOK, ChannelInv, Committed PROVE ChannelInv'
  OBVIOUS
<1>1. PICK m \in inbox[Peer(cur)] :
         /\ pc = "commit" /\ Receive(m) /\ UNCHANGED <<sess, cur, missed>>
         /\ Send(Without(m), Peer(cur), "COMMIT_ACK", now') /\ pc' = "ack"
  BY DEF Committed
<1>2. missed = FALSE
  BY <1>1 DEF ChannelInv, Flow, TypeOK, Receive, Waiting
<1>3. outcome = "open" /\ \A x \in Agent : Taken(Without(m), seen', x)
  BY <1>1, <1>2, TakenByBoth
<1>4. cur \in Agent /\ Peer(cur) \in Agent /\ Peer(Peer(cur)) = cur /\ "COMMIT_ACK" \in Types
  BY PeerIs DEF TypeOK, Types
<1>5. SentBy(Peer(cur), "COMMIT_ACK")
  BY <1>1, <1>3, <1>4, SendAwaits
<1>6. Waiter' = Peer(Peer(cur)) /\ "COMMIT_ACK" \in Awaited'
  BY <1>1, <1>4 DEF Waiter, Awaited
<1> QED BY <1>1, <1>2, <1>4, <1>5, <1>6, SentFlows

LEMMA ChannelAcknowledged == TypeOK /\ ChannelInv /\ Acknowledged => ChannelInv'
BY ChannelEnds DEF Acknowledged, channel

LEMMA ChannelStutter == TypeOK /\ ChannelInv /\ UNCHANGED vars => ChannelInv'
BY DEF vars, ChannelInv, NoFuture, Flow, Numbered, Expects, Quiet, Taken, Waiter, Awaited

LEMMA ChannelStep == TypeOK /\ ChannelInv /\ [Next]_vars => ChannelInv'
BY ChannelBegin, ChannelDiscard, ChannelRetransmit, ChannelGiveUp, ChannelIntentOfB,
   ChannelIntentOfA, ChannelOffers, ChannelAnswered, ChannelCommitted, ChannelAcknowledged,
   ChannelStutter DEF Next

LEMMA ChannelHolds == Spec => []ChannelInv
<1> QED BY TypeCorrect, ChannelInit, ChannelStep, PTL DEF Spec

\* recv checks no message type, and need not: nothing but the awaited message
\* passes the session check and the replay guard.
THEOREM OnlyTheAwaitedCounts == Spec => []NothingElseCounts
<1>1. TypeOK /\ ChannelInv => NothingElseCounts
  BY WaiterIs DEF ChannelInv, Flow, Expects, NothingElseCounts
<1> QED BY <1>1, TypeCorrect, ChannelHolds, PTL

-----------------------------------------------------------------------------
(* What has been agreed and signed, wait by wait, and what an outcome says *)

Sealed == agreed \in F /\ Enforced(agreed)

ResultInv ==
    /\ outcome = "none" => agreed = NoPoint /\ signed = {}
    /\ outcome = "open" =>
          /\ pc \in {"intentA", "intentB", "offer"} => agreed = NoPoint /\ signed = {}
          /\ pc = "answer" => agreed \in F /\ signed = {}
          /\ pc = "commit" => Sealed /\ signed = {cur}
          /\ pc = "ack" => Sealed /\ signed = Agent
    /\ outcome = "contract" => Sealed /\ signed = Agent
    /\ outcome = "EMPTY_FEASIBLE" => F = {}
    /\ outcome = "POLICY_VIOLATION" /\ profile.flaw = "none" => agreed \in F /\ ~Enforced(agreed)

\* The region is that of the two agents.
LEMMA SameRegion ==
    UNCHANGED profile => /\ F' = F
                         /\ UNCHANGED agreed => (Enforced(agreed)' <=> Enforced(agreed))
BY DEF F, Constraints, Enforced

LEMMA ResultInit == Init => ResultInv
BY DEF Init, ResultInv

LEMMA ResultWaits ==
    TypeOK /\ ResultInv /\ (Discard \/ Retransmit \/ GiveUp \/ UNCHANGED vars) => ResultInv'
<1> SUFFICES ASSUME TypeOK, ResultInv, Discard \/ Retransmit \/ GiveUp \/ UNCHANGED vars
             PROVE  ResultInv'
  OBVIOUS
<1>1. UNCHANGED <<profile, agreed, signed, cur>>
  BY DEF Discard, Retransmit, GiveUp, vars
<1>2. F' = F /\ (Enforced(agreed)' <=> Enforced(agreed)) /\ (Sealed' <=> Sealed)
  BY <1>1, SameRegion DEF Sealed
<1>3. \/ UNCHANGED <<pc, outcome>>
      \/ pc = "intentA" /\ pc' = "intentB" /\ UNCHANGED outcome
      \/ outcome' = "TIMEOUT"
  BY DEF Discard, Retransmit, GiveUp, AbortOnSilence, vars
<1> QED BY <1>1, <1>2, <1>3 DEF ResultInv

LEMMA ResultBegin == Begin => ResultInv'
BY DEF Begin, ResultInv

LEMMA ResultIntents ==
    TypeOK /\ ResultInv /\ (IntentOfB \/ IntentOfA \/ Counter) => ResultInv'
<1> SUFFICES ASSUME TypeOK, ResultInv PROVE (IntentOfB \/ IntentOfA \/ Counter) => ResultInv'
  OBVIOUS
<1>1. ASSUME IntentOfB PROVE ResultInv'
  BY <1>1 DEF IntentOfB, ResultInv, Receive, Waiting
<1>2. ASSUME IntentOfA PROVE ResultInv'
  <2>1. /\ pc = "intentB" /\ outcome = "open" /\ UNCHANGED <<profile, agreed, signed>>
        /\ \/ outcome' = "TIMEOUT"
           \/ outcome' = profile.flaw /\ profile.flaw # "none"
           \/ outcome' = "EMPTY_FEASIBLE" /\ F = {}
           \/ outcome' = "open" /\ pc' = "offer"
    BY <1>2 DEF IntentOfA, Receive, Waiting, Refuse, Abort, Propose
  <2>2. F' = F /\ profile.flaw \in {"none", "POLICY_VIOLATION", "SCHEMA_MISMATCH"}
    BY <2>1, SameRegion, ConstraintsTypes DEF Flaws
  <2> QED BY <2>1, <2>2 DEF ResultInv
<1>3. ASSUME Counter PROVE ResultInv'
  BY <1>3 DEF Counter, ResultInv, Receive, Waiting
<1> QED BY <1>1, <1>2, <1>3

LEMMA ResultAgrees ==
    TypeOK /\ ResultInv /\ (Answer \/ Answered \/ Committed \/ Acknowledged) => ResultInv'
<1> SUFFICES ASSUME TypeOK, ResultInv
             PROVE  (Answer \/ Answered \/ Committed \/ Acknowledged) => ResultInv'
  OBVIOUS
<1>1. ASSUME Answer PROVE ResultInv'
  <2>1. /\ pc = "offer" /\ pc' = "answer" /\ outcome = "open" /\ agreed' \in F
        /\ UNCHANGED <<profile, signed, outcome>>
    BY <1>1 DEF Answer, Receive, Waiting
  <2> QED BY <2>1, SameRegion DEF ResultInv
<1>2. ASSUME Answered PROVE ResultInv'
  <2>1. /\ pc = "answer" /\ outcome = "open" /\ UNCHANGED <<profile, agreed, cur>>
        /\ \/ Enforced(agreed) /\ signed' = {cur} /\ pc' = "commit" /\ UNCHANGED outcome
           \/ ~Enforced(agreed) /\ outcome' = "POLICY_VIOLATION"
    BY <1>2 DEF Answered, Receive, Waiting
  <2>2. F' = F /\ (Enforced(agreed)' <=> Enforced(agreed))
    BY <2>1, SameRegion
  <2> QED BY <2>1, <2>2 DEF ResultInv, Sealed
<1>3. ASSUME Committed PROVE ResultInv'
  <2>1. /\ pc = "commit" /\ outcome = "open" /\ UNCHANGED <<profile, agreed, cur, outcome>>
        /\ signed' = signed \cup {Peer(cur)} /\ pc' = "ack"
    BY <1>3 DEF Committed, Receive, Waiting
  <2>2. Sealed' <=> Sealed
    BY <2>1, SameRegion DEF Sealed
  <2>3. {cur} \cup {Peer(cur)} = Agent
    BY DEF TypeOK, Agent, Peer
  <2> QED BY <2>1, <2>2, <2>3 DEF ResultInv
<1>4. ASSUME Acknowledged PROVE ResultInv'
  <2>1. /\ pc = "ack" /\ outcome = "open" /\ UNCHANGED <<profile, agreed, signed>>
        /\ outcome' = "contract"
    BY <1>4 DEF Acknowledged, Receive, Waiting
  <2>2. Sealed' <=> Sealed
    BY <2>1, SameRegion DEF Sealed
  <2> QED BY <2>1, <2>2 DEF ResultInv
<1> QED BY <1>1, <1>2, <1>3, <1>4

LEMMA ResultHolds == Spec => []ResultInv
<1>1. TypeOK /\ ResultInv /\ [Next]_vars => ResultInv'
  BY ResultWaits, ResultBegin, ResultIntents, ResultAgrees DEF Next
<1> QED BY <1>1, TypeCorrect, ResultInit, PTL DEF Spec

-----------------------------------------------------------------------------
(* What the outcomes mean *)

LEMMA BothRegions ==
    ASSUME TypeOK
    PROVE  \A d \in Dim :
              Box(Constraints, DOMAIN Constraints)[d]
                = Box(profile.a, DOMAIN profile.a)[d] \cap Box(profile.b, DOMAIN profile.b)[d]
<1>1. ConstraintList(profile.a) /\ ConstraintList(profile.b)
  BY ConstraintsTypes
<1> DEFINE h == profile.a
           g == profile.b
<1>2. ConstraintList(h) /\ ConstraintList(g) /\ Constraints = h \o g
  BY <1>1 DEF Constraints
<1> HIDE DEF h, g
<1>3. \A d \in Dim : Box(h \o g, DOMAIN (h \o g))[d] = Box(h, DOMAIN h)[d] \cap Box(g, DOMAIN g)[d]
  BY <1>2, BoxOfBoth
<1> QED BY <1>2, <1>3 DEF h, g

\* A point both sides' own constraints admit is in the region before anything
\* is relaxed.
LEMMA EnforcedIsUnrelaxed ==
    ASSUME TypeOK, NEW p, Enforced(p)
    PROVE  \A d \in Dim : p[d] \in Box(Constraints, DOMAIN Constraints)[d]
<1>1. \A d \in Dim : /\ p[d] \in Box(profile.a, DOMAIN profile.a)[d]
                     /\ p[d] \in Box(profile.b, DOMAIN profile.b)[d]
  BY DEF Enforced, HardOK
<1> QED BY <1>1, BothRegions

LEMMA UnrelaxedIsEnforced ==
    ASSUME TypeOK, NEW p, \A d \in Dim : p[d] \in Box(Constraints, DOMAIN Constraints)[d]
    PROVE  Enforced(p)
<1>1. \A d \in Dim : /\ p[d] \in Box(profile.a, DOMAIN profile.a)[d]
                     /\ p[d] \in Box(profile.b, DOMAIN profile.b)[d]
  BY BothRegions
<1> QED BY <1>1 DEF Enforced, HardOK

\* A relaxed negotiation never becomes a contract.
THEOREM RelaxationNeverSettles == Spec => []RelaxedNeverSettles
<1>1. TypeOK /\ ResultInv => RelaxedNeverSettles
  <2>1. SUFFICES ASSUME TypeOK, ResultInv, outcome = "contract" PROVE ~Relaxed(Constraints)
    BY DEF RelaxedNeverSettles
  <2>2. \A d \in Dim : agreed[d] \in Box(Constraints, DOMAIN Constraints)[d]
    BY <2>1, EnforcedIsUnrelaxed DEF ResultInv, Sealed
  <2> QED BY <2>1, <2>2, ConstraintsTypes, NothingRelaxed
<1> QED BY <1>1, TypeCorrect, ResultHolds, PTL

\* Whatever the domains, constraints and physics, a refusal is right: the grid
\* overlooks no point that both sides and physics admit.
THEOREM RefusalsAreJustified == Spec => []JustifiedRefusal
<1>1. TypeOK /\ ResultInv => JustifiedRefusal
  <2>1. SUFFICES ASSUME TypeOK, ResultInv,
                        \/ outcome = "EMPTY_FEASIBLE"
                        \/ outcome = "POLICY_VIOLATION" /\ profile.flaw = "none",
                        NEW p \in Point, Realizable(p)
                 PROVE  FALSE
    BY DEF JustifiedRefusal
  <2>2. /\ ConstraintList(Constraints)
        /\ \A d \in Dim : p[d] \in Box(Constraints, DOMAIN Constraints)[d]
    BY <2>1, ConstraintsTypes, EnforcedIsUnrelaxed DEF Realizable, Enforced
  <2>3. F # {}
    BY <2>1, <2>2, GridMissesNothing DEF F, Realizable
  <2>4. outcome = "POLICY_VIOLATION" /\ agreed \in F /\ ~Enforced(agreed)
    BY <2>1, <2>3 DEF ResultInv
  <2>5. FeasibleBox(Constraints) = Box(Constraints, DOMAIN Constraints)
    BY <2>2, NothingRelaxed
  <2>6. \A d \in Dim : agreed[d] \in Box(Constraints, DOMAIN Constraints)[d]
    BY <2>2, <2>4, <2>5, GridIsInBox DEF F
  <2> QED BY <2>1, <2>4, <2>6, UnrelaxedIsEnforced
<1> QED BY <1>1, TypeCorrect, ResultHolds, PTL

\* A contract is a point of the registered domains that physics and both sides'
\* own constraints admit, and both sides have signed it.
ContractIsHonoured ==
    outcome = "contract" => agreed \in Point /\ Realizable(agreed) /\ signed = Agent

\* Whatever is lost, delayed or relaxed on the way, a contract is one that both
\* sides can honour: the converse of JustifiedRefusal.
THEOREM ContractsAreHonoured == Spec => []ContractIsHonoured
<1>1. TypeOK /\ ResultInv => ContractIsHonoured
  <2>1. SUFFICES ASSUME TypeOK, ResultInv, outcome = "contract"
                 PROVE  agreed \in Point /\ Realizable(agreed) /\ signed = Agent
    BY DEF ContractIsHonoured
  <2>2. agreed \in F /\ Enforced(agreed) /\ signed = Agent
    BY <2>1 DEF ResultInv, Sealed
  <2>3. CouplingOK(agreed) /\ agreed \in Point
    BY <2>1, <2>2, ConstraintsTypes, GridIsInBox DEF F
  <2> QED BY <2>2, <2>3 DEF Enforced, Realizable
<1> QED BY <1>1, TypeCorrect, ResultHolds, PTL

\* A session is an agreement in the sense of Agreement: no signature without a
\* point, no contract without both signatures, no contract after an abort.
THEOREM SessionsAreAgreements == Spec => IsAgreement
<1>1. Init => A!Init
  BY DEF Init, A!Init, Result
<1>2. TypeOK /\ ChannelInv /\ ResultInv /\ [Next]_vars
         => [A!Next]_<<Result, agreed, signed>>
  <2>1. SUFFICES ASSUME TypeOK, ChannelInv, ResultInv, [Next]_vars
                 PROVE  A!Next \/ UNCHANGED <<Result, agreed, signed>>
    OBVIOUS
  <2>2. ASSUME Begin PROVE A!Begin
    BY <2>2 DEF Begin, A!Begin, Result
  <2>3. ASSUME Discard \/ Retransmit \/ IntentOfB \/ Counter \/ UNCHANGED vars
        PROVE  UNCHANGED <<Result, agreed, signed>>
    BY <2>3 DEF Discard, Retransmit, IntentOfB, Counter, vars, Result
  <2>4. ASSUME GiveUp PROVE A!Abandon \/ UNCHANGED <<Result, agreed, signed>>
    BY <2>4 DEF GiveUp, AbortOnSilence, A!Abandon, Result
  <2>5. ASSUME IntentOfA PROVE A!Abandon \/ UNCHANGED <<Result, agreed, signed>>
    <3>1. /\ outcome = "open" /\ UNCHANGED <<agreed, signed>>
          /\ outcome' \in {"TIMEOUT", "EMPTY_FEASIBLE", "open", profile.flaw}
      BY <2>5 DEF IntentOfA, Refuse, Abort, Propose, Receive, Waiting
    <3>2. profile.flaw # "contract" /\ profile.flaw # "open"
      BY <2>1, ConstraintsTypes DEF Flaws
    <3> QED BY <3>1, <3>2 DEF A!Abandon, Result
  <2>6. ASSUME Answer PROVE A!Agree
    <3>1. /\ pc = "offer" /\ outcome = "open" /\ agreed' \in F /\ UNCHANGED <<signed, outcome>>
      BY <2>6 DEF Answer, Receive, Waiting
    <3>2. agreed = NoPoint /\ agreed' # NoPoint
      BY <2>1, <3>1, GridTypes DEF ResultInv
    <3> QED BY <3>1, <3>2 DEF A!Agree, Result
  <2>7. ASSUME Answered PROVE A!Sign \/ A!Abandon
    <3>1. /\ pc = "answer" /\ outcome = "open" /\ UNCHANGED agreed
          /\ \/ signed' = {cur} /\ UNCHANGED outcome
             \/ outcome' = "POLICY_VIOLATION" /\ UNCHANGED signed
      BY <2>7 DEF Answered, Receive, Waiting
    <3>2. agreed \in F /\ agreed # NoPoint /\ signed = {} /\ cur \in Agent
      BY <2>1, <3>1, GridTypes DEF ResultInv, TypeOK
    <3>3. CASE signed' = {cur} /\ UNCHANGED outcome
      BY <3>1, <3>2, <3>3 DEF A!Sign, Result
    <3>4. CASE outcome' = "POLICY_VIOLATION" /\ UNCHANGED signed
      BY <3>1, <3>4 DEF A!Abandon, Result
    <3> QED BY <3>1, <3>3, <3>4
  <2>8. ASSUME Committed PROVE A!Sign
    <3>1. /\ pc = "commit" /\ outcome = "open" /\ signed' = signed \cup {Peer(cur)}
          /\ UNCHANGED <<agreed, outcome>>
      BY <2>8 DEF Committed, Receive, Waiting
    <3>2. agreed \in F /\ agreed # NoPoint /\ signed = {cur} /\ Peer(cur) \in Agent \ signed
      BY <2>1, <3>1, GridTypes, PeerIs DEF ResultInv, Sealed, TypeOK
    <3> QED BY <3>1, <3>2 DEF A!Sign, Result
  <2>9. ASSUME Acknowledged PROVE A!Bind
    <3>1. /\ pc = "ack" /\ outcome = "open" /\ outcome' = "contract"
          /\ UNCHANGED <<agreed, signed>>
      BY <2>9 DEF Acknowledged, Receive, Waiting
    <3>2. signed = Agent
      BY <2>1, <3>1 DEF ResultInv
    <3> QED BY <3>1, <3>2 DEF A!Bind, Result
  <2> QED BY <2>1, <2>2, <2>3, <2>4, <2>5, <2>6, <2>7, <2>8, <2>9 DEF Next, A!Next
<1> QED BY <1>1, <1>2, TypeCorrect, ChannelHolds, ResultHolds, PTL DEF Spec, IsAgreement, A!Spec

-----------------------------------------------------------------------------
(* Loss.  Once an envelope other than an intent is lost, nothing that the   *)
(* waiter has not taken is on its way to it, and nothing will be.           *)

Stranded == /\ pc \notin {"intentA", "intentB"}
            /\ \A m \in inbox[Waiter] : m.env.sess = sess => m.env.seq \in seen[Waiter]

LossInv == /\ outcome = "open" /\ ~(lost \subseteq {"INTENT_DECLARE"}) => Stranded
           /\ outcome = "contract" => lost \subseteq {"INTENT_DECLARE"}

\* Whatever is received, nothing but intents was lost before.
LEMMA ReceivedUnlost ==
    ASSUME LossInv, NEW m, Receive(m)
    PROVE  outcome = "open" /\ lost \subseteq {"INTENT_DECLARE"}
BY DEF LossInv, Stranded, Receive, Earliest, Fresh, Waiting

\* An envelope that is lost when first sent leaves its receiver stranded.
LEMMA SendLoses ==
    ASSUME TypeOK, LossInv, NEW m, Receive(m), NEW y \in Agent, NEW type,
           \A x \in Agent : Taken(Without(m), seen', x),
           Send(Without(m), y, type, now'), sess' = sess,
           Waiter' = Peer(y), pc' \notin {"intentA", "intentB"}, outcome' # "contract"
    PROVE  LossInv'
<1>1. CASE UNCHANGED lost
  BY <1>1, ReceivedUnlost DEF LossInv
<1>2. CASE inbox' = Without(m)
  <2>1. Taken(Without(m), seen', Peer(y))
    BY PeerIs
  <2> QED BY <1>2, <2>1 DEF LossInv, Stranded, Taken
<1> QED BY <1>1, <1>2 DEF Send

LEMMA LossInit == Init => LossInv
BY DEF Init, LossInv

LEMMA LossWaits ==
    TypeOK /\ ChannelInv /\ LossInv /\ (Discard \/ Retransmit \/ GiveUp \/ UNCHANGED vars)
        => LossInv'
<1> SUFFICES ASSUME TypeOK, ChannelInv, LossInv
             PROVE  (Discard \/ Retransmit \/ GiveUp \/ UNCHANGED vars) => LossInv'
  OBVIOUS
<1>1. ASSUME Discard PROVE LossInv'
  <2>1. UNCHANGED <<sess, seen, pc, cur, outcome, lost>> /\ Waiter' = Waiter
    BY <1>1 DEF Discard, Waiter
  <2>2. inbox'[Waiter] \subseteq inbox[Waiter]
    BY <1>1, WaiterIs DEF Discard, Without, TypeOK
  <2> QED BY <2>1, <2>2 DEF LossInv, Stranded
<1>2. ASSUME Retransmit PROVE LossInv'
  <2>1. UNCHANGED <<sess, seen, pc, cur, outcome, lost>> /\ Waiter' = Waiter
    BY <1>2 DEF Retransmit, Waiter
  <2>2. inbox'[Waiter] = inbox[Waiter]
    <3>1. Waiter \in Agent /\ Peer(Waiter) # Waiter /\ last[Waiter].from = Waiter
      BY WaiterIs, PeerIs DEF ChannelInv
    <3>2. \/ inbox' = inbox
          \/ \E d \in Delays : inbox' = [inbox EXCEPT ![Peer(Waiter)]
                                            = @ \cup {[at |-> now' + d, env |-> last[Waiter]]}]
      BY <1>2, <3>1 DEF Retransmit, Post, Put, Repeated
    <3> QED BY <3>1, <3>2 DEF TypeOK
  <2> QED BY <2>1, <2>2 DEF LossInv, Stranded
<1>3. ASSUME GiveUp PROVE LossInv'
  <2>1. UNCHANGED lost /\ outcome = "open" /\ (pc = "intentA" \/ outcome' = "TIMEOUT")
    BY <1>3 DEF GiveUp, AbortOnSilence
  <2> QED BY <2>1 DEF LossInv, Stranded
<1>4. ASSUME UNCHANGED vars PROVE LossInv'
  BY <1>4 DEF vars, LossInv, Stranded, Waiter
<1> QED BY <1>1, <1>2, <1>3, <1>4

LEMMA LossBegin == Begin => LossInv'
BY DEF Begin, LossInv

LEMMA LossSession ==
    ASSUME TypeOK, ChannelInv, LossInv,
           IntentOfB \/ IntentOfA \/ Counter \/ Answer \/ Answered \/ Committed \/ Acknowledged
    PROVE  LossInv'
<1>0. cur \in Agent /\ Peer(cur) \in Agent /\ Peer(Peer(cur)) = cur
  BY PeerIs DEF TypeOK
<1>1. ASSUME NEW m, Receive(m), UNCHANGED lost PROVE LossInv'
  BY <1>1, ReceivedUnlost DEF LossInv
<1>2. ASSUME NEW m, Receive(m), pc # "intentA", ~missed, sess' = sess, outcome' # "contract",
             NEW y \in Agent, NEW type, Send(Without(m), y, type, now'),
             Waiter' = Peer(y), pc' \notin {"intentA", "intentB"}
      PROVE  LossInv'
  BY <1>2, TakenByBoth, SendLoses
<1>3. ASSUME NEW m, Receive(m), pc # "intentB" PROVE ~missed /\ outcome = "open"
  BY <1>3 DEF ChannelInv, Flow, Receive, Waiting
<1>4. ASSUME IntentOfB PROVE LossInv'
  BY <1>1, <1>4 DEF IntentOfB, channel
<1>5. ASSUME IntentOfA PROVE LossInv'
  <2>1. PICK m \in inbox["b"] :
           /\ pc = "intentB" /\ Receive(m) /\ sess' = sess
           /\ \/ UNCHANGED lost
              \/ ~missed /\ profile.flaw # "none" /\ Abort(m, profile.flaw)
              \/ ~missed /\ Propose(m)
    BY <1>5 DEF IntentOfA, Refuse, channel
  <2>2. CASE profile.flaw # "none" /\ Abort(m, profile.flaw)
    BY <2>2, ConstraintsTypes DEF Abort, Flaws, LossInv
  <2>3. CASE ~missed /\ Propose(m)
    <3>1. PICK p \in Agent : Send(Without(m), p, "PROPOSE", now') /\ cur' = Peer(p)
      BY <2>3 DEF Propose
    <3>2. pc' = "offer" /\ outcome' = "open" /\ Waiter' = Peer(p)
      BY <2>1, <2>3, <3>1 DEF Propose, Waiter, Receive, Waiting
    <3> QED BY <1>2, <2>1, <2>3, <3>1, <3>2
  <2> QED BY <1>1, <2>1, <2>2, <2>3
<1>6. ASSUME Counter PROVE LossInv'
  <2>1. PICK m \in inbox[cur] : /\ Receive(m) /\ Send(Without(m), cur, "COUNTER", now')
                                /\ pc = "offer" /\ cur' = Peer(cur)
                                /\ UNCHANGED <<sess, pc, outcome>>
    BY <1>6 DEF Counter
  <2>2. Waiter' = Peer(cur)
    BY <2>1 DEF Waiter
  <2> QED BY <1>0, <1>2, <1>3, <2>1, <2>2
<1>7. ASSUME Answer PROVE LossInv'
  <2>1. PICK m \in inbox[cur] : /\ Receive(m) /\ Send(Without(m), cur, "ACCEPT", now')
                                /\ pc = "offer" /\ pc' = "answer"
                                /\ UNCHANGED <<sess, cur, outcome>>
    BY <1>7 DEF Answer
  <2>2. Waiter' = Peer(cur)
    BY <2>1 DEF Waiter
  <2> QED BY <1>0, <1>2, <1>3, <2>1, <2>2
<1>8. ASSUME Answered PROVE LossInv'
  <2>1. PICK m \in inbox[Peer(cur)] :
           /\ Receive(m) /\ pc = "answer" /\ UNCHANGED <<sess, cur>>
           /\ \/ Send(Without(m), cur, "COMMIT", now') /\ pc' = "commit" /\ UNCHANGED outcome
              \/ UNCHANGED lost
    BY <1>8 DEF Answered, channel
  <2>2. CASE Send(Without(m), cur, "COMMIT", now') /\ pc' = "commit" /\ UNCHANGED outcome
    <3>1. Waiter' = Peer(cur)
      BY <2>1, <2>2 DEF Waiter
    <3> QED BY <1>0, <1>2, <1>3, <2>1, <2>2, <3>1
  <2> QED BY <1>1, <2>1, <2>2
<1>9. ASSUME Committed PROVE LossInv'
  <2>1. PICK m \in inbox[Peer(cur)] :
           /\ Receive(m) /\ Send(Without(m), Peer(cur), "COMMIT_ACK", now')
           /\ pc = "commit" /\ pc' = "ack" /\ UNCHANGED <<sess, cur, outcome>>
    BY <1>9 DEF Committed
  <2>2. Waiter' = Peer(Peer(cur))
    BY <1>0, <2>1 DEF Waiter
  <2> QED BY <1>0, <1>2, <1>3, <2>1, <2>2
<1>10. ASSUME Acknowledged PROVE LossInv'
  BY <1>1, <1>10 DEF Acknowledged, channel
<1> QED BY <1>4, <1>5, <1>6, <1>7, <1>8, <1>9, <1>10

LEMMA LossHolds == Spec => []LossInv
<1>1. TypeOK /\ ChannelInv /\ LossInv /\ [Next]_vars => LossInv'
  BY LossWaits, LossBegin, LossSession DEF Next
<1> QED BY <1>1, TypeCorrect, ChannelHolds, LossInit, PTL DEF Spec

\* A contract stands only where every envelope but an intent got through at
\* its first sending.
THEOREM RetransmissionRepairsIntentsOnly == Spec => []LossIsFinal
<1>1. LossInv => LossIsFinal
  BY DEF LossInv, LossIsFinal
<1> QED BY <1>1, LossHolds, PTL

-----------------------------------------------------------------------------
(* The budget.  Unless something was lost, what is waited for arrives before *)
(* two full waits have passed; so recv gives up only when the budget ends.   *)

\* Something new of the session reaches x within w.
Due(x, w) == \E m \in inbox[x] : /\ m.env.sess = sess /\ m.env.seq \notin seen[x]
                                 /\ m.at <= now + w

Promised == /\ missed => now = deadline
            /\ now < deadline /\ ~missed
                  => Due(Waiter, IF retried THEN MSG_WAIT ELSE 2 * MSG_WAIT)
            /\ pc = "intentA" => Due("b", 2 * MSG_WAIT)

BudgetInv == /\ outcome # "none" => now <= deadline
             /\ outcome = "TIMEOUT" /\ lost = {} => now = deadline
             /\ outcome = "open" /\ lost = {} => Promised

LEMMA BudgetInit == Init => BudgetInv
BY DEF Init, BudgetInv

LEMMA Later ==
    ASSUME NEW t \in Nat, NEW w \in Nat
    PROVE  t <= t + w /\ \A d \in Nat : d <= 2 * w => t + d <= t + 2 * w
OBVIOUS

LEMMA DelayBound == \A d \in Delays : d \in Nat /\ d <= 2 * MSG_WAIT
BY HandshakeAssumption

LEMMA BudgetBegin == TypeOK /\ Begin => BudgetInv'
<1> SUFFICES ASSUME TypeOK, Begin PROVE BudgetInv'
  OBVIOUS
<1>1. TypeOK'
  BY BeginTypes
<1>2. /\ outcome' = "open" /\ deadline' = now' + TIMEOUT_MS /\ sess' = sess + 1
      /\ pc' = "intentA" /\ retried' = FALSE /\ missed' = FALSE
      /\ seen' = [x \in Agent |-> {}]
      /\ last' = [x \in Agent |-> [sess |-> sess + 1, from |-> x, seq |-> 0,
                                   type |-> "INTENT_DECLARE"]]
  BY DEF Begin
<1>3. now' \in Nat /\ now' <= deadline'
  <2>1. now' \in Nat
    BY <1>1 DEF TypeOK
  <2>2. TIMEOUT_MS \in Nat
    BY HandshakeAssumption
  <2>3. deadline' = now' + TIMEOUT_MS
    BY <1>2
  <2> QED BY <2>1, <2>2, <2>3, Later
<1>4. ASSUME lost' = {}, NEW x \in Agent PROVE Due(x, 2 * MSG_WAIT)'
  <2>1. PICK delay \in [Agent -> Delays], cut \in SUBSET Agent :
           /\ inbox' = [y \in Agent |-> inbox[y] \cup
                  {[at |-> now' + delay[z], env |-> last'[z]] : z \in {Peer(y)} \ cut}]
           /\ lost'  = {"INTENT_DECLARE" : y \in cut}
    BY DEF Begin
  <2>2. cut = {}
    BY <1>4, <2>1
  <2> DEFINE n == [at |-> now' + delay[Peer(x)], env |-> last'[Peer(x)]]
  <2>3. n \in inbox'[x]
    BY <2>1, <2>2
  <2>4. Peer(x) \in Agent /\ delay[Peer(x)] \in Nat /\ delay[Peer(x)] <= 2 * MSG_WAIT
    BY PeerIs, DelayBound
  <2>5. n.env.sess = sess' /\ n.env.seq \notin seen'[x]
    BY <1>2, <2>4
  <2>6. n.at <= now' + 2 * MSG_WAIT
    BY <1>3, <2>4, HandshakeAssumption
  <2> QED BY <2>3, <2>5, <2>6 DEF Due
<1>5. Waiter' = "a" /\ "a" \in Agent /\ "b" \in Agent
  BY <1>2 DEF Waiter, Agent
<1> QED BY <1>2, <1>3, <1>4, <1>5 DEF BudgetInv, Promised

LEMMA BudgetDiscard == TypeOK /\ BudgetInv /\ Discard => BudgetInv'
<1> SUFFICES ASSUME TypeOK, BudgetInv, Discard PROVE BudgetInv'
  OBVIOUS
<1>1. PICK m \in inbox[Waiter] :
         /\ Waiting /\ InTime(m) /\ ~Fresh(m) /\ now' = Arrival(m) /\ inbox' = Without(m)
         /\ UNCHANGED <<sess, deadline, seen, pc, cur, retried, missed, outcome, lost>>
  BY DEF Discard
<1>2. Waiter' = Waiter /\ Waiter \in Agent /\ outcome = "open" /\ now < deadline
  BY <1>1, WaiterIs DEF Waiter, Waiting, Left, TypeOK
<1>3. m.at \in Nat /\ now \in Nat /\ deadline \in Nat
  BY <1>2 DEF TypeOK
<1>4. now <= now' /\ now' <= deadline /\ now' \in Nat
  BY <1>1, <1>3, PatienceTypes DEF Arrival, InTime
<1>5. ASSUME NEW x \in Agent, NEW w \in Nat, Due(x, w) PROVE Due(x, w)'
  <2>1. PICK k \in inbox[x] : k.env.sess = sess /\ k.env.seq \notin seen[x] /\ k.at <= now + w
    BY <1>5 DEF Due
  <2>2. k \in inbox'[x]
    BY <1>1, <1>2, <2>1 DEF Fresh, Without, TypeOK
  <2>3. k.at \in Nat
    BY <2>1 DEF TypeOK
  <2>4. k.at <= now' + w
    BY <1>3, <1>4, <2>1, <2>3
  <2> QED BY <1>1, <2>1, <2>2, <2>4 DEF Due
<1>6. /\ (IF retried THEN MSG_WAIT ELSE 2 * MSG_WAIT) \in Nat /\ 2 * MSG_WAIT \in Nat
      /\ "b" \in Agent
  BY HandshakeAssumption DEF Agent
<1>7. ASSUME lost = {} PROVE Promised'
  <2>1. Promised
    BY <1>2, <1>7 DEF BudgetInv
  <2>2. ~missed
    BY <1>2, <1>3, <2>1 DEF Promised
  <2> QED BY <1>1, <1>2, <1>5, <1>6, <2>1, <2>2 DEF Promised
<1> QED BY <1>1, <1>2, <1>4, <1>7 DEF BudgetInv

LEMMA BudgetRetransmit == TypeOK /\ ChannelInv /\ BudgetInv /\ Retransmit => BudgetInv'
<1> SUFFICES ASSUME TypeOK, ChannelInv, BudgetInv, Retransmit PROVE BudgetInv'
  OBVIOUS
<1>1. /\ Waiting /\ now' = now + Patience /\ ~retried /\ retried' = TRUE
      /\ UNCHANGED <<sess, deadline, seen, pc, cur, missed, outcome, lost>>
  BY DEF Retransmit
<1>2. Waiter' = Waiter /\ Waiter \in Agent /\ outcome = "open" /\ now < deadline
  BY <1>1, WaiterIs DEF Waiter, Waiting, Left, TypeOK
<1>3. /\ Patience \in Nat /\ now \in Nat /\ deadline \in Nat /\ MSG_WAIT \in Nat
      /\ now' \in Nat /\ now' <= deadline /\ now <= now'
      /\ Patience <= MSG_WAIT /\ (Patience < MSG_WAIT => now' = deadline)
  BY <1>1, PatienceTypes, HandshakeAssumption DEF TypeOK
<1>4. \A x \in Agent : inbox[x] \subseteq inbox'[x]
  BY DEF Retransmit, Post, Put, TypeOK
<1>5. ASSUME lost = {} PROVE Promised'
  <2>1. Promised /\ ~missed
    BY <1>2, <1>3, <1>5 DEF BudgetInv, Promised
  <2>2. ASSUME now' < deadline PROVE Due(Waiter, MSG_WAIT)'
    <3>1. Due(Waiter, 2 * MSG_WAIT)
      BY <1>1, <1>2, <2>1 DEF Promised
    <3>2. PICK k \in inbox[Waiter] : /\ k.env.sess = sess /\ k.env.seq \notin seen[Waiter]
                                     /\ k.at <= now + 2 * MSG_WAIT
      BY <3>1 DEF Due
    <3>3. k.at \in Nat
      BY <1>2, <3>2 DEF TypeOK
    <3>4. now' = now + MSG_WAIT
      BY <1>1, <1>3, <2>2
    <3>5. k.at <= now' + MSG_WAIT
      BY <1>3, <3>2, <3>3, <3>4
    <3> QED BY <1>1, <1>2, <1>4, <3>2, <3>5 DEF Due
  <2>3. ASSUME pc = "intentA" PROVE Due("b", 2 * MSG_WAIT)'
    <3>1. PICK k \in inbox["b"] : /\ k.env.sess = sess /\ k.env.seq \notin seen["b"]
                                  /\ k.at <= now + 2 * MSG_WAIT
      BY <2>1, <2>3 DEF Promised, Due
    <3>2. "b" \in Agent /\ k.at \in Nat
      BY <3>1 DEF TypeOK, Agent
    <3>3. k.at <= now' + 2 * MSG_WAIT
      BY <1>3, <3>1, <3>2
    <3> QED BY <1>1, <1>4, <3>1, <3>2, <3>3 DEF Due
  <2> QED BY <1>1, <2>1, <2>2, <2>3 DEF Promised
<1> QED BY <1>1, <1>2, <1>3, <1>5 DEF BudgetInv

LEMMA BudgetGiveUp == TypeOK /\ ChannelInv /\ BudgetInv /\ GiveUp => BudgetInv'
<1> SUFFICES ASSUME TypeOK, ChannelInv, BudgetInv, GiveUp PROVE BudgetInv'
  OBVIOUS
<1>1. /\ outcome = "open" /\ UNCHANGED <<inbox, sess, deadline, seen, cur, lost>>
      /\ \/ Left <= 0 /\ UNCHANGED now
         \/ Waiting /\ retried /\ Nothing /\ now' = now + Patience
      /\ \/ pc = "intentA" /\ pc' = "intentB" /\ missed' = TRUE /\ UNCHANGED outcome
         \/ pc # "intentA" /\ outcome' = "TIMEOUT"
  BY DEF GiveUp, Spent, AbortOnSilence
<1>2. now <= deadline /\ now \in Nat /\ deadline \in Nat
  BY <1>1 DEF BudgetInv, TypeOK
<1>3. now' <= deadline
  BY <1>1, <1>2, PatienceTypes
<1>4. ASSUME lost = {} PROVE now' = deadline
  <2>1. CASE Left <= 0 /\ UNCHANGED now
    BY <1>2, <2>1 DEF Left
  <2>2. CASE Waiting /\ retried /\ Nothing /\ now' = now + Patience
    <3>1. now < deadline /\ ~missed
      BY <1>1, <1>2, <1>4, <2>2 DEF BudgetInv, Promised, Waiting, Left
    <3>2. PICK k \in inbox[Waiter] : k.at <= now + MSG_WAIT
      BY <1>1, <1>4, <2>2, <3>1 DEF BudgetInv, Promised, Due
    <3>3. ~(k.at <= now + Patience)
      BY <2>2 DEF Nothing, InTime
    <3>4. k.at \in Nat /\ Patience \in Nat /\ Patience <= MSG_WAIT /\ MSG_WAIT \in Nat
      BY <2>2, <3>2, WaiterIs, PatienceTypes, HandshakeAssumption DEF TypeOK
    <3>5. Patience < MSG_WAIT
      BY <1>2, <3>2, <3>3, <3>4
    <3> QED BY <2>2, <3>5, PatienceTypes
  <2> QED BY <1>1, <2>1, <2>2
<1>5. ASSUME lost = {}, outcome' = "open" PROVE Promised'
  <2>1. pc' = "intentB" /\ missed' = TRUE
    BY <1>1, <1>5
  <2> QED BY <1>1, <1>4, <1>5, <2>1 DEF Promised
<1> QED BY <1>1, <1>3, <1>4, <1>5 DEF BudgetInv

\* What is received costs no more than the budget; what is sent next arrives
\* within two waits, or is lost.
LEMMA BudgetSent ==
    ASSUME TypeOK, ChannelInv, BudgetInv, NEW m, Receive(m), pc # "intentA", ~missed,
           NEW y \in Agent, NEW type \in Types, Send(Without(m), y, type, now'),
           UNCHANGED <<sess, deadline, missed>>,
           Waiter' = Peer(y), pc' \notin {"intentA", "intentB"},
           outcome' # "TIMEOUT"
    PROVE  BudgetInv'
<1>1. /\ now' \in Nat /\ now' <= deadline /\ retried' = FALSE
      /\ outcome = "open" /\ \A x \in Agent : Taken(Without(m), seen', x)
  BY ReceiveTypes, TakenByBoth
<1>2. SentBy(y, type)
  BY <1>1, SendAwaits
<1>3. ASSUME lost' = {} PROVE Due(Peer(y), 2 * MSG_WAIT)'
  <2>1. PICK d \in Delays : inbox' = Put(Without(m), Envelope(y, type), now' + d)
    BY <1>3 DEF Send, Post
  <2> DEFINE e == Envelope(y, type)
             n == [at |-> now' + d, env |-> e]
  <2>2. e.from = y /\ e.sess = sess /\ last'[y] = e
    BY DEF Send, Envelope, TypeOK
  <2>3. Peer(y) \in Agent /\ Peer(Peer(y)) = y
    BY PeerIs
  <2>4. n \in inbox'[Peer(y)]
    <3>1. DOMAIN Without(m) = Agent
      BY WithoutTypes DEF BoxesOK
    <3> HIDE DEF e
    <3> QED BY <2>1, <2>2, <2>3, <3>1 DEF Put, e
  <2>5. e.seq \notin seen'[Peer(y)]
    BY <1>2, <2>2, <2>3 DEF SentBy, Expects
  <2>6. now' + d <= now' + 2 * MSG_WAIT
    <3>1. d \in Nat /\ d <= 2 * MSG_WAIT
      BY DelayBound
    <3>2. MSG_WAIT \in Nat
      BY HandshakeAssumption
    <3> QED BY <1>1, <3>1, <3>2, Later
  <2> HIDE DEF e
  <2>7. n.env = e /\ n.at = now' + d
    OBVIOUS
  <2> HIDE DEF n
  <2> QED BY <2>2, <2>4, <2>5, <2>6, <2>7 DEF Due
<1> QED BY <1>1, <1>3 DEF BudgetInv, Promised

\* What is received and ends the session, but for want of an intent.
LEMMA BudgetEnds ==
    ASSUME TypeOK, BudgetInv, NEW m, Receive(m), UNCHANGED deadline,
           outcome' \notin {"open", "TIMEOUT"}
    PROVE  BudgetInv'
BY ReceiveTypes DEF BudgetInv

LEMMA BudgetIntents ==
    TypeOK /\ ChannelInv /\ BudgetInv /\ (IntentOfB \/ IntentOfA) => BudgetInv'
<1> SUFFICES ASSUME TypeOK, ChannelInv, BudgetInv
             PROVE  (IntentOfB \/ IntentOfA) => BudgetInv'
  OBVIOUS
<1>1. ASSUME IntentOfB PROVE BudgetInv'
  <2>1. PICK m \in inbox["a"] :
           /\ pc = "intentA" /\ Receive(m) /\ pc' = "intentB" /\ inbox' = Without(m)
           /\ UNCHANGED <<sess, deadline, lost, missed, outcome>>
    BY <1>1 DEF IntentOfB, channel
  <2>2. /\ now \in Nat /\ now' \in Nat /\ now <= now' /\ now' <= deadline
        /\ retried' = FALSE /\ outcome = "open" /\ missed = FALSE
    BY <2>1, ReceiveTypes DEF TypeOK, ChannelInv, Flow, Receive, Waiting
  <2>3. Waiter = "a" /\ Waiter' = "b" /\ "a" \in Agent /\ "b" \in Agent
    BY <2>1 DEF Waiter, Agent
  <2>4. inbox'["b"] = inbox["b"] /\ seen'["b"] = seen["b"]
    BY <2>1, <2>3 DEF Without, Receive, TypeOK
  <2>5. ASSUME lost = {} PROVE Due("b", 2 * MSG_WAIT)'
    <3>1. PICK k \in inbox["b"] : /\ k.env.sess = sess /\ k.env.seq \notin seen["b"]
                                  /\ k.at <= now + 2 * MSG_WAIT
      BY <2>1, <2>2, <2>5 DEF BudgetInv, Promised, Due
    <3>2. k.at \in Nat /\ MSG_WAIT \in Nat
      BY <2>3, <3>1, HandshakeAssumption DEF TypeOK
    <3>3. k.at <= now' + 2 * MSG_WAIT
      BY <2>2, <3>1, <3>2
    <3> QED BY <2>1, <2>4, <3>1, <3>3 DEF Due
  <2> QED BY <2>1, <2>2, <2>3, <2>5 DEF BudgetInv, Promised
<1>2. ASSUME IntentOfA PROVE BudgetInv'
  <2>1. PICK m \in inbox["b"] :
           /\ pc = "intentB" /\ Receive(m)
           /\ \/ missed /\ Refuse(m, "TIMEOUT")
              \/ ~missed /\ profile.flaw # "none" /\ Abort(m, profile.flaw)
              \/ ~missed /\ profile.flaw = "none" /\ F = {} /\ Refuse(m, "EMPTY_FEASIBLE")
              \/ ~missed /\ profile.flaw = "none" /\ F # {} /\ Propose(m)
           /\ UNCHANGED <<sess, profile, deadline, missed, agreed, signed>>
    BY <1>2 DEF IntentOfA
  <2>2. outcome = "open" /\ deadline - now > 0 /\ now \in Nat /\ deadline \in Nat
    BY <2>1 DEF Receive, Waiting, Left, TypeOK
  <2>3. CASE missed /\ Refuse(m, "TIMEOUT")
    <3>1. lost # {}
      BY <2>2, <2>3 DEF BudgetInv, Promised
    <3>2. UNCHANGED <<lost, deadline>> /\ outcome' = "TIMEOUT" /\ now' <= deadline
      BY <2>1, <2>3, ReceiveTypes DEF Refuse, channel
    <3> QED BY <3>1, <3>2 DEF BudgetInv
  <2>4. CASE profile.flaw # "none" /\ Abort(m, profile.flaw)
    BY <2>1, <2>4, ConstraintsTypes, BudgetEnds DEF Abort, Flaws
  <2>5. CASE Refuse(m, "EMPTY_FEASIBLE")
    BY <2>1, <2>5, BudgetEnds DEF Refuse
  <2>6. CASE ~missed /\ Propose(m)
    <3>1. PICK p \in Agent : Send(Without(m), p, "PROPOSE", now') /\ cur' = Peer(p)
      BY <2>6 DEF Propose
    <3>2. /\ pc' = "offer" /\ outcome' = "open" /\ Waiter' = Peer(p)
          /\ "PROPOSE" \in Types
      BY <2>2, <2>6, <3>1 DEF Propose, Waiter, Types
    <3> QED BY <2>1, <2>6, <3>1, <3>2, BudgetSent
  <2> QED BY <2>1, <2>3, <2>4, <2>5, <2>6
<1> QED BY <1>1, <1>2

LEMMA BudgetSession ==
    ASSUME TypeOK, ChannelInv, BudgetInv,
           Counter \/ Answer \/ Answered \/ Committed \/ Acknowledged
    PROVE  BudgetInv'
<1>0. /\ cur \in Agent /\ Peer(cur) \in Agent /\ Peer(Peer(cur)) = cur
      /\ {"COUNTER", "ACCEPT", "COMMIT", "COMMIT_ACK"} \subseteq Types
  BY PeerIs DEF TypeOK, Types
<1>1. ASSUME NEW m, Receive(m), pc \notin {"intentA", "intentB"}
      PROVE  ~missed /\ outcome = "open"
  BY <1>1 DEF ChannelInv, Flow, Receive, Waiting
<1>2. ASSUME Counter PROVE BudgetInv'
  <2>1. PICK m \in inbox[cur] : /\ Receive(m) /\ Send(Without(m), cur, "COUNTER", now')
                                /\ pc = "offer" /\ cur' = Peer(cur)
                                /\ UNCHANGED <<sess, deadline, missed, pc, outcome>>
    BY <1>2 DEF Counter
  <2>2. Waiter' = Peer(cur)
    BY <2>1 DEF Waiter
  <2>3. ~missed /\ outcome = "open"
    BY <1>1, <2>1
  <2> QED BY <1>0, <2>1, <2>2, <2>3, BudgetSent
<1>3. ASSUME Answer PROVE BudgetInv'
  <2>1. PICK m \in inbox[cur] : /\ Receive(m) /\ Send(Without(m), cur, "ACCEPT", now')
                                /\ pc = "offer" /\ pc' = "answer"
                                /\ UNCHANGED <<sess, deadline, missed, cur, outcome>>
    BY <1>3 DEF Answer
  <2>2. Waiter' = Peer(cur)
    BY <2>1 DEF Waiter
  <2>3. ~missed /\ outcome = "open"
    BY <1>1, <2>1
  <2> QED BY <1>0, <2>1, <2>2, <2>3, BudgetSent
<1>4. ASSUME Answered PROVE BudgetInv'
  <2>1. PICK m \in inbox[Peer(cur)] :
           /\ Receive(m) /\ pc = "answer" /\ UNCHANGED <<sess, deadline, missed, cur>>
           /\ \/ Send(Without(m), cur, "COMMIT", now') /\ pc' = "commit" /\ UNCHANGED outcome
              \/ outcome' = "POLICY_VIOLATION"
    BY <1>4 DEF Answered
  <2>2. ~missed /\ outcome = "open"
    BY <1>1, <2>1
  <2>3. CASE Send(Without(m), cur, "COMMIT", now') /\ pc' = "commit" /\ UNCHANGED outcome
    <3>1. Waiter' = Peer(cur)
      BY <2>1, <2>3 DEF Waiter
    <3> QED BY <1>0, <2>1, <2>2, <2>3, <3>1, BudgetSent
  <2>4. CASE outcome' = "POLICY_VIOLATION"
    BY <2>1, <2>4, BudgetEnds
  <2> QED BY <2>1, <2>3, <2>4
<1>5. ASSUME Committed PROVE BudgetInv'
  <2>1. PICK m \in inbox[Peer(cur)] :
           /\ Receive(m) /\ Send(Without(m), Peer(cur), "COMMIT_ACK", now')
           /\ pc = "commit" /\ pc' = "ack" /\ UNCHANGED <<sess, deadline, missed, cur, outcome>>
    BY <1>5 DEF Committed
  <2>2. Waiter' = Peer(Peer(cur))
    BY <1>0, <2>1 DEF Waiter
  <2>3. ~missed /\ outcome = "open"
    BY <1>1, <2>1
  <2> QED BY <1>0, <2>1, <2>2, <2>3, BudgetSent
<1>6. ASSUME Acknowledged PROVE BudgetInv'
  <2>1. \E m \in inbox[cur] : Receive(m) /\ UNCHANGED deadline /\ outcome' = "contract"
    BY <1>6 DEF Acknowledged
  <2> QED BY <2>1, BudgetEnds
<1> QED BY <1>2, <1>3, <1>4, <1>5, <1>6

LEMMA BudgetStutter == BudgetInv /\ UNCHANGED vars => BudgetInv'
BY DEF vars, BudgetInv, Promised, Due, Waiter

LEMMA BudgetHolds == Spec => []BudgetInv
<1>1. TypeOK /\ ChannelInv /\ BudgetInv /\ [Next]_vars => BudgetInv'
  BY BudgetBegin, BudgetDiscard, BudgetRetransmit, BudgetGiveUp, BudgetIntents, BudgetSession,
     BudgetStutter DEF Next
<1> QED BY <1>1, TypeCorrect, ChannelHolds, BudgetInit, PTL DEF Spec

\* A session stays within its budget, and times out early only for a loss.
THEOREM BudgetIsKept == Spec => []BudgetKept
<1>1. BudgetInv => BudgetKept
  BY DEF BudgetInv, BudgetKept
<1> QED BY <1>1, BudgetHolds, PTL

-----------------------------------------------------------------------------
(* A session runs out of steps *)

\* How many envelopes the session may still wait for.
WaitsLeft == CASE pc = "intentA" -> R_MAX + 6
               [] pc = "intentB" -> R_MAX + 5
               [] pc = "offer"   -> 4 + (IF rounds < R_MAX THEN R_MAX - rounds ELSE 0)
               [] pc = "answer"  -> 3
               [] pc = "commit"  -> 2
               [] pc = "ack"     -> 1
               [] OTHER          -> 0

InFlight(boxes) == Cardinality(boxes["a"]) + Cardinality(boxes["b"])

\* A wait may retransmit once, and gives up or takes an envelope; what is on its
\* way can only be thrown away.
StepsLeft == 3 * WaitsLeft + (IF retried THEN 0 ELSE 2) + InFlight(inbox)

FiniteBoxes(boxes) == /\ DOMAIN boxes = Agent
                      /\ \A x \in Agent : IsFiniteSet(boxes[x])

LEMMA InFlightType ==
    ASSUME NEW boxes, FiniteBoxes(boxes)
    PROVE  InFlight(boxes) \in Nat
BY FS_CardinalityType DEF FiniteBoxes, InFlight, Agent

\* One box changes by an envelope.
LEMMA OneMore ==
    ASSUME NEW boxes, FiniteBoxes(boxes), NEW x \in Agent, NEW n
    PROVE  LET more == [boxes EXCEPT ![x] = @ \cup {n}]
           IN  FiniteBoxes(more) /\ InFlight(more) <= InFlight(boxes) + 1
<1> DEFINE more == [boxes EXCEPT ![x] = @ \cup {n}]
<1>1. /\ IsFiniteSet(boxes[x] \cup {n})
      /\ Cardinality(boxes[x] \cup {n}) <= Cardinality(boxes[x]) + 1
      /\ Cardinality(boxes[x] \cup {n}) \in Nat
  <2>1. /\ IsFiniteSet(boxes[x] \cup {n})
        /\ Cardinality(boxes[x] \cup {n}) =
             IF n \in boxes[x] THEN Cardinality(boxes[x]) ELSE Cardinality(boxes[x]) + 1
    BY FS_AddElement DEF FiniteBoxes
  <2> QED BY <2>1, FS_CardinalityType DEF FiniteBoxes
<1>2. \A y \in Agent : Cardinality(boxes[y]) \in Nat
  BY FS_CardinalityType DEF FiniteBoxes
<1>3. DOMAIN more = Agent /\ \A y \in Agent : more[y] = IF y = x THEN boxes[x] \cup {n} ELSE boxes[y]
  BY DEF FiniteBoxes
<1> HIDE DEF more
<1>4. FiniteBoxes(more)
  BY <1>1, <1>3 DEF FiniteBoxes
<1>5. InFlight(more) <= InFlight(boxes) + 1
  <2>1. \A y \in Agent : Cardinality(more[y]) \in Nat
    <3>1. \A y \in Agent : more[y] = boxes[x] \cup {n} \/ more[y] = boxes[y]
      BY <1>3
    <3> QED BY <1>1, <1>2, <3>1
  <2>2. Cardinality(more[x]) <= Cardinality(boxes[x]) + 1
    BY <1>1, <1>3
  <2>3. \A y \in Agent \ {x} : Cardinality(more[y]) = Cardinality(boxes[y])
    BY <1>3
  <2> QED BY <1>2, <2>1, <2>2, <2>3 DEF InFlight, Agent
<1> QED BY <1>4, <1>5 DEF more

LEMMA OneLess ==
    ASSUME TypeOK, FiniteBoxes(inbox), NEW m \in inbox[Waiter]
    PROVE  FiniteBoxes(Without(m)) /\ InFlight(Without(m)) + 1 <= InFlight(inbox)
<1> DEFINE x == Waiter
           less == [inbox EXCEPT ![x] = @ \ {m}]
<1>0. x \in Agent /\ m \in inbox[x] /\ Without(m) = less
  BY WaiterIs DEF Without
<1> HIDE DEF x
<1>1. /\ IsFiniteSet(inbox[x] \ {m})
      /\ Cardinality(inbox[x] \ {m}) = Cardinality(inbox[x]) - 1
  BY <1>0, FS_RemoveElement DEF FiniteBoxes
<1>2. \A y \in Agent : Cardinality(inbox[y]) \in Nat
  BY FS_CardinalityType DEF FiniteBoxes
<1>3. DOMAIN less = Agent /\ \A y \in Agent : less[y] = IF y = x THEN inbox[x] \ {m} ELSE inbox[y]
  BY DEF FiniteBoxes
<1> HIDE DEF less
<1>4. FiniteBoxes(less)
  BY <1>1, <1>3 DEF FiniteBoxes
<1>5. InFlight(less) + 1 <= InFlight(inbox)
  <2>1. Cardinality(less[x]) = Cardinality(inbox[x]) - 1
    BY <1>0, <1>1, <1>3
  <2>2. \A y \in Agent \ {x} : Cardinality(less[y]) = Cardinality(inbox[y])
    BY <1>3
  <2> QED BY <1>0, <1>2, <2>1, <2>2 DEF InFlight, Agent
<1> QED BY <1>0, <1>4, <1>5

LEMMA PostAddsOne ==
    ASSUME NEW boxes, FiniteBoxes(boxes), NEW env, env.from \in Agent, NEW t,
           Post(boxes, env, t)
    PROVE  FiniteBoxes(inbox') /\ InFlight(inbox') <= InFlight(boxes) + 1
<1>1. PICK d \in Delays : inbox' = [boxes EXCEPT ![Peer(env.from)] = @ \cup {[at |-> t + d, env |-> env]}]
  BY DEF Post, Put
<1>2. Peer(env.from) \in Agent
  BY PeerIs
<1> QED BY <1>1, <1>2, OneMore

LEMMA SendAddsOne ==
    ASSUME NEW boxes, FiniteBoxes(boxes), NEW x \in Agent, NEW type, NEW t,
           Send(boxes, x, type, t)
    PROVE  FiniteBoxes(inbox') /\ InFlight(inbox') <= InFlight(boxes) + 1
<1>1. Envelope(x, type).from = x
  BY DEF Envelope
<1>2. CASE inbox' = boxes
  BY <1>2, InFlightType
<1>3. CASE Post(boxes, Envelope(x, type), t)
  BY <1>1, <1>3, PostAddsOne
<1> QED BY <1>2, <1>3 DEF Send

LEMMA WaitsLeftType == TypeOK => WaitsLeft \in Nat
BY HandshakeAssumption DEF TypeOK, WaitsLeft

LEMMA StepsLeftType == TypeOK /\ FiniteBoxes(inbox) => StepsLeft \in Nat
<1> SUFFICES ASSUME TypeOK, FiniteBoxes(inbox) PROVE StepsLeft \in Nat
  OBVIOUS
<1>1. WaitsLeft \in Nat /\ InFlight(inbox) \in Nat
  BY WaitsLeftType, InFlightType
<1> QED BY <1>1 DEF StepsLeft

\* Taking an envelope, and moving on to a later wait.
LEMMA TakingMovesOn ==
    ASSUME TypeOK, TypeOK', FiniteBoxes(inbox), NEW m, Receive(m),
           WaitsLeft' < WaitsLeft,
           \/ inbox' = Without(m)
           \/ \E x \in Agent, type \in Types : Send(Without(m), x, type, now')
    PROVE  FiniteBoxes(inbox') /\ StepsLeft' < StepsLeft
<1>1. m \in inbox[Waiter] /\ retried' = FALSE
  BY DEF Receive, Earliest
<1>2. FiniteBoxes(Without(m)) /\ InFlight(Without(m)) + 1 <= InFlight(inbox)
  BY <1>1, OneLess
<1>3. InFlight(Without(m)) \in Nat /\ InFlight(inbox) \in Nat
  BY <1>2, InFlightType
<1>4. FiniteBoxes(inbox') /\ InFlight(inbox') <= InFlight(Without(m)) + 1
  <2>1. CASE inbox' = Without(m)
    BY <1>2, <1>3, <2>1
  <2>2. ASSUME NEW x \in Agent, NEW type \in Types, Send(Without(m), x, type, now')
        PROVE  FiniteBoxes(inbox') /\ InFlight(inbox') <= InFlight(Without(m)) + 1
    BY <1>2, <2>2, SendAddsOne
  <2> QED BY <2>1, <2>2
<1>5. InFlight(inbox') \in Nat /\ WaitsLeft \in Nat /\ WaitsLeft' \in Nat
  <2>1. (TypeOK => WaitsLeft \in Nat)'
    BY WaitsLeftType, PTL
  <2> QED BY <1>4, <2>1, InFlightType, WaitsLeftType
<1>6. StepsLeft' = 3 * WaitsLeft' + 2 + InFlight(inbox')
  BY <1>1 DEF StepsLeft, InFlight
<1>7. 3 * WaitsLeft + InFlight(inbox) <= StepsLeft
  BY <1>3, <1>5 DEF StepsLeft
<1>8. StepsLeft' < 3 * WaitsLeft + InFlight(inbox)
  BY <1>2, <1>3, <1>4, <1>5, <1>6
<1>9. StepsLeft \in Nat /\ StepsLeft' \in Nat
  BY <1>5, <1>6, StepsLeftType
<1> QED BY <1>3, <1>4, <1>5, <1>7, <1>8, <1>9

LEMMA WaitRunsOut ==
    ASSUME TypeOK, TypeOK', ChannelInv, FiniteBoxes(inbox), Discard \/ Retransmit \/ GiveUp
    PROVE  FiniteBoxes(inbox') /\ StepsLeft' < StepsLeft
<1>0. WaitsLeft \in Nat /\ InFlight(inbox) \in Nat
  BY WaitsLeftType, InFlightType
<1>1. CASE Discard
  <2>1. PICK m \in inbox[Waiter] : inbox' = Without(m)
    BY <1>1 DEF Discard
  <2>2. FiniteBoxes(inbox') /\ InFlight(inbox') + 1 <= InFlight(inbox)
    BY <2>1, OneLess
  <2>3. WaitsLeft' = WaitsLeft /\ retried' = retried
    BY <1>1 DEF Discard, WaitsLeft
  <2>4. InFlight(inbox') \in Nat
    BY <2>2, InFlightType
  <2> QED BY <1>0, <2>2, <2>3, <2>4 DEF StepsLeft, InFlight
<1>2. CASE Retransmit
  <2>1. retried = FALSE /\ retried' = TRUE /\ WaitsLeft' = WaitsLeft
    BY <1>2 DEF Retransmit, WaitsLeft, TypeOK
  <2>2. FiniteBoxes(inbox') /\ InFlight(inbox') <= InFlight(inbox) + 1
    <3>1. CASE UNCHANGED inbox
      BY <1>0, <3>1
    <3>2. CASE Post(inbox, Repeated, now')
      <4>1. Repeated.from \in Agent
        BY WaiterIs DEF Repeated, TypeOK, Envelopes
      <4> QED BY <3>2, <4>1, PostAddsOne
    <3> QED BY <1>2, <3>1, <3>2 DEF Retransmit
  <2>4. InFlight(inbox') \in Nat
    BY <2>2, InFlightType
  <2>5. /\ StepsLeft' = 3 * WaitsLeft + 0 + InFlight(inbox')
        /\ StepsLeft = 3 * WaitsLeft + 2 + InFlight(inbox)
    BY <2>1 DEF StepsLeft, InFlight
  <2> QED BY <1>0, <2>2, <2>4, <2>5
<1>3. CASE GiveUp
  <2>1. inbox' = inbox /\ retried' = FALSE /\ pc # "idle" /\ rounds' = rounds
    BY <1>3 DEF GiveUp, ChannelInv, Flow
  <2>2. WaitsLeft' + 1 <= WaitsLeft /\ WaitsLeft' \in Nat
    <3>1. \/ pc = "intentA" /\ pc' = "intentB"
          \/ pc # "intentA" /\ pc' = "idle"
      BY <1>3 DEF GiveUp
    <3>2. rounds \in Nat /\ R_MAX \in Nat /\ pc \in {"intentA", "intentB", "offer", "answer", "commit", "ack"}
      BY <2>1, HandshakeAssumption DEF TypeOK
    <3> QED BY <2>1, <3>1, <3>2 DEF WaitsLeft
  <2>3. StepsLeft' = 3 * WaitsLeft' + 2 + InFlight(inbox)
    BY <2>1 DEF StepsLeft
  <2>4. 3 * WaitsLeft + InFlight(inbox) <= StepsLeft /\ StepsLeft \in Nat
    BY <1>0, StepsLeftType DEF StepsLeft
  <2>5. StepsLeft' < 3 * WaitsLeft + InFlight(inbox)
    <3>1. \A v, w, n \in Nat : v + 1 <= w => 3 * v + 2 + n < 3 * w + n
      OBVIOUS
    <3> QED BY <1>0, <2>2, <2>3, <3>1
  <2>6. FiniteBoxes(inbox')
    BY <2>1
  <2> QED BY <1>0, <2>2, <2>3, <2>4, <2>5, <2>6
<1> QED BY <1>1, <1>2, <1>3

LEMMA SessionRunsOut ==
    ASSUME TypeOK, TypeOK', FiniteBoxes(inbox),
           IntentOfB \/ IntentOfA \/ Counter \/ Answer \/ Answered \/ Committed \/ Acknowledged
    PROVE  FiniteBoxes(inbox') /\ StepsLeft' < StepsLeft
<1>0. /\ cur \in Agent /\ Peer(cur) \in Agent /\ "a" \in Agent /\ rounds \in Nat /\ R_MAX \in Nat
      /\ {"PROPOSE", "COUNTER", "ACCEPT", "COMMIT", "COMMIT_ACK", "ABORT"} \subseteq Types
  BY PeerIs, HandshakeAssumption DEF TypeOK, Types, Agent
<1>1. CASE IntentOfB
  <2>1. WaitsLeft' < WaitsLeft
    BY <1>0, <1>1 DEF IntentOfB, WaitsLeft
  <2>2. \E m : Receive(m) /\ inbox' = Without(m)
    BY <1>1 DEF IntentOfB
  <2> QED BY <2>1, <2>2, TakingMovesOn
<1>2. CASE IntentOfA
  <2>1. PICK m \in inbox["b"] :
           /\ pc = "intentB" /\ Receive(m)
           /\ \/ Refuse(m, "TIMEOUT") \/ Refuse(m, "EMPTY_FEASIBLE")
              \/ Abort(m, profile.flaw) \/ Propose(m)
    BY <1>2 DEF IntentOfA
  <2>2. CASE Refuse(m, "TIMEOUT") \/ Refuse(m, "EMPTY_FEASIBLE")
    <3>1. WaitsLeft' < WaitsLeft /\ inbox' = Without(m)
      BY <1>0, <2>1, <2>2 DEF Refuse, WaitsLeft
    <3> QED BY <2>1, <3>1, TakingMovesOn
  <2>3. CASE Abort(m, profile.flaw)
    <3>1. WaitsLeft' < WaitsLeft
      BY <1>0, <2>1, <2>3 DEF Abort, WaitsLeft
    <3>2. \E x \in Agent, type \in Types : Send(Without(m), x, type, now')
      BY <1>0, <2>3 DEF Abort
    <3> QED BY <2>1, <3>1, <3>2, TakingMovesOn
  <2>4. CASE Propose(m)
    <3>1. WaitsLeft' < WaitsLeft
      BY <1>0, <2>1, <2>4 DEF Propose, WaitsLeft
    <3>2. \E x \in Agent, type \in Types : Send(Without(m), x, type, now')
      BY <1>0, <2>4 DEF Propose
    <3> QED BY <2>1, <3>1, <3>2, TakingMovesOn
  <2> QED BY <2>1, <2>2, <2>3, <2>4
<1>3. CASE Counter \/ Answer \/ Committed
  <2>1. WaitsLeft' < WaitsLeft
    BY <1>0, <1>3 DEF Counter, Answer, Committed, WaitsLeft
  <2>2. \E m : /\ Receive(m)
               /\ \E x \in Agent, type \in Types : Send(Without(m), x, type, now')
    BY <1>0, <1>3 DEF Counter, Answer, Committed
  <2> QED BY <2>1, <2>2, TakingMovesOn
<1>4. CASE Answered
  <2>1. WaitsLeft' < WaitsLeft
    BY <1>0, <1>4 DEF Answered, WaitsLeft
  <2>2. \E m : /\ Receive(m)
               /\ \/ inbox' = Without(m)
                  \/ \E x \in Agent, type \in Types : Send(Without(m), x, type, now')
    BY <1>0, <1>4 DEF Answered
  <2> QED BY <2>1, <2>2, TakingMovesOn
<1>5. CASE Acknowledged
  <2>1. WaitsLeft' < WaitsLeft
    BY <1>0, <1>5 DEF Acknowledged, WaitsLeft
  <2>2. \E m : Receive(m) /\ inbox' = Without(m)
    BY <1>5 DEF Acknowledged
  <2> QED BY <2>1, <2>2, TakingMovesOn
<1> QED BY <1>1, <1>2, <1>3, <1>4, <1>5

LEMMA BeginIsFinite == FiniteBoxes(inbox) /\ Begin => FiniteBoxes(inbox')
<1> SUFFICES ASSUME FiniteBoxes(inbox), Begin PROVE FiniteBoxes(inbox')
  OBVIOUS
<1>1. PICK delay \in [Agent -> Delays], cut \in SUBSET Agent :
         inbox' = [x \in Agent |-> inbox[x] \cup
                    {[at |-> now' + delay[y], env |-> last'[y]] : y \in {Peer(x)} \ cut}]
  BY DEF Begin
<1>2. ASSUME NEW x \in Agent PROVE IsFiniteSet(inbox'[x])
  <2> DEFINE n == [at |-> now' + delay[Peer(x)], env |-> last'[Peer(x)]]
  <2>1. inbox'[x] = inbox[x] \/ inbox'[x] = inbox[x] \cup {n}
    BY <1>1
  <2>2. IsFiniteSet(inbox[x])
    BY DEF FiniteBoxes
  <2> HIDE DEF n
  <2> QED BY <2>1, <2>2, FS_AddElement
<1> QED BY <1>1, <1>2 DEF FiniteBoxes

\* Every step of a session takes it nearer its end, whatever is delayed, lost or
\* repeated, and only the first one of the next session starts the count again:
\* two agents never wait for each other forever.
THEOREM SessionsRunOut ==
    Spec => [](StepsLeft \in Nat) /\ [][~Begin => StepsLeft' < StepsLeft]_vars
<1>1. Init => FiniteBoxes(inbox)
  BY FS_EmptySet DEF Init, FiniteBoxes
<1>2. TypeOK /\ TypeOK' /\ ChannelInv /\ FiniteBoxes(inbox) /\ [Next]_vars =>
         /\ FiniteBoxes(inbox')
         /\ Begin \/ StepsLeft' < StepsLeft \/ UNCHANGED vars
  BY BeginIsFinite, WaitRunsOut, SessionRunsOut DEF Next, vars
<1>3. TypeOK /\ FiniteBoxes(inbox) => StepsLeft \in Nat
  BY StepsLeftType
<1>4. FiniteBoxes(inbox') <=> FiniteBoxes(inbox)'
  BY DEF FiniteBoxes
<1> QED BY <1>1, <1>2, <1>3, <1>4, TypeCorrect, ChannelHolds, PTL DEF Spec
=============================================================================
