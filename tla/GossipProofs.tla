---------------------------- MODULE GossipProofs ----------------------------
(***************************************************************************)
(* Proofs about Gossip: its type invariant, that it implements GrowOnlySet,*)
(* and that a partition stops it.                                          *)
(***************************************************************************)
EXTENDS Gossip, TLAPS

Held == UNION {log[x] : x \in Node}

\* A driver holds messages only in the middle of a drain.
HoldsOnlyWhileDraining ==
    \A t \in Driver :
        /\ drained[t] => phase[t] \in {"answer", "ingest"}
        /\ ~drained[t] => out[t] = {} /\ keep[t] = {}

\* Messages carry nothing that no replica holds.
CarriesHeld ==
    /\ \A x \in Node : \A m \in inbox[x] : m.entries \subseteq Held
    /\ \A t \in Driver : \A m \in out[t] \cup keep[t] : m.entries \subseteq Held

\* An entry of node m is in m's own replica before it is anywhere.
AtHome == \A m, x \in Node : Own[m] \cap log[x] \subseteq log[m]

\* The entries E may be at node x: those signed since the partition began
\* are on their author's side.
OnSide(x, E) == \A e \in E \cap since, m \in Node :
                    e \in Own[m] => (x \in cut <=> m \in cut)

SidesKept ==
    /\ cut = {} => since = {}
    /\ \A x \in Node : OnSide(x, log[x])
    /\ \A x \in Node : \A m \in inbox[x] : OnSide(x, m.entries)
    /\ \A t \in Driver, n \in Node : Turn(t, n) =>
          \A m \in out[t] \cup keep[t] : OnSide(n, m.entries)

IInv == TypeOK /\ HoldsOnlyWhileDraining /\ CarriesHeld /\ AtHome /\ SidesKept

-----------------------------------------------------------------------------
(* The bus *)

\* The passing of time changes nothing of a message but that it is due.
LEMMA LandedFacts ==
    ASSUME NEW S \in SUBSET Message, NEW m \in Landed(S)
    PROVE  /\ m \in Message
           /\ \E k \in S : m.entries = k.entries
<1>1. PICK k \in S : m = [k EXCEPT !.due = TRUE]
  BY DEF Landed
<1>2. k \in Message
  OBVIOUS
<1>. QED  BY <1>1, <1>2 DEF Message

\* Settling leaves the messages in every mailbox what they were.
LEMMA SettledFacts ==
    ASSUME NEW t, NEW n, NEW D, NEW f \in [D -> SUBSET Message]
    PROVE  /\ Settled(t, n, f) \in [D -> SUBSET Message]
           /\ \A x \in D : \A m \in Settled(t, n, f)[x] :
                 \E k \in f[x] : m.entries = k.entries
<1>1. CASE todo[t] = {n}
  <2>1. Settled(t, n, f) = [x \in D |-> Landed(f[x])]
    BY <1>1 DEF Settled
  <2>2. \A x \in D : Landed(f[x]) \subseteq Message
    BY LandedFacts
  <2>3. \A x \in D : \A m \in Landed(f[x]) : \E k \in f[x] : m.entries = k.entries
    BY LandedFacts
  <2>. QED  BY <2>1, <2>2, <2>3
<1>2. CASE todo[t] # {n}
  BY <1>2 DEF Settled
<1>. QED  BY <1>1, <1>2

\* A delivered message was sent there, over a link that works.
LEMMA DeliveredFacts ==
    ASSUME NEW x \in Node, NEW sent \in SUBSET (Node \X Message),
           NEW m \in Delivered(x, sent)
    PROVE  <<x, m>> \in sent /\ Reach(m.from, x)
<1>1. PICK q \in sent : m = q[2] /\ q[1] = x /\ Reach(q[2].from, x)
  BY DEF Delivered
<1>2. q = <<q[1], q[2]>>
  OBVIOUS
<1>. QED  BY <1>1, <1>2

\* What was sent over a link that works is delivered.
LEMMA DeliveredHolds ==
    ASSUME NEW x, NEW m, NEW sent, <<x, m>> \in sent, Reach(m.from, x)
    PROVE  m \in Delivered(x, sent)
<1>. DEFINE p == <<x, m>>
<1>1. p \in sent /\ p[1] = x /\ p[2] = m
  OBVIOUS
<1>. HIDE DEF p
<1>2. p \in {q \in sent : q[1] = x /\ Reach(q[2].from, x)}
  BY <1>1
<1>. QED  BY <1>1, <1>2 DEF Delivered

HeadsSent(t, n) == {<<m, Head(n)>> : m \in ids[t] \ {n}}

\* What the advertisement of node n delivers.
LEMMA HeadsFacts ==
    ASSUME TypeOK, NEW t \in Driver, NEW n \in Node
    PROVE  /\ HeadsSent(t, n) \in SUBSET (Node \X Message)
           /\ \A x \in Node : \A m \in Delivered(x, HeadsSent(t, n)) :
                 m \in Message /\ m.entries = log[n] /\ Reach(n, x)
<1>1. Head(n) \in Message
  BY DEF TypeOK, Head, Message
<1>2. HeadsSent(t, n) \in SUBSET (Node \X Message)
  BY <1>1 DEF TypeOK, HeadsSent
<1>3. ASSUME NEW x \in Node, NEW m \in Delivered(x, HeadsSent(t, n))
      PROVE  m \in Message /\ m.entries = log[n] /\ Reach(n, x)
  <2>1. <<x, m>> \in HeadsSent(t, n) /\ Reach(m.from, x)
    BY <1>2, DeliveredFacts
  <2>2. m = Head(n)
    BY <2>1 DEF HeadsSent
  <2>. QED  BY <1>1, <2>1, <2>2 DEF Head
<1>. QED  BY <1>2, <1>3

Heads(t, n) == {m \in out[t] : m.type = "HEAD" /\ Lacking(n, m.entries) # {}}
PushesSent(t, n) ==
    {<<m.from, Push(n, Lacking(n, m.entries))>> : m \in Heads(t, n)}

\* What the answers of node n deliver.
LEMMA PushesFacts ==
    ASSUME TypeOK, NEW t \in Driver, NEW n \in Node
    PROVE  /\ PushesSent(t, n) \in SUBSET (Node \X Message)
           /\ \A x \in Node : \A m \in Delivered(x, PushesSent(t, n)) :
                 m \in Message /\ m.entries \subseteq log[n] /\ Reach(n, x)
<1>1. ASSUME NEW h \in Heads(t, n)
      PROVE  h.from \in Node /\ Push(n, Lacking(n, h.entries)) \in Message
  BY DEF TypeOK, Heads, Push, Lacking, Message
<1>2. PushesSent(t, n) \in SUBSET (Node \X Message)
  BY <1>1 DEF PushesSent
<1>3. ASSUME NEW x \in Node, NEW m \in Delivered(x, PushesSent(t, n))
      PROVE  m \in Message /\ m.entries \subseteq log[n] /\ Reach(n, x)
  <2>1. <<x, m>> \in PushesSent(t, n) /\ Reach(m.from, x)
    BY <1>2, DeliveredFacts
  <2>2. PICK h \in Heads(t, n) : m = Push(n, Lacking(n, h.entries))
    BY <2>1 DEF PushesSent
  <2>. QED  BY <1>1, <2>1, <2>2 DEF Push, Lacking
<1>. QED  BY <1>2, <1>3

\* The mailboxes after an advertisement.
LEMMA AdvertiseFacts ==
    ASSUME TypeOK, NEW t \in Driver, NEW n \in Node, Advertise(t, n)
    PROVE  /\ inbox' \in [Node -> SUBSET Message]
           /\ keep' \in [Driver -> SUBSET Message]
           /\ \A x \in Node : \A m \in inbox'[x] :
                 \/ \E k \in inbox[x] : m.entries = k.entries
                 \/ m.entries = log[n] /\ Reach(n, x)
           /\ \A u \in Driver : \A m \in keep'[u] :
                 \E k \in keep[u] : m.entries = k.entries
<1>. DEFINE f == [x \in Node |-> inbox[x] \cup Delivered(x, HeadsSent(t, n))]
<1>1. inbox' = Settled(t, n, f) /\ keep' = Settled(t, n, keep)
  BY DEF Advertise, HeadsSent
<1>2. \A x \in Node : \A m \in Delivered(x, HeadsSent(t, n)) :
          m \in Message /\ m.entries = log[n] /\ Reach(n, x)
  BY HeadsFacts
<1>3. f \in [Node -> SUBSET Message]
  BY <1>2 DEF TypeOK
<1>4. keep \in [Driver -> SUBSET Message]
  BY DEF TypeOK
<1>5. \A x \in Node : f[x] = inbox[x] \cup Delivered(x, HeadsSent(t, n))
  OBVIOUS
<1>. HIDE DEF f
<1>6. /\ inbox' \in [Node -> SUBSET Message]
      /\ \A x \in Node : \A m \in inbox'[x] : \E k \in f[x] : m.entries = k.entries
  BY <1>1, <1>3, SettledFacts
<1>7. /\ keep' \in [Driver -> SUBSET Message]
      /\ \A u \in Driver : \A m \in keep'[u] : \E k \in keep[u] : m.entries = k.entries
  BY <1>1, <1>4, SettledFacts
<1>. QED  BY <1>2, <1>5, <1>6, <1>7

\* The mailboxes after an answer: node n's was replaced by what the driver
\* kept of it.
LEMMA AnswerFacts ==
    ASSUME TypeOK, NEW t \in Driver, NEW n \in Node, Answer(t, n)
    PROVE  /\ inbox' \in [Node -> SUBSET Message]
           /\ keep' \in [Driver -> SUBSET Message]
           /\ \A x \in Node : \A m \in inbox'[x] :
                 \/ \E k \in inbox[x] : m.entries = k.entries
                 \/ x = n /\ \E k \in keep[t] : m.entries = k.entries
                 \/ m.entries \subseteq log[n] /\ Reach(n, x)
           /\ \A u \in Driver : \A m \in keep'[u] :
                 u # t /\ \E k \in keep[u] : m.entries = k.entries
<1>. DEFINE g == [inbox EXCEPT ![n] = keep[t]]
            f == [x \in Node |-> g[x] \cup Delivered(x, PushesSent(t, n))]
            h == [keep EXCEPT ![t] = {}]
<1>1. inbox' = Settled(t, n, f) /\ keep' = Settled(t, n, h)
  BY DEF Answer, Heads, PushesSent
<1>2. \A x \in Node : \A m \in Delivered(x, PushesSent(t, n)) :
          m \in Message /\ m.entries \subseteq log[n] /\ Reach(n, x)
  BY PushesFacts
<1>3. /\ g \in [Node -> SUBSET Message] /\ h \in [Driver -> SUBSET Message]
      /\ \A x \in Node : g[x] = IF x = n THEN keep[t] ELSE inbox[x]
      /\ \A u \in Driver : h[u] = IF u = t THEN {} ELSE keep[u]
  BY DEF TypeOK
<1>. HIDE DEF g, h
<1>4. f \in [Node -> SUBSET Message]
  BY <1>2, <1>3
<1>5. \A x \in Node : f[x] = g[x] \cup Delivered(x, PushesSent(t, n))
  OBVIOUS
<1>. HIDE DEF f
<1>6. /\ inbox' \in [Node -> SUBSET Message]
      /\ \A x \in Node : \A m \in inbox'[x] : \E k \in f[x] : m.entries = k.entries
  BY <1>1, <1>4, SettledFacts
<1>7. /\ keep' \in [Driver -> SUBSET Message]
      /\ \A u \in Driver : \A m \in keep'[u] : \E k \in h[u] : m.entries = k.entries
  BY <1>1, <1>3, SettledFacts
<1>. QED  BY <1>2, <1>3, <1>5, <1>6, <1>7

-----------------------------------------------------------------------------
(* Types *)

\* The types hold initially.
LEMMA InitType == Init => TypeOK
<1>1. 0 \in 0..MaxRounds
  BY GossipAssumption
<1>. QED  BY <1>1 DEF Init, TypeOK, Phase, Moves

\* The history keeps its types when other drivers move.
LEMMA SeenType ==
    ASSUME TypeOK, NEW t \in Driver, Seen(t) PROVE moved' \in [Driver -> Moves]
BY DEF TypeOK, Seen, Moves

\* ... and so do todo and phase when a driver has visited a node.
LEMMA VisitedType ==
    ASSUME TypeOK, NEW t \in Driver, NEW n \in Node, NEW next \in Phase, Visited(t, n, next)
    PROVE  /\ todo' \in [Driver -> SUBSET Node]
           /\ phase' \in [Driver -> Phase]
           /\ moved' \in [Driver -> Moves]
<1>1. todo' \in [Driver -> SUBSET Node] /\ phase' \in [Driver -> Phase]
  BY DEF TypeOK, Visited
<1>. QED  BY <1>1, SeenType DEF Visited

\* Every step keeps the types.
LEMMA TypeStep == TypeOK /\ [Next]_vars => TypeOK'
<1>. SUFFICES ASSUME TypeOK, [Next]_vars PROVE TypeOK'
  OBVIOUS
<1>. USE GossipAssumption
<1>1. ASSUME NEW t \in Driver, StartRound(t) PROVE TypeOK'
  <2>1. ids' \in [Driver -> SUBSET Node]
    BY <1>1 DEF StartRound, TypeOK
  <2>2. todo' \in [Driver -> SUBSET Node] /\ phase' \in [Driver -> Phase]
    BY <1>1, <2>1 DEF StartRound, TypeOK, Phase
  <2>3. moved' \in [Driver -> Moves]
    BY <1>1 DEF StartRound, TypeOK, Moves
  <2>4. rounds' \in [Driver -> 0..MaxRounds]
    BY <1>1 DEF StartRound, TypeOK
  <2>. QED  BY <1>1, <2>1, <2>2, <2>3, <2>4 DEF StartRound, TypeOK, net
<1>2. ASSUME NEW t \in Driver, NEW n \in Node, Advertise(t, n) PROVE TypeOK'
  <2>1. inbox' \in [Node -> SUBSET Message] /\ keep' \in [Driver -> SUBSET Message]
    BY <1>2, AdvertiseFacts
  <2>2. Visited(t, n, "answer") /\ "answer" \in Phase
    BY <1>2 DEF Advertise, Phase
  <2>3. /\ todo' \in [Driver -> SUBSET Node]
        /\ phase' \in [Driver -> Phase]
        /\ moved' \in [Driver -> Moves]
    BY <2>2, VisitedType
  <2>. QED  BY <1>2, <2>1, <2>3 DEF Advertise, TypeOK
<1>3. ASSUME NEW t \in Driver, NEW n \in Node, Drain(t, n) PROVE TypeOK'
  <2>1. out' \in [Driver -> SUBSET Message] /\ keep' \in [Driver -> SUBSET Message]
    BY <1>3 DEF Drain, TypeOK
  <2>2. moved' \in [Driver -> Moves]
    BY <1>3, SeenType DEF Drain
  <2>. QED  BY <1>3, <2>1, <2>2 DEF Drain, TypeOK, net
<1>4. ASSUME NEW t \in Driver, NEW n \in Node, Answer(t, n) PROVE TypeOK'
  <2>1. inbox' \in [Node -> SUBSET Message] /\ keep' \in [Driver -> SUBSET Message]
    BY <1>4, AnswerFacts
  <2>2. Visited(t, n, "ingest") /\ "ingest" \in Phase
    BY <1>4 DEF Answer, Phase
  <2>3. /\ todo' \in [Driver -> SUBSET Node]
        /\ phase' \in [Driver -> Phase]
        /\ moved' \in [Driver -> Moves]
    BY <2>2, VisitedType
  <2>. QED  BY <1>4, <2>1, <2>3 DEF Answer, Emptied, TypeOK
<1>5. ASSUME NEW t \in Driver, NEW n \in Node, Ingest(t, n) PROVE TypeOK'
  <2>1. inbox' \in [Node -> SUBSET Message] /\ keep' \in [Driver -> SUBSET Message]
    BY <1>5 DEF Ingest, TypeOK
  <2>2. Visited(t, n, "idle") /\ "idle" \in Phase
    BY <1>5 DEF Ingest, Phase
  <2>3. /\ todo' \in [Driver -> SUBSET Node]
        /\ phase' \in [Driver -> Phase]
        /\ moved' \in [Driver -> Moves]
    BY <2>2, VisitedType
  <2>4. log' \in [Node -> SUBSET Entry]
    BY <1>5 DEF Ingest, TypeOK, Admitted
  <2>. QED  BY <1>5, <2>1, <2>3, <2>4 DEF Ingest, Emptied, TypeOK
<1>6. ASSUME NEW t \in Driver, Fail(t) PROVE TypeOK'
  BY <1>6 DEF Fail, TypeOK, Phase, Moves, net
<1>7. ASSUME BetweenRounds PROVE ids' \in [Driver -> SUBSET Node] /\ moved' \in [Driver -> Moves]
  BY <1>7 DEF BetweenRounds, TypeOK, Moves
<1>8. ASSUME NEW n \in Node, NEW e \in Entry, Publish(n, e) PROVE TypeOK'
  BY <1>7, <1>8 DEF Publish, BetweenRounds, TypeOK
<1>9. ASSUME NEW n \in Node, TakeDown(n) \/ Restore(n) \/ Isolate(n) PROVE TypeOK'
  BY <1>7, <1>9 DEF TakeDown, Restore, Isolate, BetweenRounds, TypeOK
<1>10. CASE Heal
  BY <1>7, <1>10 DEF Heal, BetweenRounds, TypeOK
<1>11. CASE UNCHANGED vars
  BY <1>11 DEF vars, TypeOK
<1>. QED
  BY <1>1, <1>2, <1>3, <1>4, <1>5, <1>6, <1>8, <1>9, <1>10, <1>11 DEF Next

\* The variables of Gossip keep their types, whatever the mesh and the bounds.
THEOREM TypeCorrect == Spec => []TypeOK
BY InitType, TypeStep, PTL DEF Spec

-----------------------------------------------------------------------------
(* The inductive invariant *)

\* The invariant holds initially.
LEMMA InitIInv == Init => IInv
<1>. SUFFICES ASSUME Init PROVE IInv
  OBVIOUS
<1>1. TypeOK
  BY InitType
<1>2. HoldsOnlyWhileDraining /\ CarriesHeld /\ AtHome
  BY DEF Init, HoldsOnlyWhileDraining, CarriesHeld, AtHome
<1>3. SidesKept
  BY DEF Init, SidesKept, OnSide
<1>. QED  BY <1>1, <1>2, <1>3 DEF IInv

\* A driver's hands are empty outside a drain.
LEMMA HoldsStep ==
    TypeOK /\ HoldsOnlyWhileDraining /\ [Next]_vars => HoldsOnlyWhileDraining'
<1>. SUFFICES ASSUME TypeOK, HoldsOnlyWhileDraining, [Next]_vars
              PROVE  HoldsOnlyWhileDraining'
  OBVIOUS
<1>. USE DEF HoldsOnlyWhileDraining
<1>1. ASSUME NEW t \in Driver, StartRound(t) PROVE HoldsOnlyWhileDraining'
  BY <1>1 DEF StartRound, TypeOK
<1>2. ASSUME NEW t \in Driver, NEW n \in Node, Advertise(t, n)
      PROVE  HoldsOnlyWhileDraining'
  <2>1. \A u \in Driver : keep[u] = {} => keep'[u] = {}
    BY <1>2, AdvertiseFacts
  <2>2. \A u \in Driver : drained[u] => phase'[u] = phase[u]
    BY <1>2 DEF Advertise, Visited, TypeOK
  <2>. QED  BY <1>2, <2>1, <2>2 DEF Advertise
<1>3. ASSUME NEW t \in Driver, NEW n \in Node, Drain(t, n)
      PROVE  HoldsOnlyWhileDraining'
  BY <1>3 DEF Drain, TypeOK
<1>4. ASSUME NEW t \in Driver, NEW n \in Node, Answer(t, n)
      PROVE  HoldsOnlyWhileDraining'
  <2>1. \A u \in Driver : u = t \/ keep[u] = {} => keep'[u] = {}
    BY <1>4, AnswerFacts
  <2>2. \A u \in Driver : u # t => phase'[u] = phase[u]
    BY <1>4 DEF Answer, Visited, TypeOK
  <2>. QED  BY <1>4, <2>1, <2>2 DEF Answer, Emptied, TypeOK
<1>5. ASSUME NEW t \in Driver, NEW n \in Node, Ingest(t, n)
      PROVE  HoldsOnlyWhileDraining'
  <2>2. \A u \in Driver : u # t => phase'[u] = phase[u]
    BY <1>5 DEF Ingest, Visited, TypeOK
  <2>. QED  BY <1>5, <2>2 DEF Ingest, Emptied, TypeOK
<1>6. ASSUME NEW t \in Driver, Fail(t) PROVE HoldsOnlyWhileDraining'
  BY <1>6 DEF Fail, TypeOK
<1>7. ASSUME NEW n \in Node, NEW e \in Entry, Publish(n, e)
      PROVE  HoldsOnlyWhileDraining'
  BY <1>7 DEF Publish, BetweenRounds
<1>8. CASE Heal
  BY <1>8 DEF Heal, BetweenRounds
<1>9. CASE UNCHANGED vars
  BY <1>9 DEF vars
<1>10. ASSUME NEW n \in Node, TakeDown(n) \/ Restore(n) \/ Isolate(n)
       PROVE  HoldsOnlyWhileDraining'
  BY <1>10 DEF TakeDown, Restore, Isolate, BetweenRounds
<1>. HIDE DEF HoldsOnlyWhileDraining
<1>. QED
  BY <1>1, <1>2, <1>3, <1>4, <1>5, <1>6, <1>7, <1>8, <1>9, <1>10, GossipAssumption DEF Next

\* No step takes an entry from a replica.
LEMMA LogsGrow ==
    ASSUME TypeOK, [Next]_vars, NEW x \in Node PROVE log[x] \subseteq log'[x]
<1>1. ASSUME NEW t \in Driver, NEW n \in Node, Ingest(t, n) PROVE log[x] \subseteq log'[x]
  BY <1>1 DEF Ingest, TypeOK
<1>2. ASSUME NEW n \in Node, NEW e \in Entry, Publish(n, e) PROVE log[x] \subseteq log'[x]
  BY <1>2 DEF Publish, TypeOK
<1>3. ASSUME NEW t \in Driver, NEW n \in Node,
             Advertise(t, n) \/ Drain(t, n) \/ Answer(t, n)
      PROVE  log[x] \subseteq log'[x]
  BY <1>3 DEF Advertise, Drain, Answer, net
<1>4. ASSUME NEW t \in Driver, StartRound(t) \/ Fail(t) PROVE log[x] \subseteq log'[x]
  BY <1>4 DEF StartRound, Fail, net
<1>5. ASSUME NEW n \in Node, TakeDown(n) \/ Restore(n) \/ Isolate(n)
      PROVE  log[x] \subseteq log'[x]
  BY <1>5 DEF TakeDown, Restore, Isolate
<1>6. CASE Heal \/ UNCHANGED vars
  BY <1>6 DEF Heal, vars
<1>. QED  BY <1>1, <1>2, <1>3, <1>4, <1>5, <1>6, GossipAssumption DEF Next

\* Where the messages in the inboxes come from: they were there, a driver
\* put them back, or a node sent them over a link that works.
InboxFrom ==
    \A x \in Node : \A m \in inbox'[x] :
        \/ \E k \in inbox[x] : m.entries = k.entries
        \/ \E t \in Driver : Turn(t, x) /\ \E k \in keep[t] : m.entries = k.entries
        \/ \E n \in Node : m.entries \subseteq log[n] /\ Reach(n, x)

\* ... and those in a driver's hands, while its turn is what it was.
HandsFrom ==
    \A t \in Driver : \A m \in out'[t] \cup keep'[t] :
        /\ todo'[t] = todo[t]
        /\ \/ \E k \in out[t] \cup keep[t] : m.entries = k.entries
           \/ \E n \in Node : Turn(t, n) /\ \E k \in inbox[n] : m.entries = k.entries

\* No message comes from anywhere else.
LEMMA MessagesFrom ==
    ASSUME TypeOK, HoldsOnlyWhileDraining, [Next]_vars PROVE InboxFrom /\ HandsFrom
<1>1. ASSUME NEW t \in Driver, StartRound(t) PROVE InboxFrom /\ HandsFrom
  <2>1. out[t] = {} /\ keep[t] = {}
    BY <1>1 DEF StartRound, HoldsOnlyWhileDraining
  <2>2. \A u \in Driver : u # t => todo'[u] = todo[u]
    BY <1>1 DEF StartRound, TypeOK
  <2>. QED  BY <1>1, <2>1, <2>2 DEF StartRound, net, InboxFrom, HandsFrom
<1>2. ASSUME NEW t \in Driver, NEW n \in Node, Advertise(t, n) PROVE InboxFrom /\ HandsFrom
  <2>1. InboxFrom
    BY <1>2, AdvertiseFacts DEF InboxFrom
  <2>2. out[t] = {} /\ keep[t] = {}
    BY <1>2 DEF Advertise, HoldsOnlyWhileDraining
  <2>3. \A u \in Driver : u # t => todo'[u] = todo[u]
    BY <1>2 DEF Advertise, Visited, TypeOK
  <2>4. \A u \in Driver : \A m \in keep'[u] : \E k \in keep[u] : m.entries = k.entries
    BY <1>2, AdvertiseFacts
  <2>5. out' = out
    BY <1>2 DEF Advertise
  <2>6. HandsFrom
    BY <2>2, <2>3, <2>4, <2>5 DEF HandsFrom
  <2>. QED  BY <2>1, <2>6
<1>3. ASSUME NEW t \in Driver, NEW n \in Node, Drain(t, n) PROVE InboxFrom /\ HandsFrom
  <2>1. inbox' = inbox /\ todo' = todo /\ Turn(t, n)
    BY <1>3 DEF Drain, net
  <2>2. \A u \in Driver : u # t => out'[u] = out[u] /\ keep'[u] = keep[u]
    BY <1>3 DEF Drain, TypeOK
  <2>3. out'[t] \cup keep'[t] \subseteq inbox[n]
    BY <1>3 DEF Drain, TypeOK
  <2>. QED  BY <2>1, <2>2, <2>3 DEF InboxFrom, HandsFrom
<1>4. ASSUME NEW t \in Driver, NEW n \in Node, Answer(t, n) PROVE InboxFrom /\ HandsFrom
  <2>1. Turn(t, n)
    BY <1>4 DEF Answer
  <2>2. InboxFrom
    BY <1>4, <2>1, AnswerFacts DEF InboxFrom
  <2>3. \A u \in Driver : u # t => todo'[u] = todo[u] /\ out'[u] = out[u]
    BY <1>4 DEF Answer, Emptied, Visited, TypeOK
  <2>4. \A u \in Driver : \A m \in keep'[u] : u # t /\ \E k \in keep[u] : m.entries = k.entries
    BY <1>4, AnswerFacts
  <2>5. out'[t] = {}
    BY <1>4 DEF Answer, Emptied, TypeOK
  <2>6. HandsFrom
    BY <2>3, <2>4, <2>5 DEF HandsFrom
  <2>. QED  BY <2>2, <2>6
<1>5. ASSUME NEW t \in Driver, NEW n \in Node, Ingest(t, n) PROVE InboxFrom /\ HandsFrom
  <2>1. Turn(t, n)
    BY <1>5 DEF Ingest
  <2>2. \A x \in Node : inbox'[x] = IF x = n THEN keep[t] ELSE inbox[x]
    BY <1>5 DEF Ingest, TypeOK
  <2>3. \A u \in Driver : u # t => todo'[u] = todo[u] /\ out'[u] = out[u] /\ keep'[u] = keep[u]
    BY <1>5 DEF Ingest, Emptied, Visited, TypeOK
  <2>4. out'[t] = {} /\ keep'[t] = {}
    BY <1>5 DEF Ingest, Emptied, TypeOK
  <2>. QED  BY <2>1, <2>2, <2>3, <2>4 DEF InboxFrom, HandsFrom
<1>6. ASSUME NEW t \in Driver, Fail(t) PROVE InboxFrom /\ HandsFrom
  BY <1>6 DEF Fail, net, InboxFrom, HandsFrom
<1>7. ASSUME NEW n \in Node, NEW e \in Entry, Publish(n, e) PROVE InboxFrom /\ HandsFrom
  BY <1>7 DEF Publish, BetweenRounds, InboxFrom, HandsFrom
<1>8. ASSUME NEW n \in Node, TakeDown(n) \/ Restore(n) \/ Isolate(n)
      PROVE  InboxFrom /\ HandsFrom
  BY <1>8 DEF TakeDown, Restore, Isolate, BetweenRounds, InboxFrom, HandsFrom
<1>9. CASE Heal
  BY <1>9 DEF Heal, BetweenRounds, InboxFrom, HandsFrom
<1>10. CASE UNCHANGED vars
  BY <1>10 DEF vars, InboxFrom, HandsFrom
<1>. QED
  BY <1>1, <1>2, <1>3, <1>4, <1>5, <1>6, <1>7, <1>8, <1>9, <1>10, GossipAssumption DEF Next

\* Where the entries that replicas gain come from: their node signed them, or
\* it ingests sound ones from a driver whose turn it is.
LEMMA EntriesFrom ==
    ASSUME TypeOK, [Next]_vars, NEW x \in Node, NEW e \in log'[x] \ log[x]
    PROVE  \/ e \in Entry /\ Publish(x, e)
           \/ \E t \in Driver : /\ Turn(t, x) /\ Ingest(t, x)
                                /\ e \in Sound
                                /\ \E k \in out[t] : e \in k.entries
<1>1. ASSUME NEW t \in Driver, NEW n \in Node, Ingest(t, n)
      PROVE  /\ x = n /\ Turn(t, x) /\ e \in Sound
             /\ \E k \in out[t] : e \in k.entries
  BY <1>1 DEF Ingest, Admitted, TypeOK
<1>2. ASSUME NEW n \in Node, NEW f \in Entry, Publish(n, f) PROVE x = n /\ e = f
  BY <1>2 DEF Publish, TypeOK
<1>3. ASSUME NEW t \in Driver, NEW n \in Node,
             Advertise(t, n) \/ Drain(t, n) \/ Answer(t, n)
      PROVE  FALSE
  BY <1>3 DEF Advertise, Drain, Answer, net
<1>4. ASSUME NEW t \in Driver, StartRound(t) \/ Fail(t) PROVE FALSE
  BY <1>4 DEF StartRound, Fail, net
<1>5. ASSUME NEW n \in Node, TakeDown(n) \/ Restore(n) \/ Isolate(n) PROVE FALSE
  BY <1>5 DEF TakeDown, Restore, Isolate
<1>6. CASE Heal \/ UNCHANGED vars
  BY <1>6 DEF Heal, vars
<1>. QED  BY <1>1, <1>2, <1>3, <1>4, <1>5, <1>6, GossipAssumption DEF Next

\* Messages carry what some replica holds.
LEMMA CarriesStep ==
    TypeOK /\ HoldsOnlyWhileDraining /\ CarriesHeld /\ [Next]_vars => CarriesHeld'
<1>. SUFFICES ASSUME TypeOK, HoldsOnlyWhileDraining, CarriesHeld, [Next]_vars
              PROVE  CarriesHeld'
  OBVIOUS
<1>1. Held \subseteq Held'
  BY LogsGrow DEF Held
<1>2. InboxFrom /\ HandsFrom
  BY MessagesFrom
<1>3. \A n \in Node : log[n] \subseteq Held
  BY DEF Held
<1>4. ASSUME NEW x \in Node, NEW m \in inbox'[x] PROVE m.entries \subseteq Held
  BY <1>2, <1>3 DEF InboxFrom, CarriesHeld
<1>5. ASSUME NEW t \in Driver, NEW m \in out'[t] \cup keep'[t]
      PROVE  m.entries \subseteq Held
  BY <1>2 DEF HandsFrom, CarriesHeld
<1>. QED  BY <1>1, <1>4, <1>5 DEF CarriesHeld

\* What some replica holds, its author's replica holds.
LEMMA HeldAtHome ==
    ASSUME AtHome, NEW m \in Node, NEW e \in Own[m], e \in Held
    PROVE  e \in log[m]
BY DEF AtHome, Held

\* Entries stay at home first.
LEMMA AtHomeStep == TypeOK /\ CarriesHeld /\ AtHome /\ [Next]_vars => AtHome'
<1>. SUFFICES ASSUME TypeOK, CarriesHeld, AtHome, [Next]_vars,
                     NEW m \in Node, NEW x \in Node, NEW e \in Own[m] \cap log'[x]
              PROVE  e \in log'[m]
  BY DEF AtHome
<1>1. CASE e \in log[x]
  BY <1>1, LogsGrow DEF AtHome
<1>2. CASE e \in Entry /\ Publish(x, e)
  BY <1>2, GossipAssumption DEF Publish, TypeOK
<1>3. ASSUME NEW t \in Driver, NEW k \in out[t], e \in k.entries PROVE e \in log'[m]
  <2>1. e \in Held
    BY <1>3 DEF CarriesHeld
  <2>. QED  BY <2>1, HeldAtHome, LogsGrow
<1>. QED  BY <1>1, <1>2, <1>3, EntriesFrom

-----------------------------------------------------------------------------
(* Gossip implements the grow-only set *)

\* A step adds to the replicas what GrowOnlySet allows, or nothing.
LEMMA GrowStep ==
    TypeOK /\ TypeOK' /\ CarriesHeld /\ [Next]_vars => [Replicas!Grow]_log
<1>. SUFFICES ASSUME TypeOK, TypeOK', CarriesHeld, [Next]_vars PROVE Replicas!Grow
  OBVIOUS
<1>1. log' \in [Node -> SUBSET Entry]
  BY DEF TypeOK
<1>2. ASSUME NEW n \in Node, NEW e \in log'[n] \ log[n]
      PROVE  e \in Own[n] \cup (Held \cap Sound)
  <2>1. CASE Publish(n, e)
    BY <2>1 DEF Publish
  <2>2. ASSUME NEW t \in Driver, e \in Sound, NEW k \in out[t], e \in k.entries
        PROVE  e \in Held \cap Sound
    BY <2>2 DEF CarriesHeld
  <2>. QED  BY <1>2, <2>1, <2>2, EntriesFrom
<1>3. \A n \in Node : log[n] \subseteq log'[n]
  BY LogsGrow
<1>. QED  BY <1>1, <1>2, <1>3 DEF Replicas!Grow, Replicas!Held, Held

-----------------------------------------------------------------------------
(* A partition stops gossip *)

\* Entries stay on the side of the partition that they were signed on.
LEMMA SidesStep ==
    /\ TypeOK /\ HoldsOnlyWhileDraining /\ CarriesHeld /\ AtHome
    /\ SidesKept /\ [Next]_vars
    => SidesKept'
<1>. SUFFICES ASSUME TypeOK, HoldsOnlyWhileDraining, CarriesHeld, AtHome, SidesKept,
                     [Next]_vars
              PROVE  SidesKept'
  OBVIOUS
<1>1. InboxFrom /\ HandsFrom
  BY MessagesFrom
<1>2. CASE since' = {}
  BY <1>2 DEF SidesKept, OnSide
<1>3. CASE since' = since /\ cut' = cut /\ \A n \in Node, e \in Entry : ~Publish(n, e)
  <2>1. \A x, E : OnSide(x, E)' <=> OnSide(x, E)
    BY <1>3 DEF OnSide
  <2>2. ASSUME NEW x \in Node PROVE OnSide(x, log'[x])
    BY <1>3, EntriesFrom DEF SidesKept, OnSide
  <2>3. ASSUME NEW x \in Node, NEW m \in inbox'[x] PROVE OnSide(x, m.entries)
    <3>1. ASSUME NEW n \in Node, m.entries \subseteq log[n], Reach(n, x)
          PROVE  OnSide(x, m.entries)
      BY <3>1 DEF SidesKept, OnSide, Reach
    <3>. QED  BY <1>1, <3>1 DEF InboxFrom, SidesKept
  <2>4. ASSUME NEW t \in Driver, NEW n \in Node, Turn(t, n)',
               NEW m \in out'[t] \cup keep'[t]
        PROVE  OnSide(n, m.entries)
    <3>1. todo'[t] = todo[t]
      BY <1>1 DEF HandsFrom
    <3>2. Turn(t, n)
      BY <2>4, <3>1 DEF Turn
    <3>3. ASSUME NEW p \in Node, Turn(t, p) PROVE p = n
      BY <3>2, <3>3, GossipAssumption DEF Turn
    <3>. QED  BY <1>1, <3>2, <3>3 DEF HandsFrom, SidesKept
  <2>. QED  BY <1>3, <2>1, <2>2, <2>3, <2>4 DEF SidesKept
<1>4. ASSUME NEW n \in Node, NEW e \in Entry, Publish(n, e), since' # {}
      PROVE  SidesKept'
  <2>1. /\ cut' = cut /\ inbox' = inbox /\ out' = out /\ keep' = keep /\ todo' = todo
        /\ log' = [log EXCEPT ![n] = @ \cup {e}]
        /\ e \in Own[n] /\ e \notin log[n]
        /\ since' \subseteq since \cup {e} /\ cut # {}
    BY <1>4 DEF Publish, BetweenRounds, SidesKept
  <2>2. e \notin Held
    BY <2>1, HeldAtHome
  <2>3. ASSUME NEW x \in Node, NEW E, OnSide(x, E), e \notin E PROVE OnSide(x, E)'
    BY <2>1, <2>3 DEF OnSide
  <2>4. ASSUME NEW x \in Node PROVE OnSide(x, log[x])'
    <3>1. CASE x # n
      <4>1. log'[x] = log[x] /\ e \notin log[x]
        BY <2>1, <2>2, <3>1 DEF Held, TypeOK
      <4>. QED  BY <2>1, <4>1 DEF OnSide, SidesKept
    <3>2. CASE x = n
      <4>1. log'[x] = log[n] \cup {e} /\ OnSide(n, log[n])
        BY <2>1, <3>2 DEF TypeOK, SidesKept
      <4>2. \A m \in Node : e \in Own[m] => m = n
        BY <2>1, GossipAssumption
      <4>. QED  BY <2>1, <3>2, <4>1, <4>2 DEF OnSide
    <3>. QED  BY <3>1, <3>2
  <2>5. ASSUME NEW x \in Node, NEW m \in inbox[x] PROVE OnSide(x, m.entries)'
    <3>1. e \notin m.entries /\ OnSide(x, m.entries)
      BY <2>2 DEF CarriesHeld, SidesKept
    <3>. QED  BY <2>1, <3>1 DEF OnSide
  <2>6. ASSUME NEW t \in Driver, NEW x \in Node, Turn(t, x), NEW m \in out[t] \cup keep[t]
        PROVE  OnSide(x, m.entries)'
    <3>1. e \notin m.entries /\ OnSide(x, m.entries)
      BY <2>2, <2>6 DEF CarriesHeld, SidesKept
    <3>. QED  BY <2>1, <3>1 DEF OnSide
  <2>. QED  BY <2>1, <2>4, <2>5, <2>6 DEF SidesKept, Turn
<1>5. \/ since' = {} \/ (since' = since /\ cut' = cut)
      \/ \E n \in Node, e \in Entry : Publish(n, e)
  <2>1. ASSUME NEW t \in Driver, NEW n \in Node,
               Advertise(t, n) \/ Drain(t, n) \/ Answer(t, n) \/ Ingest(t, n)
        PROVE  since' = since /\ cut' = cut
    BY <2>1 DEF Advertise, Drain, Answer, Ingest, net
  <2>2. ASSUME NEW t \in Driver, StartRound(t) \/ Fail(t)
        PROVE  since' = since /\ cut' = cut
    BY <2>2 DEF StartRound, Fail, net
  <2>3. ASSUME NEW n \in Node, TakeDown(n) \/ Restore(n) \/ Isolate(n)
        PROVE  since' = {} \/ (since' = since /\ cut' = cut)
    BY <2>3 DEF TakeDown, Restore, Isolate
  <2>4. CASE Heal \/ UNCHANGED vars
    BY <2>4 DEF Heal, vars
  <2>. QED  BY <2>1, <2>2, <2>3, <2>4, GossipAssumption DEF Next
<1>. QED  BY <1>2, <1>3, <1>4, <1>5

-----------------------------------------------------------------------------
(* A round is enough *)

\* What the nodes of t's round hold that y reaches.
Around(t, y) == UNION {log[x] : x \in {z \in ids[t] : Reach(z, y)}}

\* In the middle of its drain a mailbox is in the driver's hands: what is due,
\* which the drain returns, and what is not, which it puts back.
Drawn(t, y) == IF drained[t] /\ Turn(t, y) THEN out[t] ELSE inbox[y]
Left(t, y)  == IF drained[t] /\ Turn(t, y) THEN keep[t] ELSE inbox[y]

\* Among the messages M one tells what x holds.
IsHeadOf(m, x) == m.type = "HEAD" /\ m.from = x /\ m.entries = log[x]

\* Message m brings y what x has and y lacks.
IsPushOf(m, x, y) == m.type = "PUSH" /\ log[x] \ log[y] \subseteq m.entries

Pushed(M) == UNION {m.entries : m \in {p \in M : p.type = "PUSH" /\ p.due}}

Caught(t, y) == Around(t, y) \cap Sound \subseteq log[y]

\* Those that have advertised have told everybody they reach.
Advertised(t) ==
    \A x \in ids[t] \ todo[t], y \in ids[t] :
        x # y /\ Reach(x, y) => \E m \in inbox[y] : IsHeadOf(m, x)

\* Those that are to answer find all advertisements due; those that did have
\* pushed what is lacking, which nobody drains in this phase, for it is not due;
\* of what an ingestion will find, nothing comes from beyond reach.
Answered(t) ==
    /\ \A x \in todo[t], y \in ids[t] :
          x # y /\ Reach(x, y) => \E m \in Drawn(t, x) : IsHeadOf(m, y) /\ m.due
    /\ \A x \in ids[t] \ todo[t], y \in ids[t] :
          x # y /\ Reach(x, y) =>
             \/ log[x] \subseteq log[y]
             \/ \E m \in Left(t, y) : IsPushOf(m, x, y) /\ ~m.due
    /\ \A y \in ids[t] : \A m \in Left(t, y) :
          m.type = "PUSH" /\ (m.due => y \notin todo[t]) => m.entries \subseteq Around(t, y)

\* Those that are to ingest find all that they lack due; the others have it.
Ingested(t) ==
    /\ \A y \in todo[t] :
          /\ Around(t, y) \cap Sound \subseteq log[y] \cup Pushed(Drawn(t, y))
          /\ \A m \in Drawn(t, y) : m.type = "PUSH" => m.entries \subseteq Around(t, y)
    /\ \A y \in ids[t] \ todo[t] : Caught(t, y)

\* What is true of a round while nothing else moves.
RoundInv(t) ==
    moved[t] = "nothing" =>
        /\ \A u \in Driver \ {t} : ~Busy(u)
        /\ Busy(t) => todo[t] \subseteq ids[t]
        /\ drained[t] => \A m \in keep[t] : ~m.due
        /\ phase[t] = "advertise" => Advertised(t)
        /\ phase[t] = "answer" => Answered(t)
        /\ phase[t] = "ingest" => Ingested(t)
        /\ phase[t] = "idle" => \A y \in ids[t] : Caught(t, y)

\* The passing of time makes messages due, and changes nothing else of them.
LEMMA LandedMeans ==
    ASSUME NEW S \in SUBSET Message
    PROVE  /\ \A m \in Landed(S) : m.due /\ \E k \in S :
                 k.type = m.type /\ k.from = m.from /\ k.entries = m.entries
           /\ \A k \in S : \E m \in Landed(S) :
                 m.due /\ k.type = m.type /\ k.from = m.from /\ k.entries = m.entries
<1>1. ASSUME NEW k \in S
      PROVE  /\ [k EXCEPT !.due = TRUE].due
             /\ [k EXCEPT !.due = TRUE].type = k.type
             /\ [k EXCEPT !.due = TRUE].from = k.from
             /\ [k EXCEPT !.due = TRUE].entries = k.entries
  BY DEF Message
<1>2. \A m \in Landed(S) : \E k \in S : m = [k EXCEPT !.due = TRUE]
  BY DEF Landed
<1>3. \A k \in S : [k EXCEPT !.due = TRUE] \in Landed(S)
  BY DEF Landed
<1>4. ASSUME NEW m \in Landed(S)
      PROVE  m.due /\ \E k \in S :
                k.type = m.type /\ k.from = m.from /\ k.entries = m.entries
  <2>1. PICK k \in S : m = [k EXCEPT !.due = TRUE]
    BY <1>2
  <2>2. k.type = m.type /\ k.from = m.from /\ k.entries = m.entries
    BY <1>1, <2>1
  <2>. QED  BY <1>1, <2>1, <2>2
<1>5. ASSUME NEW k \in S
      PROVE  \E m \in Landed(S) :
                m.due /\ k.type = m.type /\ k.from = m.from /\ k.entries = m.entries
  <2>. DEFINE m == [k EXCEPT !.due = TRUE]
  <2>1. m \in Landed(S) /\ m.due
    BY <1>1, <1>3
  <2>2. k.type = m.type /\ k.from = m.from /\ k.entries = m.entries
    BY <1>1
  <2>. HIDE DEF m
  <2>. QED  BY <2>1, <2>2
<1>. QED  BY <1>4, <1>5

\* The turn is one node's.
LEMMA OneTurn ==
    ASSUME NEW t, NEW m \in Node, NEW n \in Node, Turn(t, m), Turn(t, n)
    PROVE  m = n
BY GossipAssumption DEF Turn

\* Only the driver's own steps leave its round alone.
LEMMA OwnSteps ==
    ASSUME TypeOK, [Next]_vars, NEW t \in Driver, moved'[t] = "nothing"
    PROVE  \/ StartRound(t) /\ \A u \in Driver \ {t} : ~Busy(u)
           \/ moved[t] = "nothing" /\ \E n \in Node :
                 Advertise(t, n) \/ Drain(t, n) \/ Answer(t, n) \/ Ingest(t, n)
           \/ UNCHANGED vars
<1>1. ASSUME NEW u \in Driver, Seen(u)
      PROVE  u = t /\ moved[t] = "nothing"
  BY <1>1 DEF Seen, TypeOK
<1>2. ASSUME NEW u \in Driver, StartRound(u)
      PROVE  u = t /\ \A v \in Driver \ {t} : ~Busy(v)
  BY <1>2 DEF StartRound
<1>3. ASSUME NEW u \in Driver, NEW n \in Node,
             Advertise(u, n) \/ Drain(u, n) \/ Answer(u, n) \/ Ingest(u, n)
      PROVE  Seen(u)
  BY <1>3 DEF Advertise, Drain, Answer, Ingest, Visited
<1>4. ASSUME NEW u \in Driver, Fail(u) PROVE FALSE
  BY <1>4 DEF Fail
<1>5. ~BetweenRounds
  BY DEF BetweenRounds
<1>. QED
  BY <1>1, <1>2, <1>3, <1>4, <1>5 DEF Next, Publish, TakeDown, Restore, Isolate, Heal

\* What a node's visit does to the driver's place, seen from its round.
LEMMA VisitedRound ==
    ASSUME TypeOK, NEW t \in Driver, NEW n \in Node, NEW next, Visited(t, n, next)
    PROVE  /\ todo[t] = {n} => todo'[t] = ids[t] /\ phase'[t] = next
           /\ todo[t] # {n} => todo'[t] = todo[t] \ {n} /\ phase'[t] = phase[t]
           /\ \A u \in Driver \ {t} : phase'[u] = phase[u]
           /\ moved'[t] = moved[t]
BY DEF Visited, Seen, TypeOK

\* A visit to a node changes nothing of who reaches whom.
LEMMA VisitKeeps ==
    ASSUME NEW t \in Driver, NEW n \in Node,
           Advertise(t, n) \/ Drain(t, n) \/ Answer(t, n) \/ Ingest(t, n)
    PROVE  ids' = ids /\ \A x, y : Reach(x, y)' <=> Reach(x, y)
BY DEF Advertise, Drain, Answer, Ingest, net, Reach

\* The other drivers stay as they are.
LEMMA OthersRest ==
    ASSUME NEW t \in Driver, RoundInv(t), moved[t] = "nothing",
           \A u \in Driver \ {t} : phase'[u] = phase[u]
    PROVE  \A u \in Driver \ {t} : ~Busy(u)'
BY DEF RoundInv, Busy

\* A node's advertisement keeps the round on course.
LEMMA AdvertiseRound ==
    ASSUME TypeOK, HoldsOnlyWhileDraining, NEW t \in Driver, NEW n \in Node,
           RoundInv(t), moved[t] = "nothing", Advertise(t, n)
    PROVE  RoundInv(t)'
<1>. DEFINE f == [x \in Node |-> inbox[x] \cup Delivered(x, HeadsSent(t, n))]
<1>1. /\ phase[t] = "advertise" /\ Turn(t, n) /\ Visited(t, n, "answer")
      /\ inbox' = Settled(t, n, f) /\ log' = log /\ drained' = drained /\ ~drained[t]
  BY DEF Advertise, HeadsSent, HoldsOnlyWhileDraining
<1>2. /\ Advertised(t) /\ todo[t] \subseteq ids[t] /\ ids[t] \subseteq Node /\ n \in todo[t]
      /\ ids' = ids
  BY <1>1, VisitKeeps DEF RoundInv, Busy, TypeOK, Turn
<1>3. f \in [Node -> SUBSET Message]
  BY HeadsFacts DEF TypeOK
<1>4. ASSUME NEW y \in ids[t], y # n, Reach(n, y)
      PROVE  \E m \in f[y] : IsHeadOf(m, n)
  <2>1. <<y, Head(n)>> \in HeadsSent(t, n)
    BY <1>4 DEF HeadsSent
  <2>2. Head(n) \in Delivered(y, HeadsSent(t, n))
    BY <1>4, <2>1, DeliveredHolds DEF Head
  <2>3. IsHeadOf(Head(n), n)
    BY DEF IsHeadOf, Head
  <2>. QED  BY <1>2, <2>2, <2>3
<1>5. ASSUME NEW x \in (ids[t] \ todo[t]) \cup {n}, NEW y \in ids[t], x # y, Reach(x, y)
      PROVE  \E m \in f[y] : IsHeadOf(m, x)
  <2>1. CASE x = n
    BY <1>4, <1>5, <2>1
  <2>2. CASE x # n
    <3>1. PICK m \in inbox[y] : IsHeadOf(m, x)
      BY <1>2, <1>5, <2>2 DEF Advertised
    <3>. QED  BY <1>2, <3>1
  <2>. QED  BY <2>1, <2>2
<1>. HIDE DEF f
<1>6. \A u \in Driver \ {t} : ~Busy(u)'
  BY <1>1, VisitedRound, OthersRest
<1>7. CASE todo[t] = {n}
  <2>1. todo'[t] = ids[t] /\ phase'[t] = "answer"
    BY <1>1, <1>7, VisitedRound
  <2>2. \A x \in Node : inbox'[x] = Landed(f[x]) /\ f[x] \in SUBSET Message
    BY <1>1, <1>3, <1>7 DEF Settled
  <2>3. ASSUME NEW x \in ids[t], NEW y \in ids[t], x # y, Reach(x, y)
        PROVE  \E m \in inbox'[x] : IsHeadOf(m, y)' /\ m.due
    <3>1. y \in (ids[t] \ todo[t]) \cup {n} /\ Reach(y, x)
      BY <1>7, <2>3 DEF Reach
    <3>2. PICK k \in f[x] : IsHeadOf(k, y)
      BY <1>5, <2>3, <3>1
    <3>3. PICK m \in Landed(f[x]) :
             m.due /\ k.type = m.type /\ k.from = m.from /\ k.entries = m.entries
      BY <1>2, <2>2, LandedMeans
    <3>. QED  BY <1>1, <1>2, <2>2, <3>2, <3>3 DEF IsHeadOf
  <2>4. \A y \in ids[t] : \A m \in inbox'[y] : m.due
    BY <1>2, <2>2, LandedMeans
  <2>5. \A y : Drawn(t, y)' = inbox'[y] /\ Left(t, y)' = inbox'[y]
    BY <1>1 DEF Drawn, Left
  <2>6. Answered(t)'
    BY <1>1, <1>2, <2>1, <2>3, <2>4, <2>5, VisitKeeps DEF Answered
  <2>. QED  BY <1>1, <1>2, <1>6, <2>1, <2>6 DEF RoundInv, Busy
<1>8. CASE todo[t] # {n}
  <2>1. todo'[t] = todo[t] \ {n} /\ phase'[t] = "advertise"
    BY <1>1, <1>8, VisitedRound
  <2>2. inbox' = f
    BY <1>1, <1>8 DEF Settled
  <2>3. \A m, x : IsHeadOf(m, x)' <=> IsHeadOf(m, x)
    BY <1>1 DEF IsHeadOf
  <2>4. Advertised(t)'
    BY <1>2, <1>5, <2>1, <2>2, <2>3, VisitKeeps DEF Advertised
  <2>. QED  BY <1>1, <1>2, <1>6, <2>1, <2>4 DEF RoundInv, Busy
<1>. QED  BY <1>7, <1>8

\* Reading the inbox of the node whose turn it is keeps the round on course.
LEMMA DrainRound ==
    ASSUME TypeOK, NEW t \in Driver, NEW n \in Node,
           RoundInv(t), moved[t] = "nothing", Drain(t, n)
    PROVE  RoundInv(t)'
<1>1. /\ Turn(t, n) /\ ~drained[t] /\ drained'[t]
      /\ out'[t] = {m \in inbox[n] : m.due} /\ keep'[t] = {m \in inbox[n] : ~m.due}
      /\ log' = log /\ inbox' = inbox /\ phase' = phase /\ todo' = todo /\ ids' = ids
      /\ Busy(t) /\ moved'[t] = "nothing"
  BY DEF Drain, net, TypeOK, Busy, Seen
<1>2. n \in todo[t] /\ todo[t] \subseteq ids[t] /\ ids[t] \subseteq Node
  BY <1>1 DEF RoundInv, TypeOK, Turn
<1>3. \A y \in Node : Turn(t, y)' <=> y = n
  BY <1>1, OneTurn DEF Turn
<1>4. \A y \in Node : Drawn(t, y) = inbox[y] /\ Left(t, y) = inbox[y]
  BY <1>1 DEF Drawn, Left
<1>5. \A y \in Node : /\ Drawn(t, y)' = IF y = n THEN out'[t] ELSE inbox[y]
                      /\ Left(t, y)' = IF y = n THEN keep'[t] ELSE inbox[y]
  BY <1>1, <1>3 DEF Drawn, Left
<1>6. /\ \A m, x : IsHeadOf(m, x)' <=> IsHeadOf(m, x)
      /\ \A m, x, y : IsPushOf(m, x, y)' <=> IsPushOf(m, x, y)
      /\ \A y : Caught(t, y)' <=> Caught(t, y)
      /\ \A y : Around(t, y)' = Around(t, y)
  BY <1>1, VisitKeeps DEF IsHeadOf, IsPushOf, Caught, Around
<1>7. ASSUME NEW y \in Node, NEW m \in inbox[y]
      PROVE  /\ m.due => m \in Drawn(t, y)'
             /\ ~m.due => m \in Left(t, y)'
  BY <1>1, <1>5
<1>8. \A y \in Node : Drawn(t, y)' \subseteq inbox[y] /\ Left(t, y)' \subseteq inbox[y]
  BY <1>1, <1>5
<1>9. ASSUME phase[t] = "answer" PROVE Answered(t)'
  <2>1. Answered(t)
    BY <1>9 DEF RoundInv
  <2>2. ASSUME NEW x \in todo[t], NEW y \in ids[t], x # y, Reach(x, y)
        PROVE  \E m \in Drawn(t, x)' : IsHeadOf(m, y)' /\ m.due
    BY <1>2, <1>4, <1>6, <1>7, <2>1, <2>2 DEF Answered
  <2>3. ASSUME NEW x \in ids[t] \ todo[t], NEW y \in ids[t], x # y, Reach(x, y)
        PROVE  \/ log[x] \subseteq log[y]
               \/ \E m \in Left(t, y)' : IsPushOf(m, x, y)' /\ ~m.due
    BY <1>2, <1>4, <1>6, <1>7, <2>1, <2>3 DEF Answered
  <2>4. ASSUME NEW y \in ids[t], NEW m \in Left(t, y)', m.type = "PUSH",
               m.due => y \notin todo[t]
        PROVE  m.entries \subseteq Around(t, y)
    BY <1>2, <1>4, <1>8, <2>1, <2>4 DEF Answered
  <2>. QED  BY <1>1, <1>6, <2>2, <2>3, <2>4, VisitKeeps DEF Answered
<1>10. ASSUME phase[t] = "ingest" PROVE Ingested(t)'
  <2>1. Ingested(t)
    BY <1>10 DEF RoundInv
  <2>2. ASSUME NEW y \in todo[t] PROVE Pushed(Drawn(t, y)) \subseteq Pushed(Drawn(t, y)')
    BY <1>2, <1>4, <1>7 DEF Pushed
  <2>3. \A y : Pushed(Drawn(t, y))' = Pushed(Drawn(t, y)')
    BY DEF Pushed
  <2>. QED  BY <1>1, <1>2, <1>4, <1>6, <1>8, <2>1, <2>2, <2>3 DEF Ingested
<1>. QED  BY <1>1, <1>9, <1>10 DEF RoundInv, Busy, Drain

\* The answer of a node keeps the round on course.
LEMMA AnswerRound ==
    ASSUME TypeOK, HoldsOnlyWhileDraining, NEW t \in Driver, NEW n \in Node,
           RoundInv(t), moved[t] = "nothing", Answer(t, n)
    PROVE  RoundInv(t)'
<1>. DEFINE g == [inbox EXCEPT ![n] = keep[t]]
            f == [x \in Node |-> g[x] \cup Delivered(x, PushesSent(t, n))]
<1>1. /\ phase[t] = "answer" /\ Turn(t, n) /\ drained[t] /\ Visited(t, n, "ingest")
      /\ inbox' = Settled(t, n, f) /\ log' = log /\ ~drained'[t]
  BY DEF Answer, Emptied, Heads, PushesSent, TypeOK
<1>2. /\ Answered(t) /\ todo[t] \subseteq ids[t] /\ ids[t] \subseteq Node /\ n \in todo[t]
      /\ ids' = ids
  BY <1>1, VisitKeeps DEF RoundInv, Busy, TypeOK, Turn
<1>3. /\ \A y \in Node : Drawn(t, y) = IF y = n THEN out[t] ELSE inbox[y]
      /\ \A y \in Node : Left(t, y) = IF y = n THEN keep[t] ELSE inbox[y]
  BY <1>1, OneTurn DEF Drawn, Left
<1>4. /\ f \in [Node -> SUBSET Message]
      /\ \A y \in Node : f[y] = Left(t, y) \cup Delivered(y, PushesSent(t, n))
  <2>1. g \in [Node -> SUBSET Message] /\ \A y \in Node : g[y] = Left(t, y)
    BY <1>3 DEF TypeOK
  <2>2. \A y \in Node : Delivered(y, PushesSent(t, n)) \subseteq Message
    BY PushesFacts
  <2>. QED  BY <2>1, <2>2
<1>. HIDE DEF f
<1>5. ASSUME NEW y \in ids[t], y # n, Reach(n, y), ~(log[n] \subseteq log[y])
      PROVE  \E m \in f[y] : IsPushOf(m, n, y) /\ ~m.due
  <2>1. PICK h \in out[t] : IsHeadOf(h, y)
    BY <1>2, <1>3, <1>5 DEF Answered
  <2>. DEFINE m == Push(n, Lacking(n, h.entries))
  <2>2. h \in Heads(t, n) /\ h.from = y
    BY <1>5, <2>1 DEF Heads, Lacking, IsHeadOf
  <2>3. <<y, m>> \in PushesSent(t, n)
    BY <2>2 DEF PushesSent
  <2>4. m.from = n /\ IsPushOf(m, n, y) /\ ~m.due
    BY <2>1 DEF Push, Lacking, IsPushOf, IsHeadOf
  <2>. HIDE DEF m
  <2>5. m \in Delivered(y, PushesSent(t, n))
    BY <1>5, <2>3, <2>4, DeliveredHolds
  <2>. QED  BY <1>2, <1>4, <2>4, <2>5
<1>6. ASSUME NEW x \in (ids[t] \ todo[t]) \cup {n}, NEW y \in ids[t], x # y, Reach(x, y)
      PROVE  \/ log[x] \subseteq log[y]
             \/ \E m \in f[y] : IsPushOf(m, x, y) /\ ~m.due
  <2>1. CASE x = n
    BY <1>5, <1>6, <2>1
  <2>2. CASE x # n
    BY <1>2, <1>4, <1>6, <2>2 DEF Answered
  <2>. QED  BY <2>1, <2>2
<1>7. ASSUME NEW y \in ids[t], NEW m \in f[y], m.type = "PUSH",
             m.due => y \notin todo[t] \/ y = n
      PROVE  m.entries \subseteq Around(t, y)
  <2>1. CASE m \in Delivered(y, PushesSent(t, n))
    <3>1. m.entries \subseteq log[n] /\ Reach(n, y)
      BY <1>2, <2>1, PushesFacts
    <3>. QED  BY <1>2, <3>1 DEF Around
  <2>2. CASE m \in Left(t, y)
    <3>1. m.due => y \notin todo[t]
      \* What the drain of n put back is not due.
      <4>1. y = n => m \in keep[t]
        BY <1>2, <1>3, <2>2
      <4>2. \A k \in keep[t] : ~k.due
        BY <1>1 DEF RoundInv
      <4>. QED  BY <1>7, <4>1, <4>2
    <3>. QED  BY <1>2, <1>7, <2>2, <3>1 DEF Answered
  <2>. QED  BY <1>2, <1>4, <1>7, <2>1, <2>2
<1>8. \A u \in Driver \ {t} : ~Busy(u)'
  BY <1>1, VisitedRound, OthersRest
<1>9. /\ \A m, x : IsHeadOf(m, x)' <=> IsHeadOf(m, x)
      /\ \A m, x, y : IsPushOf(m, x, y)' <=> IsPushOf(m, x, y)
      /\ \A y : Around(t, y)' = Around(t, y)
      /\ \A y : Drawn(t, y)' = inbox'[y] /\ Left(t, y)' = inbox'[y]
  BY <1>1, VisitKeeps DEF IsHeadOf, IsPushOf, Around, Drawn, Left
<1>10. CASE todo[t] = {n}
  <2>1. todo'[t] = ids[t] /\ phase'[t] = "ingest"
    BY <1>1, <1>10, VisitedRound
  <2>2. \A x \in Node : inbox'[x] = Landed(f[x]) /\ f[x] \in SUBSET Message
    BY <1>1, <1>4, <1>10 DEF Settled
  <2>3. ASSUME NEW y \in ids[t]
        PROVE  /\ Around(t, y) \cap Sound \subseteq log[y] \cup Pushed(inbox'[y])
               /\ \A m \in inbox'[y] : m.type = "PUSH" => m.entries \subseteq Around(t, y)
    <3>1. ASSUME NEW e \in Around(t, y), e \notin log[y] PROVE e \in Pushed(inbox'[y])
      <4>1. PICK x \in ids[t] : e \in log[x] /\ Reach(x, y)
        BY DEF Around
      <4>2. PICK k \in f[y] : IsPushOf(k, x, y)
        BY <1>6, <1>10, <3>1, <4>1
      <4>3. PICK m \in Landed(f[y]) :
               m.due /\ k.type = m.type /\ k.from = m.from /\ k.entries = m.entries
        BY <1>2, <2>2, LandedMeans
      <4>4. e \in m.entries /\ m.type = "PUSH" /\ m \in inbox'[y]
        BY <1>2, <2>2, <3>1, <4>1, <4>2, <4>3 DEF IsPushOf
      <4>. QED  BY <4>3, <4>4 DEF Pushed
    <3>2. ASSUME NEW m \in inbox'[y], m.type = "PUSH" PROVE m.entries \subseteq Around(t, y)
      <4>1. PICK k \in f[y] : k.type = m.type /\ k.entries = m.entries
        BY <1>2, <2>2, LandedMeans
      <4>. QED  BY <1>7, <1>10, <3>2, <4>1
    <3>. QED  BY <3>1, <3>2
  <2>4. Ingested(t)'
    <3>1. \A y : Pushed(Drawn(t, y))' = Pushed(inbox'[y])
      BY <1>9 DEF Pushed
    <3>. QED  BY <1>1, <1>2, <1>9, <2>1, <2>3, <3>1 DEF Ingested
  <2>. QED  BY <1>1, <1>2, <1>8, <2>1, <2>4 DEF RoundInv, Busy
<1>11. CASE todo[t] # {n}
  <2>1. todo'[t] = todo[t] \ {n} /\ phase'[t] = "answer"
    BY <1>1, <1>11, VisitedRound
  <2>2. inbox' = f
    BY <1>1, <1>11 DEF Settled
  <2>3. \A x \in todo'[t] : Drawn(t, x) \subseteq f[x]
    BY <1>2, <1>3, <1>4, <2>1
  <2>4. Answered(t)'
    <3>1. ASSUME NEW x \in todo'[t], NEW y \in ids[t], x # y, Reach(x, y)
          PROVE  \E m \in f[x] : IsHeadOf(m, y) /\ m.due
      BY <1>2, <2>1, <2>3, <3>1 DEF Answered
    <3>2. ASSUME NEW x \in ids[t] \ todo'[t], NEW y \in ids[t], x # y, Reach(x, y)
          PROVE  \/ log[x] \subseteq log[y]
                 \/ \E m \in f[y] : IsPushOf(m, x, y) /\ ~m.due
      BY <1>6, <2>1, <3>2
    <3>3. ASSUME NEW y \in ids[t], NEW m \in f[y], m.type = "PUSH", m.due => y \notin todo'[t]
          PROVE  m.entries \subseteq Around(t, y)
      BY <1>7, <2>1, <3>3
    <3>. QED  BY <1>1, <1>2, <1>9, <2>2, <3>1, <3>2, <3>3, VisitKeeps DEF Answered
  <2>. QED  BY <1>1, <1>2, <1>8, <2>1, <2>4 DEF RoundInv, Busy
<1>. QED  BY <1>10, <1>11

\* An ingestion keeps the round on course.
LEMMA IngestRound ==
    ASSUME TypeOK, NEW t \in Driver, NEW n \in Node,
           RoundInv(t), moved[t] = "nothing", Ingest(t, n)
    PROVE  RoundInv(t)'
<1>. DEFINE new == (UNION {m.entries : m \in {p \in out[t] : p.type = "PUSH"}}) \cap Sound
<1>1. /\ phase[t] = "ingest" /\ Turn(t, n) /\ drained[t] /\ Visited(t, n, "idle")
      /\ inbox' = [inbox EXCEPT ![n] = keep[t]] /\ log' = [log EXCEPT ![n] = @ \cup new]
      /\ ~drained'[t]
  <2>1. /\ phase[t] = "ingest" /\ Turn(t, n) /\ Visited(t, n, "idle")
        /\ inbox' = [inbox EXCEPT ![n] = keep[t]]
        /\ drained[t] /\ drained' = [drained EXCEPT ![t] = FALSE]
    BY DEF Ingest, Emptied
  <2>2. log' = [log EXCEPT ![n] = @ \cup new]
    <3>1. log' = [log EXCEPT ![n] =
                    @ \cup Admitted(UNION {m.entries : m \in {p \in out[t] : p.type = "PUSH"}})]
      BY DEF Ingest
    <3>2. Admitted(UNION {m.entries : m \in {p \in out[t] : p.type = "PUSH"}}) = new
      BY DEF Admitted
    <3>. HIDE DEF new
    <3>. QED  BY <3>1, <3>2
  <2>3. ~drained'[t]
    BY <2>1 DEF TypeOK
  <2>. QED  BY <2>1, <2>2, <2>3
<1>2. /\ Ingested(t) /\ todo[t] \subseteq ids[t] /\ ids[t] \subseteq Node /\ n \in todo[t]
      /\ ids' = ids
  BY <1>1, VisitKeeps DEF RoundInv, Busy, TypeOK, Turn
<1>3. \A y \in Node : Drawn(t, y) = IF y = n THEN out[t] ELSE inbox[y]
  BY <1>1, OneTurn DEF Drawn
<1>4. new \subseteq Around(t, n) /\ Pushed(out[t]) \cap Sound \subseteq new
  <2>1. \A m \in out[t] : m.type = "PUSH" => m.entries \subseteq Around(t, n)
    BY <1>2, <1>3 DEF Ingested
  <2>2. new \subseteq Around(t, n)
    BY <2>1
  <2>3. ASSUME NEW e \in Pushed(out[t]) \cap Sound PROVE e \in new
    <3>1. PICK m \in out[t] : m.type = "PUSH" /\ e \in m.entries
      BY <2>3 DEF Pushed
    <3>2. m \in {p \in out[t] : p.type = "PUSH"}
      BY <3>1
    <3>3. e \in UNION {k.entries : k \in {p \in out[t] : p.type = "PUSH"}}
      BY <3>1, <3>2, Zenon
    <3>. QED  BY <2>3, <3>3
  <2>. QED  BY <2>2, <2>3
<1>. HIDE DEF new
<1>5. \A x \in Node : log'[x] = IF x = n THEN log[n] \cup new ELSE log[x]
  BY <1>1 DEF TypeOK
<1>6. ASSUME NEW y \in Node PROVE Around(t, y)' = Around(t, y)
  <2>1. Around(t, y) \subseteq Around(t, y)'
    BY <1>2, <1>5, VisitKeeps DEF Around
  <2>2. ASSUME NEW e \in Around(t, y)', e \notin Around(t, y) PROVE FALSE
    <3>1. PICK x \in ids[t] : e \in log'[x] /\ Reach(x, y)
      BY <1>2, VisitKeeps DEF Around
    <3>2. x = n /\ e \in new
      BY <1>2, <1>5, <2>2, <3>1 DEF Around
    <3>3. PICK z \in ids[t] : e \in log[z] /\ Reach(z, n)
      BY <1>4, <3>2 DEF Around
    <3>4. Reach(z, y)
      BY <3>1, <3>2, <3>3 DEF Reach
    <3>. QED  BY <2>2, <3>3, <3>4 DEF Around
  <2>. QED  BY <2>1, <2>2
<1>7. ASSUME NEW y \in (ids[t] \ todo[t]) \cup {n} PROVE Caught(t, y)'
  <2>1. CASE y = n
    <3>1. Around(t, n) \cap Sound \subseteq log[n] \cup Pushed(out[t])
      BY <1>2, <1>3 DEF Ingested
    <3>. QED  BY <1>2, <1>4, <1>5, <1>6, <2>1, <3>1 DEF Caught
  <2>2. CASE y # n
    BY <1>2, <1>5, <1>6, <2>2 DEF Caught, Ingested
  <2>. QED  BY <2>1, <2>2
<1>8. \A u \in Driver \ {t} : ~Busy(u)'
  BY <1>1, VisitedRound, OthersRest
<1>9. CASE todo[t] = {n}
  <2>1. todo'[t] = ids[t] /\ phase'[t] = "idle"
    BY <1>1, <1>9, VisitedRound
  <2>. QED  BY <1>1, <1>2, <1>7, <1>8, <1>9, <2>1 DEF RoundInv, Busy
<1>10. CASE todo[t] # {n}
  <2>1. todo'[t] = todo[t] \ {n} /\ phase'[t] = "ingest"
    BY <1>1, <1>10, VisitedRound
  <2>2. ASSUME NEW y \in todo'[t]
        PROVE  y \in Node /\ y # n /\ Drawn(t, y)' = Drawn(t, y) /\ log'[y] = log[y]
    BY <1>1, <1>2, <1>3, <1>5, <2>1 DEF Drawn, TypeOK
  <2>3. ASSUME NEW y \in todo'[t] PROVE Pushed(Drawn(t, y))' = Pushed(Drawn(t, y))
    BY <2>2 DEF Pushed
  <2>4. ASSUME NEW y \in todo'[t]
        PROVE  /\ (Around(t, y) \cap Sound \subseteq log[y] \cup Pushed(Drawn(t, y)))'
               /\ \A m \in Drawn(t, y)' : m.type = "PUSH" => m.entries \subseteq Around(t, y)'
    BY <1>2, <1>6, <2>1, <2>2, <2>3 DEF Ingested
  <2>5. Ingested(t)'
    BY <1>2, <1>7, <2>1, <2>4 DEF Ingested
  <2>. QED  BY <1>1, <1>2, <1>8, <2>1, <2>5 DEF RoundInv, Busy
<1>. QED  BY <1>9, <1>10

\* A round that begins while no other is under way is on course.
LEMMA StartRoundOnCourse ==
    ASSUME TypeOK, HoldsOnlyWhileDraining, NEW t \in Driver, StartRound(t),
           \A u \in Driver \ {t} : ~Busy(u)
    PROVE  RoundInv(t)'
<1>1. /\ phase'[t] = "advertise" /\ todo'[t] = ids'[t] /\ ~drained'[t]
      /\ \A u \in Driver \ {t} : phase'[u] = phase[u]
  BY DEF StartRound, TypeOK, HoldsOnlyWhileDraining
<1>. QED  BY <1>1 DEF RoundInv, Advertised, Busy

\* Every step keeps every round on course that nothing else disturbs.
LEMMA RoundStep ==
    ASSUME TypeOK, HoldsOnlyWhileDraining, [Next]_vars, NEW t \in Driver, RoundInv(t)
    PROVE  RoundInv(t)'
<1>1. CASE UNCHANGED vars
  BY <1>1 DEF vars, RoundInv, Busy, Advertised, Answered, Ingested, Caught, Around, Drawn,
              Left, IsHeadOf, IsPushOf, Pushed, Turn, Reach
<1>2. CASE moved'[t] # "nothing"
  BY <1>2 DEF RoundInv
<1>3. CASE moved'[t] = "nothing"
  BY <1>1, <1>3, OwnSteps, StartRoundOnCourse, AdvertiseRound, DrainRound, AnswerRound,
     IngestRound
<1>. QED  BY <1>2, <1>3

\* At the end of such a round, what a node holds those it reaches hold.
LEMMA RoundSuffices == (\A t \in Driver : RoundInv(t)) => RoundCatchesUp
<1>. SUFFICES ASSUME \A t \in Driver : RoundInv(t),
                     NEW t \in Driver, phase[t] = "idle", moved[t] = "nothing",
                     NEW x \in ids[t], NEW y \in ids[t], Reach(x, y)
              PROVE  log[x] \cap Sound = log[y] \cap Sound
  BY DEF RoundCatchesUp, CaughtUp
<1>1. Caught(t, x) /\ Caught(t, y)
  BY DEF RoundInv
<1>2. log[x] \subseteq Around(t, y) /\ log[y] \subseteq Around(t, x)
  BY DEF Around, Reach
<1>. QED  BY <1>1, <1>2 DEF Caught

-----------------------------------------------------------------------------
(* The theorems *)

\* IInv holds in every reachable state.
THEOREM Inductive == Spec => []IInv
<1>1. IInv /\ [Next]_vars => IInv'
  BY TypeStep, HoldsStep, CarriesStep, AtHomeStep, SidesStep DEF IInv
<1>. QED  BY <1>1, InitIInv, PTL DEF Spec

\* However rounds overlap, fail and lose messages, the replicas are grow-only
\* sets of signed, sound entries.
THEOREM Implements == Spec => IsGrowOnlySet
<1>1. Init => Replicas!Init
  BY DEF Init, Replicas!Init
<1>2. IInv /\ IInv' /\ [Next]_vars => [Replicas!Grow]_log
  BY GrowStep DEF IInv
<1>. QED  BY <1>1, <1>2, Inductive, PTL DEF Spec, Replicas!Spec, IsGrowOnlySet

\* What is signed on one side of a partition is not seen on the other while
\* it lasts.
THEOREM PartitionHolds == Spec => []PartitionStops
<1>1. IInv => PartitionStops
  BY DEF IInv, SidesKept, OnSide, PartitionStops
<1>. QED  BY <1>1, Inductive, PTL

\* One round is enough, however many nodes take part, whatever earlier rounds
\* left in the inboxes, and whoever is down or cut off.
THEOREM OneRoundCatchesUp == Spec => []RoundCatchesUp
<1>. DEFINE RInv == \A t \in Driver : RoundInv(t)
<1>1. Init => RInv
  BY DEF Init, RoundInv
<1>2. IInv /\ RInv /\ [Next]_vars => RInv'
  <2>. SUFFICES ASSUME IInv, RInv, [Next]_vars, NEW t \in Driver PROVE RoundInv(t)'
    OBVIOUS
  <2>. QED  BY RoundStep DEF IInv
<1>3. RInv => RoundCatchesUp
  BY RoundSuffices
<1>. HIDE DEF RInv
<1>4. Spec => []RInv
  BY <1>1, <1>2, Inductive, PTL DEF Spec
<1>. QED  BY <1>3, <1>4, PTL
=============================================================================
