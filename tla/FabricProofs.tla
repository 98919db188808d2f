--------------------------- MODULE FabricProofs ---------------------------
(***************************************************************************)
(* What holds of the insight pipeline for every membership, every set of   *)
(* insights and every minority of compromised nodes.                       *)
(***************************************************************************)
EXTENDS Fabric, FiniteSetTheorems, SequenceTheorems, WellFoundedInduction, TLAPS

USE FabricLogAssumption, FabricAssumption

-----------------------------------------------------------------------------
(* Types *)

\* Every body a handler writes is a body.
LEMMA BodyTypes ==
    ASSUME NEW i \in Insight
    PROVE  /\ InsightBody(i) \in InsightCopy
           /\ TombstoneBody(i) \in Body
           /\ \A ok \in BOOLEAN, h \in Hash \cup Reason : AttestBody(i, ok, h) \in Body
           /\ \A s \in Status, c \in Cause : StatusBody(i, s, c) \in Body
           /\ \A r \in Reason : DenyBody(i, r) \in Body
  BY DEF Body, InsightCopy, InsightBody, TombstoneBody, AttestBody, StatusBody, DenyBody

\* A copy of an insight is a body.
LEMMA CopiesAreBodies == InsightCopy \subseteq Body
  BY DEF Body

\* What a node signs with a sequence number is a set of entries.
LEMMA SignedType ==
    ASSUME NEW n \in Node, NEW k \in Nat, NEW B \in SUBSET Body
    PROVE  Signed(n, k, B) \subseteq Entry
  BY DEF Signed, Entry

\* Forgetting old submissions leaves a sequence of times, no longer than it was.
LEMMA RecentType ==
    ASSUME NEW q \in Seq(Nat), now \in Nat
    PROVE  Recent(q) \in Seq(Nat) /\ Len(Recent(q)) <= Len(q)
<1> DEFINE E == {k \in DOMAIN q : now - q[k] > RATE_LIMIT_WINDOW}
<1>1. Len(q) \in Nat /\ DOMAIN q = 1..Len(q)
  BY LenProperties
<1>2. IsFiniteSet(1..Len(q)) /\ Cardinality(1..Len(q)) = Len(q)
  <2>1. 1 \in Int /\ Len(q) \in Int
    BY <1>1
  <2>2. \A m \in Int : /\ IsFiniteSet(1..m)
                       /\ Cardinality(1..m) = IF 1 > m THEN 0 ELSE m - 1 + 1
    BY <2>1, FS_Interval, Zenon
  <2> QED BY <1>1, <2>1, <2>2
<1>3. E \subseteq 1..Len(q)
  BY <1>1
<1>4. Cardinality(E) \in Nat /\ Cardinality(E) <= Len(q)
  BY <1>2, <1>3, FS_Subset, FS_CardinalityType
<1> HIDE DEF E
<1>5. /\ SubSeq(q, Cardinality(E) + 1, Len(q)) \in Seq(Nat)
      /\ Len(SubSeq(q, Cardinality(E) + 1, Len(q))) <= Len(q)
  BY <1>1, <1>4, SubSeqProperties
<1> QED BY <1>5 DEF Recent, E

\* A decision is ALLOW or one of the deny reasons.
LEMMA DecisionType ==
    ASSUME NEW n \in Node, NEW b \in InsightCopy
    PROVE  Decision(n, b) \in Reason \cup {"ALLOW"}
<1>1. b.content \in Insight
  BY DEF InsightCopy
<1>2. Verdict[b.content] \in Reason \cup {"ALLOW"}
  BY <1>1
<1> QED BY <1>2 DEF Decision, Static

\* The three shapes in which a step touches the replicas.
LEMMA AuthorType ==
    ASSUME TypeOK, NEW n \in Node, NEW B \in SUBSET Body, Author(n, B)
    PROVE  /\ log' \in [Node -> SUBSET Entry]
           /\ seq' \in [Node -> Nat]
<1>1. Signed(n, seq[n], B) \subseteq Entry
  BY SignedType DEF TypeOK
<1> QED BY <1>1 DEF TypeOK, Author

\* Signing into every healthy log keeps the types.
LEMMA HealthyAuthorType ==
    ASSUME TypeOK, NEW b \in [Node -> SUBSET Body], HealthyAuthor(b)
    PROVE  /\ log' \in [Node -> SUBSET Entry]
           /\ seq' \in [Node -> Nat]
<1>1. \A p \in Node : Signed(p, seq[p], b[p]) \subseteq Entry
  BY SignedType DEF TypeOK
<1> QED BY <1>1 DEF TypeOK, HealthyAuthor

\* A gossip round keeps the types.
LEMMA GossipType ==
    ASSUME TypeOK, GossipRound
    PROVE  log' \in [Node -> SUBSET Entry]
<1>1. \A x \in Node : UNION {log[y] : y \in {z \in Node : Linked(x, z)}} \subseteq Entry
  BY DEF TypeOK
<1> QED BY <1>1 DEF TypeOK, GossipRound, Admitted

\* Counting a submission keeps the types of the limiter's queues.
LEMMA RecordType ==
    ASSUME TypeOK, NEW n \in Node, NEW b \in InsightCopy, Record(n, b)
    PROVE  subs' \in [Node -> [Node -> Seq(Nat)]]
<1> DEFINE src == DiscoveredBy[b.content]
           q == Recent(subs[n][src])
<1>1. src \in Node /\ subs[n][src] \in Seq(Nat)
  BY DEF TypeOK, InsightCopy
<1>2. q \in Seq(Nat)
  BY <1>1, RecentType DEF TypeOK
<1>3. Append(q, now) \in Seq(Nat)
  BY <1>2, AppendProperties DEF TypeOK
<1> QED BY <1>1, <1>2, <1>3 DEF TypeOK, Record

\* The fold comes across one copy first, and shows its body.
LEMMA CopyIsHeld ==
    ASSUME NEW S \in SUBSET Entry, NEW i \in Insight, Known(S, i)
    PROVE  \E e \in About(S, "INSIGHT", i) : Copy(S, i) = e.body
<1> DEFINE A == About(S, "INSIGHT", i)
           P == {Place[e.author] : e \in A}
<1>1. A # {} /\ A \subseteq Entry
  BY DEF Known, About
<1>2. \A e \in A : e.author \in Node /\ e.seq \in Nat /\ Place[e.author] \in Nat
  BY <1>1 DEF Entry
<1>3. P \subseteq Nat /\ P # {}
  BY <1>1, <1>2
<1> HIDE DEF A
<1>4. \E p \in P : \A y \in P : ~(<<y, p>> \in OpToRel(<, Nat))
  <2> HIDE DEF P
  <2> QED BY <1>3, NatLessThanWellFounded, WFMin
<1>5. PICK p \in P : \A y \in P : ~(y < p)
  BY <1>3, <1>4 DEF OpToRel
<1> DEFINE Q == {e.seq : e \in {f \in A : Place[f.author] = p}}
<1>6. Q \subseteq Nat /\ Q # {}
  BY <1>2, <1>5
<1>7. \E q \in Q : \A y \in Q : ~(<<y, q>> \in OpToRel(<, Nat))
  <2> HIDE DEF Q
  <2> QED BY <1>6, NatLessThanWellFounded, WFMin
<1>8. PICK q \in Q : \A y \in Q : ~(y < q)
  BY <1>6, <1>7 DEF OpToRel
<1>9. PICK e \in A : Place[e.author] = p /\ e.seq = q
  BY <1>8
<1>10. \A f \in A : ~Before(f, e)
  BY <1>5, <1>8, <1>9 DEF Before
<1> QED BY <1>9, <1>10 DEF Copy, A

\* So what it shows is a copy, filed under the id the fold was asked for.
LEMMA CopyType ==
    ASSUME NEW S \in SUBSET Entry, NEW i \in Insight, Known(S, i)
    PROVE  Copy(S, i) \in InsightCopy /\ Copy(S, i).id = i
<1>1. PICK e \in About(S, "INSIGHT", i) : Copy(S, i) = e.body
  BY CopyIsHeld
<1>2. e.body \in Body /\ e.body.kind = "INSIGHT" /\ e.body.id = i
  BY DEF About, Entry
<1>3. \A b \in Body : b.kind = "INSIGHT" => b \in InsightCopy
  BY DEF Body
<1> QED BY <1>1, <1>2, <1>3

\* A copy to be checked is a job, and so is one that was.
LEMMA JobTypes ==
    ASSUME NEW n \in Node, NEW b \in InsightCopy, NEW w \in Job
    PROVE  /\ Unchecked(n, b) \in Job
           /\ [w EXCEPT !.verdict = Decision(w.at, w.copy)] \in Job
<1>1. w.at \in Node /\ w.copy \in InsightCopy
  BY DEF Job
<1>2. Decision(w.at, w.copy) \in Reason \cup {"ALLOW"}
  BY <1>1, DecisionType
<1> QED BY <1>1, <1>2 DEF Job, Unchecked

\* What a survey finds due are insights its replica shows a copy of.
LEMMA DueTypes ==
    ASSUME TypeOK, NEW n \in Node
    PROVE  \A i \in Due(n) : /\ Copy(log[n], i) \in InsightCopy
                             /\ Copy(log[n], i).id = i
                             /\ Known(log[n], i)
<1>1. log[n] \in SUBSET Entry
  BY DEF TypeOK
<1> QED BY <1>1, CopyType DEF Due, Candidate

\* A provenance subtree is a set of insights.
LEMMA SubtreeType ==
    ASSUME NEW S, NEW i \in Insight
    PROVE  Subtree(S, i) \subseteq Insight
  BY DEF Subtree, Descendants

\* What comes of a check is written as bodies.
LEMMA WrittenBodies ==
    ASSUME NEW w \in Job, w.verdict # "UNCHECKED"
    PROVE  Written(w) \in SUBSET Body
<1>1. /\ w.copy \in Body /\ w.copy.id \in Insight /\ w.copy.content \in Insight
      /\ w.verdict \in Reason \cup {"ALLOW"}
  BY CopiesAreBodies DEF Job, InsightCopy
<1>2. Passed(w) \in SUBSET Body
  <2>1. Verifies(w.copy.content) \in BOOLEAN
    BY DEF Verifies
  <2>2. Measured[w.copy.content] \in Hash \cup Reason
    BY <1>1
  <2>3. AttestBody(w.copy.id, Verifies(w.copy.content), Measured[w.copy.content]) \in Body
    BY <1>1, <2>1, <2>2, BodyTypes
  <2> QED BY <1>1, <2>3 DEF Passed
<1>3. ASSUME w.verdict # "ALLOW" PROVE Denied(w) \in SUBSET Body
  <2>1. /\ DenyBody(w.copy.id, w.verdict) \in Body
        /\ AttestBody(w.copy.id, FALSE, w.verdict) \in Body
    BY <1>1, <1>3, BodyTypes
  <2> QED BY <2>1 DEF Denied
<1> QED BY <1>2, <1>3 DEF Written

\* Pruning a subtree signs bodies.
LEMMA SubtreeBodies ==
    ASSUME NEW S, NEW i \in Insight
    PROVE  /\ {TombstoneBody(v) : v \in Subtree(S, i)} \in SUBSET Body
           /\ \A c \in Cause :
                {StatusBody(v, "REVOKED", c) : v \in Subtree(S, i)} \in SUBSET Body
  BY SubtreeType, BodyTypes DEF Status

\* The types hold initially.
LEMMA TypeInit == Init => TypeOK
<1>1. << >> \in Seq(Nat)
  OBVIOUS
<1> QED BY <1>1 DEF Init, TypeOK

\* Every step keeps the types, one case per action.
LEMMA TypeNext == TypeOK /\ [Next]_vars => TypeOK'
<1> SUFFICES ASSUME TypeOK, [Next]_vars PROVE TypeOK'
  OBVIOUS
<1> USE DEF TypeOK
<1>1. ASSUME NEW t \in Driver, NEW n \in Node, NEW i \in Insight, Announce(t, n, i)
      PROVE  TypeOK'
  <2>1. Unchecked(n, InsightBody(i)) \in Job
    <3>1. \A w \in Job : Unchecked(n, InsightBody(i)) \in Job
      BY BodyTypes, JobTypes
    <3>2. [at |-> n, copy |-> InsightBody(i), verdict |-> "ALLOW"] \in Job
      BY BodyTypes DEF Job
    <3> QED BY <3>1, <3>2
  <2>2. todo' \in [Driver -> SUBSET Job]
    BY <1>1, <2>1 DEF Announce
  <2> QED BY <1>1, <2>2 DEF Announce
<1>2. ASSUME NEW n \in Node, NEW i \in Insight, InjectRaw(n, i)
      PROVE  TypeOK'
  <2>1. {InsightBody(i)} \in SUBSET Body
    BY BodyTypes, CopiesAreBodies
  <2> QED BY <1>2, <2>1, AuthorType DEF InjectRaw
<1>3. ASSUME NEW t \in Driver, NEW n \in Node, Survey(t, n)
      PROVE  TypeOK'
  <2>1. \A i \in Due(n) : Unchecked(n, Copy(log[n], i)) \in Job
    BY DueTypes DEF Unchecked, Job
  <2>2. todo' \in [Driver -> SUBSET Job]
    BY <1>3, <2>1 DEF Survey
  <2> QED BY <1>3, <2>2 DEF Survey
<1>13. ASSUME NEW t \in Driver, Check(t)
       PROVE  TypeOK'
  <2>1. PICK w \in todo[t] :
           /\ Record(w.at, w.copy)
           /\ todo' = [todo EXCEPT ![t] = (@ \ {w}) \cup
                         {[w EXCEPT !.verdict = Decision(w.at, w.copy)]}]
    BY <1>13 DEF Check
  <2>2. w \in Job /\ w.at \in Node /\ w.copy \in InsightCopy
    BY DEF Job
  <2>3. todo' \in [Driver -> SUBSET Job]
    BY <2>1, <2>2, JobTypes
  <2>4. subs' \in [Node -> [Node -> Seq(Nat)]]
    BY <2>1, <2>2, RecordType
  <2> QED BY <1>13, <2>3, <2>4 DEF Check
<1>14. ASSUME NEW t \in Driver, Enter(t)
       PROVE  TypeOK'
  <2>1. PICK w \in todo[t] : /\ w.verdict # "UNCHECKED"
                             /\ Author(w.at, Written(w))
                             /\ todo' = [todo EXCEPT ![t] = @ \ {w}]
                             /\ UNCHANGED <<subs, now, probation, down, cut>>
    BY <1>14 DEF Enter
  <2>2. w \in Job /\ w.at \in Node
    BY DEF Job
  <2>3. /\ log' \in [Node -> SUBSET Entry]
        /\ seq' \in [Node -> Nat]
    BY <2>1, <2>2, WrittenBodies, AuthorType
  <2>4. todo' \in [Driver -> SUBSET Job]
    BY <2>1
  <2> QED BY <2>1, <2>3, <2>4
<1>4. CASE GossipRound
  BY <1>4, GossipType DEF GossipRound
<1>5. ASSUME NEW n \in Initiator, NEW i \in Insight, NEW r \in BOOLEAN,
             ProbationTick(n, i, r)
      PROVE  TypeOK'
  <2>1. probation' \in [Node -> [Insight -> [seen : Nat, bad : Nat]]]
    <3>1. n \in Node /\ probation[n][i] \in [seen : Nat, bad : Nat]
      OBVIOUS
    <3> DEFINE q == [seen |-> probation[n][i].seen + 1,
                     bad |-> probation[n][i].bad + IF r THEN 1 ELSE 0]
    <3>2. q \in [seen : Nat, bad : Nat]
      BY <3>1
    <3>3. probation' = [probation EXCEPT ![n][i] = q]
      BY <1>5 DEF ProbationTick
    <3> HIDE DEF q
    <3> QED BY <3>1, <3>2, <3>3
  <2>2. {StatusBody(v, "REVOKED", "PROBATION") : v \in Subtree(log[n], i)} \in SUBSET Body
    BY SubtreeBodies DEF Cause
  <2>3. /\ log' \in [Node -> SUBSET Entry]
        /\ seq' \in [Node -> Nat]
    BY <1>5, <2>2, AuthorType DEF ProbationTick
  <2> QED BY <1>5, <2>1, <2>3 DEF ProbationTick
<1>6. ASSUME NEW i \in Insight, Revoke(i)
      PROVE  TypeOK'
  <2>1. [p \in Node |-> {StatusBody(v, "REVOKED", "OPERATOR") :
                           v \in Subtree(log[p], i)}] \in [Node -> SUBSET Body]
    BY SubtreeBodies DEF Cause
  <2> QED BY <1>6, <2>1, HealthyAuthorType DEF Revoke
<1>7. ASSUME NEW i \in Insight, Tombstone(i)
      PROVE  TypeOK'
  <2>1. [p \in Node |-> {TombstoneBody(v) : v \in Subtree(log[p], i)}]
           \in [Node -> SUBSET Body]
    BY SubtreeBodies
  <2> QED BY <1>7, <2>1, HealthyAuthorType DEF Tombstone
<1>8. ASSUME NEW n \in Rogue, Compromised(n)
      PROVE  TypeOK'
  <2>1. PICK b \in RogueBody : Author(n, {b})
    BY <1>8 DEF Compromised
  <2>2. n \in Node /\ {b} \in SUBSET Body
    OBVIOUS
  <2> QED BY <1>8, <2>1, <2>2, AuthorType DEF Compromised
<1>9. ASSUME NEW n \in Victim, TakeDown(n) \/ Restore(n) \/ Isolate(n)
      PROVE  TypeOK'
  BY <1>9 DEF TakeDown, Restore, Isolate
<1>10. CASE Heal
  BY <1>10 DEF Heal
<1>11. CASE Tick
  BY <1>11 DEF Tick
<1>12. CASE UNCHANGED vars
  BY <1>12 DEF vars
<1> HIDE DEF TypeOK
<1> QED BY <1>1, <1>2, <1>3, <1>4, <1>5, <1>6, <1>7, <1>8, <1>9, <1>10, <1>11, <1>12,
           <1>13, <1>14 DEF Next, DraftAndSubmit

\* Every variable stays what it is declared to be, for every membership, every
\* insight and every choice a compromised node makes.
THEOREM TypeCorrect == Spec => []TypeOK
<1>1. Init => TypeOK
  BY TypeInit
<1>2. TypeOK /\ [Next]_vars => TypeOK'
  BY TypeNext
<1> QED BY <1>1, <1>2, PTL DEF Spec

-----------------------------------------------------------------------------
(* Quorums *)

\* Sets of voters are finite.
LEMMA NodeSubsetFinite ==
    ASSUME NEW V \in SUBSET Node
    PROVE  IsFiniteSet(V) /\ Cardinality(V) \in Nat
  BY FS_Subset, FS_CardinalityType

\* A quorum stays one when voters join it.
LEMMA QuorumGrows ==
    ASSUME NEW V \in SUBSET Node, NEW W \in SUBSET Node, V \subseteq W, Quorate(V)
    PROVE  Quorate(W)
<1>1. Cardinality(V) <= Cardinality(W)
  BY NodeSubsetFinite, FS_Subset
<1> QED BY <1>1, NodeSubsetFinite DEF Quorate

\* Any quorum holds an honest node: compromised ones are too few to make one.
LEMMA HonestInQuorum ==
    ASSUME NEW V \in SUBSET Node, Quorate(V)
    PROVE  V \cap Honest # {}
<1> SUFFICES ASSUME V \cap Honest = {} PROVE FALSE
  OBVIOUS
<1>1. V \subseteq Rogue
  BY DEF Honest
<1>2. Rogue \in SUBSET Node
  OBVIOUS
<1>3. Quorate(Rogue)
  BY <1>1, <1>2, QuorumGrows
<1> QED BY <1>2, <1>3, NodeSubsetFinite DEF Quorate

\* All voters are nodes.
LEMMA VotersAreNodes ==
    ASSUME NEW S \in SUBSET Entry, NEW i
    PROVE  /\ BadVoters(S, i) \subseteq Node
           /\ \A h : OkVoters(S, i, h) \subseteq Node
           /\ \A st : StatusVoters(S, i, st) \subseteq Node
           /\ \A k : Authors(About(S, k, i)) \subseteq Node
<1>1. \A T : T \subseteq S => Authors(T) \subseteq Node
  BY DEF Authors, Entry
<1>2. /\ \A k : About(S, k, i) \subseteq S
      /\ Standing(S, i) \subseteq S
  BY DEF About, Standing
<1> QED BY <1>1, <1>2 DEF BadVoters, OkVoters, StatusVoters

-----------------------------------------------------------------------------
(* The fold picks the highest status reached *)

\* Some status reached ranks highest.
LEMMA HighestExists ==
    ASSUME NEW R \in SUBSET Status, R # {}
    PROVE  \E s \in R : \A t \in R : Rank(t) <= Rank(s)
<1> USE DEF Status, Rank
<1>1. CASE "REVOKED" \in R
  BY <1>1
<1>2. CASE "REVOKED" \notin R /\ "QUARANTINED" \in R
  BY <1>2
<1>3. CASE "REVOKED" \notin R /\ "QUARANTINED" \notin R /\ "VERIFIED" \in R
  BY <1>3
<1>4. CASE /\ "REVOKED" \notin R /\ "QUARANTINED" \notin R /\ "VERIFIED" \notin R
           /\ "CANDIDATE" \in R
  BY <1>4
<1>5. CASE R = {"LOCAL"}
  BY <1>5
<1> QED BY <1>1, <1>2, <1>3, <1>4, <1>5

\* The fold yields a status that was reached and that none reached outranks.
LEMMA StatusIsHighest ==
    ASSUME NEW S, NEW i
    PROVE  /\ StatusOf(S, i) \in Reached(S, i)
           /\ \A t \in Reached(S, i) : Rank(t) <= Rank(StatusOf(S, i))
           /\ StatusOf(S, i) \in Status
<1>1. Reached(S, i) \in SUBSET Status /\ Reached(S, i) # {}
  BY DEF Reached, Derived, Status
<1>2. \E s \in Reached(S, i) : \A t \in Reached(S, i) : Rank(t) <= Rank(s)
  BY <1>1, HighestExists
<1> QED BY <1>1, <1>2 DEF StatusOf

\* A quorum of matching confirmations puts the fold at VERIFIED or above.
LEMMA OkQuorumRank ==
    ASSUME NEW S, NEW i, NEW h \in Hash \cup Reason, Quorate(OkVoters(S, i, h))
    PROVE  Rank(StatusOf(S, i)) >= Rank("VERIFIED")
<1>1. Derived(S, i) \in {"VERIFIED", "QUARANTINED"}
  BY DEF Derived
<1>2. Rank(Derived(S, i)) <= Rank(StatusOf(S, i))
  BY StatusIsHighest DEF Reached
<1>3. StatusOf(S, i) \in Status
  BY StatusIsHighest
<1> QED BY <1>1, <1>2, <1>3 DEF Rank, Status

\* A quorum of objections puts the fold at QUARANTINED or above.
LEMMA BadQuorumRank ==
    ASSUME NEW S, NEW i, Quorate(BadVoters(S, i))
    PROVE  Rank(StatusOf(S, i)) >= Rank("QUARANTINED")
<1>1. Derived(S, i) = "QUARANTINED"
  BY DEF Derived
<1>2. Rank(Derived(S, i)) <= Rank(StatusOf(S, i))
  BY StatusIsHighest DEF Reached
<1>3. StatusOf(S, i) \in Status
  BY StatusIsHighest
<1> QED BY <1>1, <1>2, <1>3 DEF Rank, Status

-----------------------------------------------------------------------------
(* The inductive invariant *)

\* Guardrail and replay both pass the insight.
Passes(i) == Verdict[i] = "ALLOW" /\ Verifies(i)

\* What an honest signature says, wherever it is found.
HonestlyMeant(x) ==
    /\ x.kind = "ATTEST" /\ x.ok => Passes(x.id) /\ x.replay_hash = Measured[x.id]
    /\ x.kind = "ATTEST" /\ ~x.ok => x.replay_hash \in Mishap \/ ~Passes(x.id)
    /\ x.kind = "STATUS" => x.status = "REVOKED"

HonestSignatures ==
    \A n \in Node : \A e \in log[n] : e.author \in Honest => HonestlyMeant(e.body)

\* What a thread has in hand at an honest node: a copy of the insight it is filed
\* under, and a verdict that speaks of that insight unless it is a mishap.
Faithful(w) ==
    w.at \in Honest =>
        /\ w.copy.content = w.copy.id
        /\ w.verdict = "ALLOW"  => Verdict[w.copy.id] = "ALLOW"
        /\ w.verdict \in Reason => w.verdict \in Mishap \/ Verdict[w.copy.id] # "ALLOW"

\* A thread has each insight in hand once, and signs what it checked before it
\* checks another.
JobsInv ==
    \A t \in Driver : \A v \in todo[t] :
        /\ Faithful(v)
        /\ \A w \in todo[t] :
              \/ v.copy.id = w.copy.id
              \/ v.verdict # "UNCHECKED" /\ w.verdict # "UNCHECKED"
              => v = w

IInv == /\ TypeOK
        /\ BodyIsBound
        /\ OwnEntriesAtHome
        /\ HonestSignatures
        /\ JobsInv

-----------------------------------------------------------------------------
(* Every step leaves the replicas alone, gossips, or signs *)

\* Each node p signs the bodies b[p], with its next sequence number.
Signing(b) ==
    /\ b \in [Node -> SUBSET Body]
    /\ \A p \in Node :
          /\ log'[p] = log[p] \cup Signed(p, seq[p], b[p])
          /\ seq'[p] \in {seq[p], seq[p] + 1}
          /\ b[p] # {} => seq'[p] = seq[p] + 1

\* What a node running the code signs in one step.
SignsInGoodFaith(B) == \A x \in B : ValidBody(x) /\ HonestlyMeant(x)

HonestSigning(b) == /\ Signing(b)
                    /\ \A p \in Honest : SignsInGoodFaith(b[p])

\* An action that signs into one log signs in good faith if its node does.
LEMMA AuthorSigns ==
    ASSUME TypeOK, NEW n \in Node, NEW B \in SUBSET Body, Author(n, B),
           n \in Honest => SignsInGoodFaith(B)
    PROVE  \E b : HonestSigning(b)
<1> DEFINE b == [p \in Node |-> IF p = n THEN B ELSE {}]
<1>1. b \in [Node -> SUBSET Body]
  OBVIOUS
<1>2. \A p \in Node : Signed(p, seq[p], {}) = {}
  BY DEF Signed
<1>3. Signing(b)
  BY <1>1, <1>2 DEF Signing, Author, TypeOK
<1>4. \A p \in Honest : SignsInGoodFaith(b[p])
  BY DEF SignsInGoodFaith, Honest
<1> QED BY <1>3, <1>4 DEF HonestSigning

\* The same for an action that signs into every healthy log.
LEMMA HealthyAuthorSigns ==
    ASSUME TypeOK, NEW c \in [Node -> SUBSET Body], HealthyAuthor(c),
           \A p \in Node : SignsInGoodFaith(c[p])
    PROVE  \E b : HonestSigning(b)
<1> DEFINE b == [p \in Node |-> IF p \in Healthy THEN c[p] ELSE {}]
<1>1. b \in [Node -> SUBSET Body]
  OBVIOUS
<1>2. \A p \in Node : Signed(p, seq[p], {}) = {}
  BY DEF Signed
<1>3. Signing(b)
  BY <1>1, <1>2 DEF Signing, HealthyAuthor, TypeOK
<1>4. \A p \in Honest : SignsInGoodFaith(b[p])
  BY DEF SignsInGoodFaith, Honest
<1> QED BY <1>3, <1>4 DEF HonestSigning

\* Votes to demote are good-faith bodies: they bind no content and promote nothing.
LEMMA DemotionsInGoodFaith ==
    ASSUME NEW B,
           \A x \in B : \/ x.kind = "STATUS" /\ x.status = "REVOKED"
                       \/ x.kind = "TOMBSTONE"
    PROVE  SignsInGoodFaith(B)
  BY DEF SignsInGoodFaith, HonestlyMeant, ValidBody

\* So is an insight its node injects.
LEMMA InjectionInGoodFaith ==
    ASSUME NEW i
    PROVE  SignsInGoodFaith({InsightBody(i)})
  BY DEF SignsInGoodFaith, HonestlyMeant, ValidBody, InsightBody

\* What comes of a check made in good faith is written in good faith.
LEMMA RulingInGoodFaith ==
    ASSUME NEW w \in Job, w.verdict # "UNCHECKED", w.at \in Honest, Faithful(w)
    PROVE  SignsInGoodFaith(Written(w))
<1>1. /\ w.copy.content = w.copy.id /\ w.copy.kind = "INSIGHT"
      /\ w.verdict \in Reason \cup {"ALLOW"}
  BY DEF Faithful, Job, InsightCopy
<1>2. CASE w.verdict = "ALLOW"
  <2>1. SignsInGoodFaith({w.copy})
    BY <1>1 DEF SignsInGoodFaith, HonestlyMeant, ValidBody
  <2>2. Verdict[w.copy.id] = "ALLOW" /\ Verifies(w.copy.id) \in BOOLEAN
    BY <1>2 DEF Faithful, Verifies
  <2>3. SignsInGoodFaith({AttestBody(w.copy.id, Verifies(w.copy.id), Measured[w.copy.id])})
    BY <2>2 DEF SignsInGoodFaith, HonestlyMeant, ValidBody, AttestBody, Passes
  <2> QED BY <1>1, <1>2, <2>1, <2>3 DEF Written, Passed
<1>3. CASE w.verdict # "ALLOW"
  <2> DEFINE deny == DenyBody(w.copy.id, w.verdict)
             no   == AttestBody(w.copy.id, FALSE, w.verdict)
  <2>1. ValidBody(deny) /\ HonestlyMeant(deny)
    BY DEF HonestlyMeant, ValidBody, DenyBody
  <2>2. w.verdict \in Mishap \/ Verdict[w.copy.id] # "ALLOW"
    BY <1>1, <1>3 DEF Faithful
  <2>3. ValidBody(no) /\ HonestlyMeant(no)
    BY <2>2 DEF HonestlyMeant, ValidBody, AttestBody, Passes
  <2> HIDE DEF deny, no
  <2>4. SignsInGoodFaith({deny} \cup (IF IsOwn(w) THEN {} ELSE {no}))
    BY <2>1, <2>3 DEF SignsInGoodFaith
  <2> QED BY <1>3, <2>4 DEF Written, Denied, deny, no
<1> QED BY <1>2, <1>3

\* A step leaves the replicas alone, gossips, or has nodes sign, the honest ones in
\* good faith.  Every preservation proof below rests on this case split.
LEMMA StepShape ==
    ASSUME TypeOK, JobsInv, [Next]_vars
    PROVE  \/ UNCHANGED <<log, seq>>
           \/ GossipRound
           \/ \E b : HonestSigning(b)
<1> DEFINE Goal == \/ UNCHANGED <<log, seq>>
                   \/ GossipRound
                   \/ \E b : HonestSigning(b)
<1> SUFFICES Goal
  OBVIOUS
<1>1. ASSUME NEW t \in Driver,
             \/ Check(t)
             \/ \E n \in Node : Survey(t, n)
             \/ \E n \in Node, i \in Insight : Announce(t, n, i) \/ DraftAndSubmit(t, n, i)
      PROVE  Goal
  BY <1>1 DEF Check, Survey, Announce, DraftAndSubmit
<1>2. ASSUME NEW n \in Node, NEW i \in Insight, InjectRaw(n, i)
      PROVE  Goal
  <2>1. {InsightBody(i)} \in SUBSET Body
    BY BodyTypes, CopiesAreBodies
  <2> QED BY <1>2, <2>1, InjectionInGoodFaith, AuthorSigns DEF InjectRaw
<1>3. ASSUME NEW t \in Driver, Enter(t)
      PROVE  Goal
  <2>1. PICK w \in todo[t] : w.verdict # "UNCHECKED" /\ Author(w.at, Written(w))
    BY <1>3 DEF Enter
  <2>2. w \in Job /\ w.at \in Node /\ Faithful(w)
    BY DEF TypeOK, Job, JobsInv
  <2>3. Written(w) \in SUBSET Body
    BY <2>1, <2>2, WrittenBodies
  <2>4. w.at \in Honest => SignsInGoodFaith(Written(w))
    BY <2>1, <2>2, RulingInGoodFaith
  <2> QED BY <2>1, <2>2, <2>3, <2>4, AuthorSigns
<1>4. ASSUME NEW n \in Initiator, NEW i \in Insight, NEW r \in BOOLEAN, ProbationTick(n, i, r)
      PROVE  Goal
  <2> DEFINE B == {StatusBody(v, "REVOKED", "PROBATION") : v \in Subtree(log[n], i)}
  <2>1. n \in Node /\ (Author(n, B) \/ UNCHANGED <<log, seq>>)
    BY <1>4 DEF ProbationTick
  <2>2. B \in SUBSET Body
    BY SubtreeBodies DEF Cause
  <2>3. SignsInGoodFaith(B)
    BY DemotionsInGoodFaith DEF StatusBody
  <2> QED BY <2>1, <2>2, <2>3, AuthorSigns
<1>5. ASSUME NEW i \in Insight, Revoke(i)
      PROVE  Goal
  <2> DEFINE c == [p \in Node |-> {StatusBody(v, "REVOKED", "OPERATOR") :
                                     v \in Subtree(log[p], i)}]
  <2>1. c \in [Node -> SUBSET Body]
    BY SubtreeBodies DEF Cause
  <2>2. \A p \in Node : SignsInGoodFaith(c[p])
    BY DemotionsInGoodFaith DEF StatusBody
  <2>3. HealthyAuthor(c)
    BY <1>5 DEF Revoke
  <2> QED BY <2>1, <2>2, <2>3, HealthyAuthorSigns
<1>6. ASSUME NEW i \in Insight, Tombstone(i)
      PROVE  Goal
  <2> DEFINE c == [p \in Node |-> {TombstoneBody(v) : v \in Subtree(log[p], i)}]
  <2>1. c \in [Node -> SUBSET Body]
    BY SubtreeBodies
  <2>2. \A p \in Node : SignsInGoodFaith(c[p])
    BY DemotionsInGoodFaith DEF TombstoneBody
  <2>3. HealthyAuthor(c)
    BY <1>6 DEF Tombstone
  <2> QED BY <2>1, <2>2, <2>3, HealthyAuthorSigns
<1>7. ASSUME NEW n \in Rogue, Compromised(n)
      PROVE  Goal
  <2>1. PICK x \in RogueBody : Author(n, {x})
    BY <1>7 DEF Compromised
  <2>2. n \in Node /\ {x} \in SUBSET Body /\ n \notin Honest
    BY DEF Honest
  <2> QED BY <2>1, <2>2, AuthorSigns
<1>8. CASE GossipRound
  BY <1>8
<1>9. ASSUME NEW n \in Victim, TakeDown(n) \/ Restore(n) \/ Isolate(n)
      PROVE  Goal
  BY <1>9 DEF TakeDown, Restore, Isolate
<1>10. CASE Heal
  BY <1>10 DEF Heal
<1>11. CASE Tick
  BY <1>11 DEF Tick
<1>12. CASE UNCHANGED vars
  BY <1>12 DEF vars
<1> HIDE DEF Goal
<1>13. ASSUME NEW i \in Prunable, Revoke(i) \/ Tombstone(i)
       PROVE  Goal
  BY <1>5, <1>6, <1>13
<1>14. CASE Next
  BY <1>1, <1>2, <1>3, <1>4, <1>7, <1>8, <1>9, <1>10, <1>11, <1>13, <1>14 DEF Next
<1> QED BY <1>12, <1>14

\* Only what the threads do touches what they have in hand.
LEMMA TodoSource ==
    ASSUME [Next]_vars
    PROVE  \/ UNCHANGED todo
           \/ \E t \in Driver :
                 \/ Check(t) \/ Enter(t)
                 \/ \E n \in Node : Survey(t, n)
                 \/ \E n \in Node, i \in Insight : Announce(t, n, i)
<1>1. CASE Next
  BY <1>1 DEF Next, DraftAndSubmit, InjectRaw, GossipRound, ProbationTick, Revoke, Tombstone,
              Compromised, TakeDown, Restore, Isolate, Heal, Tick
<1>2. CASE UNCHANGED vars
  BY <1>2 DEF vars
<1> QED BY <1>1, <1>2

-----------------------------------------------------------------------------
(* The invariant holds initially and is preserved *)

\* The inductive invariant holds initially.
LEMMA IInvInit == Init => IInv
<1> SUFFICES ASSUME Init PROVE IInv
  OBVIOUS
<1>1. \A n \in Node : log[n] = {}
  BY DEF Init
<1>2. Honest \subseteq Node
  BY DEF Honest
<1>3. \A t \in Driver : todo[t] = {}
  BY DEF Init
<1> QED BY <1>1, <1>2, <1>3, TypeInit
        DEF IInv, BodyIsBound, OwnEntriesAtHome, HonestSignatures, JobsInv

\* Where an entry of the next state comes from.
LEMMA GossipSource ==
    ASSUME GossipRound, TypeOK, NEW n \in Node, NEW e \in log'[n]
    PROVE  \/ e \in log[n]
           \/ ValidBody(e.body) /\ \E m \in Node : e \in log[m]
  BY DEF GossipRound, Admitted, TypeOK

\* A signing step adds to a replica only its own node's fresh entries.
LEMMA SigningSource ==
    ASSUME NEW b, Signing(b), TypeOK, NEW n \in Node, NEW e \in log'[n], e \notin log[n]
    PROVE  /\ e.author = n
           /\ e.seq = seq[n]
           /\ e.body \in b[n]
           /\ seq'[n] = seq[n] + 1
           /\ e = [author |-> n, seq |-> seq[n], body |-> e.body]
<1>1. e \in Signed(n, seq[n], b[n])
  BY DEF Signing
<1>2. PICK x \in b[n] : e = [author |-> n, seq |-> seq[n], body |-> x]
  BY <1>1 DEF Signed
<1> QED BY <1>2 DEF Signing

\* No step removes an entry from a replica.
LEMMA LogsGrow ==
    ASSUME TypeOK, JobsInv, [Next]_vars
    PROVE  \A n \in Node : log[n] \subseteq log'[n] /\ seq[n] <= seq'[n]
<1>0. \A n \in Node : seq[n] \in Nat
  BY DEF TypeOK
<1>1. CASE UNCHANGED <<log, seq>>
  BY <1>0, <1>1
<1>2. CASE GossipRound
  BY <1>0, <1>2 DEF GossipRound
<1>3. ASSUME NEW b, HonestSigning(b)
      PROVE  \A n \in Node : log[n] \subseteq log'[n] /\ seq[n] <= seq'[n]
  BY <1>0, <1>3 DEF HonestSigning, Signing
<1> QED BY <1>1, <1>2, <1>3, StepShape

\* Every step keeps honest replicas free of bodies under a foreign id.
LEMMA BodyIsBoundNext == IInv /\ [Next]_vars => BodyIsBound'
<1> SUFFICES ASSUME IInv, [Next]_vars,
                    NEW n \in Honest, NEW e \in log'[n], e.body.kind = "INSIGHT"
             PROVE  e.body.content = e.body.id
  BY DEF BodyIsBound
<1> USE DEF IInv
<1>1. n \in Node
  BY DEF Honest
<1>2. CASE e \in log[n]
  BY <1>2 DEF BodyIsBound
<1>3. CASE GossipRound
  BY <1>1, <1>2, <1>3, GossipSource DEF ValidBody
<1>4. ASSUME NEW b, HonestSigning(b), e \notin log[n]
      PROVE  e.body.content = e.body.id
  <2>1. e.body \in b[n]
    BY <1>1, <1>4, SigningSource DEF HonestSigning
  <2> QED BY <2>1, <1>4 DEF HonestSigning, SignsInGoodFaith, ValidBody
<1> QED BY <1>1, <1>2, <1>3, <1>4, StepShape

\* Every step keeps entries at home first, under used sequence numbers.
LEMMA OwnEntriesNext == IInv /\ [Next]_vars => OwnEntriesAtHome'
<1> SUFFICES ASSUME IInv, [Next]_vars, NEW n \in Node, NEW e \in log'[n]
             PROVE  /\ e.seq < seq'[e.author]
                    /\ ValidBody(e.body) => e \in log'[e.author]
  BY DEF OwnEntriesAtHome
<1> USE DEF IInv
<1>1. ASSUME NEW m \in Node, e \in log[m]
      PROVE  /\ e.seq < seq'[e.author]
             /\ ValidBody(e.body) => e \in log'[e.author]
  <2>1. e.author \in Node /\ e.seq \in Nat
    <3>1. e \in Entry
      BY <1>1 DEF TypeOK
    <3> QED BY <3>1 DEF Entry
  <2>2. /\ e.seq < seq[e.author]
        /\ ValidBody(e.body) => e \in log[e.author]
    BY <1>1 DEF OwnEntriesAtHome
  <2>3. seq[e.author] \in Nat /\ seq'[e.author] \in Nat
    BY <2>1, TypeNext DEF TypeOK
  <2> QED BY <2>1, <2>2, <2>3, LogsGrow
<1>2. CASE GossipRound
  BY <1>1, <1>2, GossipSource
<1>3. ASSUME NEW b, HonestSigning(b), e \notin log[n]
      PROVE  /\ e.seq < seq'[e.author]
             /\ ValidBody(e.body) => e \in log'[e.author]
  <2>1. e.author = n /\ e.seq = seq[n] /\ seq'[n] = seq[n] + 1
    BY <1>3, SigningSource DEF HonestSigning
  <2>2. seq[n] \in Nat
    BY DEF TypeOK
  <2> QED BY <2>1, <2>2
<1> QED BY <1>1, <1>2, <1>3, StepShape

\* Every step keeps what honest nodes signed honestly meant.
LEMMA HonestSignaturesNext == IInv /\ [Next]_vars => HonestSignatures'
<1> SUFFICES ASSUME IInv, [Next]_vars,
                    NEW n \in Node, NEW e \in log'[n], e.author \in Honest
             PROVE  HonestlyMeant(e.body)
  BY DEF HonestSignatures, HonestlyMeant
<1> USE DEF IInv
<1>1. ASSUME NEW m \in Node, e \in log[m] PROVE HonestlyMeant(e.body)
  BY <1>1 DEF HonestSignatures
<1>2. CASE GossipRound
  BY <1>1, <1>2, GossipSource
<1>3. ASSUME NEW b, HonestSigning(b), e \notin log[n]
      PROVE  HonestlyMeant(e.body)
  <2>1. e.author = n /\ e.body \in b[n]
    BY <1>3, SigningSource DEF HonestSigning
  <2> QED BY <2>1, <1>3 DEF HonestSigning, SignsInGoodFaith
<1> QED BY <1>1, <1>2, <1>3, StepShape

\* A check and what it finds out.
LEMMA DecisionFaithful ==
    ASSUME NEW w \in Job, Faithful(w)
    PROVE  Faithful([w EXCEPT !.verdict = Decision(w.at, w.copy)])
<1> DEFINE x == [w EXCEPT !.verdict = Decision(w.at, w.copy)]
<1>1. x.at = w.at /\ x.copy = w.copy /\ x.verdict = Decision(w.at, w.copy)
  BY DEF Job
<1> HIDE DEF x
<1>2. ASSUME w.at \in Honest PROVE w.copy.content = w.copy.id
  BY <1>2 DEF Faithful
<1>3. Decision(w.at, w.copy) \in {Static(w.copy), "RATE_LIMITED", "ALLOW"}
  BY DEF Decision
<1>4. Static(w.copy) \in {Verdict[w.copy.content], "INVALID_SIG"}
  BY DEF Static
<1>5. Decision(w.at, w.copy) = "ALLOW" => Static(w.copy) = "ALLOW"
  BY DEF Decision
<1>6. "ALLOW" \notin Reason /\ "INVALID_SIG" \in Reason
  OBVIOUS
<1>7. Faithful(x)
  BY <1>1, <1>2, <1>3, <1>4, <1>5, <1>6 DEF Faithful, Mishap
<1> QED BY <1>7 DEF x

\* Every step keeps the threads' work in order.
LEMMA JobsNext == IInv /\ [Next]_vars => JobsInv'
<1> SUFFICES ASSUME IInv, [Next]_vars, NEW t \in Driver, NEW v \in todo'[t]
             PROVE  /\ Faithful(v)
                    /\ \A w \in todo'[t] :
                          \/ v.copy.id = w.copy.id
                          \/ v.verdict # "UNCHECKED" /\ w.verdict # "UNCHECKED"
                          => v = w
  BY DEF JobsInv, Faithful
<1> USE DEF IInv
<1>0. todo \in [Driver -> SUBSET Job]
  BY DEF TypeOK
<1>1. /\ \A x \in todo[t] : Faithful(x)
      /\ \A x \in todo[t] : \A w \in todo[t] :
              \/ x.copy.id = w.copy.id
              \/ x.verdict # "UNCHECKED" /\ w.verdict # "UNCHECKED"
              => x = w
  BY DEF JobsInv
<1>2. CASE todo'[t] \subseteq todo[t]
  BY <1>1, <1>2
<1>3. ASSUME NEW n \in Node, NEW i \in Insight, Announce(t, n, i)
      PROVE  Faithful(v) /\ \A w \in todo'[t] : v = w
  <2>1. v = Unchecked(n, InsightBody(i)) /\ todo'[t] = {v}
    BY <1>0, <1>3 DEF Announce
  <2>2. v.copy = InsightBody(i) /\ v.verdict = "UNCHECKED"
    BY <2>1 DEF Unchecked
  <2>3. v.copy.content = v.copy.id
    BY <2>2 DEF InsightBody
  <2>4. "UNCHECKED" \notin Reason
    OBVIOUS
  <2> QED BY <2>1, <2>2, <2>3, <2>4 DEF Faithful
<1>4. ASSUME NEW n \in Node, Survey(t, n)
      PROVE  /\ Faithful(v)
             /\ \A w \in todo'[t] : w.verdict = "UNCHECKED" /\ (v.copy.id = w.copy.id => v = w)
  <2>1. todo'[t] = {Unchecked(n, Copy(log[n], i)) : i \in Due(n)}
    BY <1>0, <1>4 DEF Survey
  <2>2. \A w \in todo'[t] : \E i \in Due(n) : w = Unchecked(n, Copy(log[n], i))
    BY <2>1
  <2>3. \A i \in Due(n) : Copy(log[n], i).id = i /\ Known(log[n], i)
    BY DueTypes
  <2>4. \A w \in todo'[t] :
           /\ w.copy.id \in Due(n)
           /\ w = Unchecked(n, Copy(log[n], w.copy.id))
           /\ w.at = n /\ w.verdict = "UNCHECKED" /\ w.copy = Copy(log[n], w.copy.id)
    BY <2>2, <2>3 DEF Unchecked
  <2>5. ASSUME n \in Honest PROVE v.copy.content = v.copy.id
    <3>1. v.copy.id \in Insight /\ Known(log[n], v.copy.id) /\ log[n] \in SUBSET Entry
      BY <2>3, <2>4 DEF Due, TypeOK
    <3>2. PICK e \in About(log[n], "INSIGHT", v.copy.id) : Copy(log[n], v.copy.id) = e.body
      BY <3>1, CopyIsHeld
    <3> QED BY <2>4, <2>5, <3>2 DEF About, BodyIsBound
  <2>6. "UNCHECKED" \notin Reason
    OBVIOUS
  <2>7. Faithful(v)
    BY <2>4, <2>5, <2>6 DEF Faithful
  <2>8. ASSUME NEW w \in todo'[t], v.copy.id = w.copy.id PROVE v = w
    BY <2>4, <2>8
  <2> QED BY <2>4, <2>7, <2>8
<1>5. ASSUME Check(t)
      PROVE  /\ Faithful(v)
             /\ \A w \in todo'[t] :
                   \/ v.copy.id = w.copy.id
                   \/ v.verdict # "UNCHECKED" /\ w.verdict # "UNCHECKED"
                   => v = w
  <2>1. PICK u \in todo[t] :
           todo' = [todo EXCEPT ![t] = (@ \ {u}) \cup
                      {[u EXCEPT !.verdict = Decision(u.at, u.copy)]}]
    BY <1>5 DEF Check
  <2> DEFINE x == [u EXCEPT !.verdict = Decision(u.at, u.copy)]
  <2>2. u \in Job
    BY <1>0
  <2>3. todo'[t] = (todo[t] \ {u}) \cup {x} /\ x.copy = u.copy
    BY <1>0, <2>1, <2>2 DEF Job
  <2>4. Faithful(x)
    BY <1>1, <2>2, DecisionFaithful
  <2>5. \A w \in todo[t] : w.verdict = "UNCHECKED"
    BY <1>5 DEF Check
  <2> HIDE DEF x
  <2>6. \A w \in todo[t] \ {u} : w.copy.id # x.copy.id
    BY <1>1, <2>3
  <2> QED BY <1>1, <2>3, <2>4, <2>5, <2>6
<1>6. ASSUME Enter(t) PROVE todo'[t] \subseteq todo[t]
  BY <1>0, <1>6 DEF Enter
<1>7. ASSUME NEW s \in Driver, s # t,
             \/ Check(s) \/ Enter(s)
             \/ \E n \in Node : Survey(s, n)
             \/ \E n \in Node, i \in Insight : Announce(s, n, i)
      PROVE  todo'[t] = todo[t]
  BY <1>0, <1>7 DEF Check, Enter, Survey, Announce
<1> QED BY <1>2, <1>3, <1>4, <1>5, <1>6, <1>7, TodoSource

\* The invariant is inductive.
LEMMA IInvNext == IInv /\ [Next]_vars => IInv'
  BY TypeNext, BodyIsBoundNext, OwnEntriesNext, HonestSignaturesNext, JobsNext
     DEF IInv

\* The inductive invariant holds in every reachable state.
THEOREM Inductive == Spec => []IInv
  BY IInvInit, IInvNext, PTL DEF Spec

-----------------------------------------------------------------------------
(* What follows for the insights *)

\* The voters of an honest kind, read off the replica.
LEMMA HonestOkMeans ==
    ASSUME IInv, NEW n \in Node, NEW i \in Insight, NEW h,
           NEW a \in Honest, a \in OkVoters(log[n], i, h)
    PROVE  Passes(i) /\ h = Measured[i]
<1>1. PICK e \in log[n] : /\ e.author = a /\ e.body.kind = "ATTEST" /\ e.body.id = i
                          /\ e.body.ok /\ e.body.replay_hash = h
  BY DEF OkVoters, Authors, Standing, About
<1>2. HonestlyMeant(e.body)
  BY <1>1 DEF IInv, HonestSignatures
<1> QED BY <1>1, <1>2 DEF HonestlyMeant

\* Honest nodes sign no status but REVOKED.
LEMMA OnlyRevocations ==
    ASSUME IInv, NEW n \in Node, NEW i \in Insight, NEW s \in Status,
           Quorate(StatusVoters(log[n], i, s))
    PROVE  s = "REVOKED"
<1>1. log[n] \in SUBSET Entry
  BY DEF IInv, TypeOK
<1>2. StatusVoters(log[n], i, s) \in SUBSET Node
  BY <1>1, VotersAreNodes
<1>3. PICK a \in Honest : a \in StatusVoters(log[n], i, s)
  BY <1>2, HonestInQuorum
<1>4. CASE s # "REVOKED"
  <2>1. PICK e \in log[n] : e.author = a /\ e.body.kind = "STATUS" /\ e.body.status = s
    BY <1>3, <1>4 DEF StatusVoters, Authors, About
  <2>2. HonestlyMeant(e.body)
    BY <2>1 DEF IInv, HonestSignatures
  <2> QED BY <2>1, <2>2 DEF HonestlyMeant
<1> QED BY <1>4

\* Fewer than QUORUM compromised nodes verify nothing the guardrail denies or
\* the replay does not confirm.
LEMMA PoisonStaysOut == IInv => NoPoisonVerified
<1> SUFFICES ASSUME IInv, NEW n \in Honest, NEW i \in Insight,
                    StatusOf(log[n], i) = "VERIFIED"
             PROVE  Verdict[i] = "ALLOW" /\ Verifies(i)
  BY DEF NoPoisonVerified, Verified
<1>1. n \in Node /\ log[n] \in SUBSET Entry
  BY DEF Honest, IInv, TypeOK
<1>2. "VERIFIED" \in Reached(log[n], i)
  BY StatusIsHighest
<1>3. ~Quorate(StatusVoters(log[n], i, "VERIFIED"))
  BY <1>1, OnlyRevocations DEF Status
<1>4. Derived(log[n], i) = "VERIFIED"
  BY <1>2, <1>3 DEF Reached
<1>5. PICK h \in Hash \cup Reason : Quorate(OkVoters(log[n], i, h))
  BY <1>4 DEF Derived
<1>6. PICK a \in Honest : a \in OkVoters(log[n], i, h)
  <2>1. OkVoters(log[n], i, h) \in SUBSET Node
    BY <1>1, VotersAreNodes
  <2> QED BY <1>5, <2>1, HonestInQuorum
<1> QED BY <1>1, <1>6, HonestOkMeans DEF Passes

\* A demotion takes a quorum, and a quorum holds an honest node.
LEMMA NoRogueDemotion == IInv => DemotionNeedsHonestVoter
<1> SUFFICES ASSUME IInv, NEW n \in Honest, NEW i \in Insight,
                    StatusOf(log[n], i) \in {"QUARANTINED", "REVOKED"}
             PROVE  Honest \cap (BadVoters(log[n], i) \cup
                                 StatusVoters(log[n], i, "REVOKED")) # {}
  BY DEF DemotionNeedsHonestVoter
<1>1. n \in Node /\ log[n] \in SUBSET Entry
  BY DEF Honest, IInv, TypeOK
<1>2. StatusOf(log[n], i) \in Reached(log[n], i)
  BY StatusIsHighest
<1>3. CASE StatusOf(log[n], i) = Derived(log[n], i)
  <2>1. Quorate(BadVoters(log[n], i))
    BY <1>3 DEF Derived
  <2>2. BadVoters(log[n], i) \in SUBSET Node
    BY <1>1, VotersAreNodes
  <2> QED BY <2>1, <2>2, HonestInQuorum
<1>4. CASE StatusOf(log[n], i) # Derived(log[n], i)
  <2>1. /\ StatusOf(log[n], i) \in Status
        /\ Quorate(StatusVoters(log[n], i, StatusOf(log[n], i)))
    BY <1>2, <1>4 DEF Reached
  <2>2. StatusOf(log[n], i) = "REVOKED"
    BY <1>1, <2>1, OnlyRevocations
  <2>3. StatusVoters(log[n], i, "REVOKED") \in SUBSET Node
    BY <1>1, VotersAreNodes
  <2> QED BY <2>1, <2>2, <2>3, HonestInQuorum
<1> QED BY <1>3, <1>4

\* An author with a ruling in a replica has a last one, which stands.
LEMMA StandingExists ==
    ASSUME IInv, NEW n \in Node, NEW i \in Insight,
           NEW a \in Authors(About(log[n], "ATTEST", i))
    PROVE  \E e \in Standing(log[n], i) : e.author = a
<1> DEFINE A == {e \in About(log[n], "ATTEST", i) : e.author = a}
           Q == {seq[a] - e.seq : e \in A}
<1>1. A # {} /\ A \subseteq Entry
  BY DEF Authors, About, IInv, TypeOK
<1>2. a \in Node /\ seq[a] \in Nat
  BY <1>1 DEF Entry, IInv, TypeOK
<1>3. \A e \in A : e.author = a /\ e.seq \in Nat /\ e.seq < seq[a]
  BY <1>1 DEF Entry, About, IInv, OwnEntriesAtHome
<1> HIDE DEF A
<1>4. Q \subseteq Nat /\ Q # {}
  BY <1>1, <1>2, <1>3
<1>5. \E q \in Q : \A y \in Q : ~(<<y, q>> \in OpToRel(<, Nat))
  <2> HIDE DEF Q
  <2> QED BY <1>4, NatLessThanWellFounded, WFMin
<1>6. PICK q \in Q : \A y \in Q : ~(y < q)
  BY <1>4, <1>5 DEF OpToRel
<1>7. PICK e \in A : q = seq[a] - e.seq
  BY <1>6
<1>8. ASSUME NEW f \in A PROVE f.seq <= e.seq
  <2>1. ~(seq[a] - f.seq < seq[a] - e.seq)
    BY <1>6, <1>7
  <2>2. f.seq \in Nat /\ e.seq \in Nat
    BY <1>3
  <2> QED BY <1>2, <2>1, <2>2
<1>9. e \in Standing(log[n], i)
  <2>1. \A f \in About(log[n], "ATTEST", i) : f.author = e.author => f \in A
    BY <1>3 DEF A
  <2>2. e \in About(log[n], "ATTEST", i)
    BY DEF A
  <2> QED BY <1>8, <2>1, <2>2 DEF Standing
<1>10. e.author = a
  BY <1>3, <1>7
<1> QED BY <1>9, <1>10

\* What an honest node's standing ruling is worth to a replica: a sound insight gets
\* its vote unless the ruling was a mishap, any other gets its objection.
HonestVotesCount ==
    \A n \in Node, i \in Insight : \A a \in HonestRulers(log[n], i) :
        IF Passes(i) THEN \/ a \in OkVoters(log[n], i, Measured[i])
                         \/ a \in Misled(log[n], i)
                    ELSE a \in BadVoters(log[n], i)

\* Honest rulings agree with guardrail and replay, mishaps aside.
LEMMA HonestVotes == IInv => HonestVotesCount
<1> SUFFICES ASSUME IInv, NEW n \in Node, NEW i \in Insight,
                    NEW a \in HonestRulers(log[n], i)
             PROVE  IF Passes(i) THEN \/ a \in OkVoters(log[n], i, Measured[i])
                                     \/ a \in Misled(log[n], i)
                                ELSE a \in BadVoters(log[n], i)
  BY DEF HonestVotesCount
<1>1. a \in Honest /\ a \in Authors(About(log[n], "ATTEST", i))
  BY DEF HonestRulers
<1>2. PICK e \in Standing(log[n], i) : e.author = a
  <2>1. \A b \in Authors(About(log[n], "ATTEST", i)) :
           \E e \in Standing(log[n], i) : e.author = b
    BY StandingExists, Zenon
  <2> QED BY <1>1, <2>1, Zenon
<1>3. e \in log[n] /\ e.body.kind = "ATTEST" /\ e.body.id = i
  BY DEF Standing, About
<1>4. HonestlyMeant(e.body)
  BY <1>1, <1>2, <1>3 DEF IInv, HonestSignatures
<1>5. CASE e.body.ok
  <2>1. Passes(i) /\ e.body.replay_hash = Measured[i]
    BY <1>3, <1>4, <1>5 DEF HonestlyMeant
  <2> QED BY <1>2, <1>5, <2>1 DEF OkVoters, Authors
<1>6. CASE ~e.body.ok
  <2>1. e.body.replay_hash \in Mishap \/ ~Passes(i)
    BY <1>3, <1>4, <1>6 DEF HonestlyMeant
  <2>2. a \in BadVoters(log[n], i)
    BY <1>2, <1>6 DEF BadVoters, Authors
  <2>3. e.body.replay_hash \in Mishap => a \in Misled(log[n], i)
    BY <1>2 DEF Misled, Authors
  <2> QED BY <2>1, <2>2, <2>3
<1> QED BY <1>5, <1>6

\* So a quorum of them is a quorum for one outcome.
LEMMA HonestDecision == IInv => HonestPeersDecide
<1> SUFFICES ASSUME IInv, NEW n \in Honest, NEW i \in Insight,
                    Quorate(HonestRulers(log[n], i)),
                    Passes(i) => Honest \cap Misled(log[n], i) = {}
             PROVE  IF Passes(i) THEN Rank(StatusOf(log[n], i)) >= Rank("VERIFIED")
                                ELSE Rank(StatusOf(log[n], i)) >= Rank("QUARANTINED")
  BY DEF HonestPeersDecide, Passes
<1> DEFINE V == HonestRulers(log[n], i)
<1>1. n \in Node /\ log[n] \in SUBSET Entry
  BY DEF Honest, IInv, TypeOK
<1>2. V \in SUBSET Node /\ V \subseteq Honest
  BY DEF HonestRulers, Honest
<1>3. \A a \in V : IF Passes(i) THEN a \in OkVoters(log[n], i, Measured[i])
                               ELSE a \in BadVoters(log[n], i)
  BY <1>1, <1>2, HonestVotes DEF HonestVotesCount
<1> HIDE DEF V
<1>4. CASE Passes(i)
  <2>1. V \subseteq OkVoters(log[n], i, Measured[i])
    BY <1>3, <1>4
  <2>2. Quorate(OkVoters(log[n], i, Measured[i]))
    BY <1>1, <1>2, <2>1, VotersAreNodes, QuorumGrows DEF V
  <2>3. Measured[i] \in Hash \cup Reason
    OBVIOUS
  <2> QED BY <1>4, <2>2, <2>3, OkQuorumRank
<1>5. CASE ~Passes(i)
  <2>1. V \subseteq BadVoters(log[n], i)
    BY <1>3, <1>5
  <2>2. Quorate(BadVoters(log[n], i))
    BY <1>1, <1>2, <2>1, VotersAreNodes, QuorumGrows DEF V
  <2> QED BY <1>5, <2>2, BadQuorumRank
<1> QED BY <1>4, <1>5

\* The action behind HonestQuorumSticks.
Sticks == \A n \in Honest, i \in Insight :
             Quorate(HonestOk(log[n], i)) =>
                \/ Rank(StatusOf(log'[n], i)) >= Rank("VERIFIED")
                \/ HonestOk(log[n], i) \cap Misled(log'[n], i) # {}

\* Rulings are not lost, so an honest node that confirmed an insight goes on to
\* confirm it unless a mishap took the place of its ruling.
LEMMA QuorumSticks == IInv /\ [Next]_vars => Sticks
<1> SUFFICES ASSUME IInv, [Next]_vars, NEW n \in Honest, NEW i \in Insight,
                    Quorate(HonestOk(log[n], i)),
                    HonestOk(log[n], i) \cap Misled(log'[n], i) = {}
             PROVE  Rank(StatusOf(log'[n], i)) >= Rank("VERIFIED")
  BY DEF Sticks
<1>1. n \in Node
  BY DEF Honest
<1>2. IInv'
  BY IInvNext
<1>3. HonestVotesCount'
  <2>1. IInv' => HonestVotesCount'
    BY HonestVotes, PTL
  <2> QED BY <1>2, <2>1
<1>4. HonestOk(log[n], i) \subseteq OkVoters(log'[n], i, Measured[i])
  <2> SUFFICES ASSUME NEW a \in HonestOk(log[n], i)
               PROVE  a \in OkVoters(log'[n], i, Measured[i])
    OBVIOUS
  <2>1. PICK e \in log[n] : e.author = a /\ e.body.kind = "ATTEST" /\ e.body.id = i
    BY DEF HonestOk, OkVoters, Authors, Standing, About
  <2>2. a \in Honest /\ Passes(i)
    BY <1>1, HonestOkMeans DEF HonestOk
  <2>3. e \in About(log'[n], "ATTEST", i)
    BY <1>1, <2>1, LogsGrow DEF IInv, About
  <2>4. a \in HonestRulers(log'[n], i)
    BY <2>1, <2>2, <2>3 DEF HonestRulers, Authors
  <2> QED BY <1>1, <1>3, <2>2, <2>4 DEF HonestVotesCount
<1>5. log'[n] \in SUBSET Entry
  BY <1>1, <1>2 DEF IInv, TypeOK
<1>6. /\ OkVoters(log'[n], i, Measured[i]) \in SUBSET Node
      /\ HonestOk(log[n], i) \in SUBSET Node
  BY <1>5, VotersAreNodes DEF HonestOk, Honest
<1>7. Quorate(OkVoters(log'[n], i, Measured[i]))
  BY <1>4, <1>6, QuorumGrows
<1>8. Measured[i] \in Hash \cup Reason
  OBVIOUS
<1> QED BY <1>7, <1>8, OkQuorumRank

\* The theorems, for every membership with fewer than QUORUM compromised nodes,
\* every set of insights, and every interleaving of the handlers with faults.

\* No honest replica ever holds content under an id it does not hash to.
THEOREM ContentIsBound == Spec => []BodyIsBound
  BY Inductive, PTL DEF IInv

\* Entries are found nowhere before they are in their author's log.
THEOREM EntriesComeFromHome == Spec => []OwnEntriesAtHome
  BY Inductive, PTL DEF IInv

\* A minority of compromised nodes verifies nothing false.
THEOREM NoPoisonIsVerified == Spec => []NoPoisonVerified
  BY Inductive, PoisonStaysOut, PTL

\* A minority of compromised nodes demotes nothing.
THEOREM NoDemotionByRogues == Spec => []DemotionNeedsHonestVoter
  BY Inductive, NoRogueDemotion, PTL

\* What a quorum of honest nodes decides is right: a sound insight is VERIFIED at
\* least unless an honest ruling was a mishap (a full limiter, or a copy whose
\* signature a compromised node spoiled), any other is QUARANTINED at least.
THEOREM HonestQuorumDecides == Spec => []HonestPeersDecide
  BY Inductive, HonestDecision, PTL

\* An insight a quorum of honest nodes confirmed falls below VERIFIED only if one of
\* them rules a second time, and by mishap.
THEOREM ConfirmationSticks == Spec => HonestQuorumSticks
<1>1. IInv /\ [Next]_vars => [Sticks]_vars
  BY QuorumSticks
<1> QED BY <1>1, Inductive, PTL DEF Spec, HonestQuorumSticks, Sticks

-----------------------------------------------------------------------------
(* What the threads sign *)

\* A step in which the threads do nothing, and no honest node signs anything a
\* guardrail has to do with.
Quiet ==
    /\ UNCHANGED <<todo, subs>>
    /\ \A n \in Honest : \A e \in log'[n] :
          e.author = n /\ e.body.kind \in {"INSIGHT", "ATTEST", "GUARDRAIL_DENY"}
             => e \in log[n]

\* Every other step is an injection, or a thread's.
LEMMA StepKind ==
    ASSUME IInv, [Next]_vars
    PROVE  \/ Quiet
           \/ \E n \in Node, i \in Insight : InjectRaw(n, i)
           \/ \E t \in Driver : Check(t) \/ Enter(t) \/ \E n \in Node : Survey(t, n)
           \/ \E t \in Driver, n \in Node, i \in Insight : Announce(t, n, i)
<1>0. log \in [Node -> SUBSET Entry] /\ Honest \subseteq Node
  BY DEF Honest, IInv, TypeOK
<1>1. ASSUME NEW m \in Node, NEW B, Author(m, B), NEW n \in Honest,
             m # n \/ \A x \in B : x.kind \in {"STATUS", "TOMBSTONE"},
             NEW e \in log'[n], e.body.kind \in {"INSIGHT", "ATTEST", "GUARDRAIL_DENY"}
      PROVE  e \in log[n]
  <2>1. e \in log[n] \/ (m = n /\ e \in Signed(m, seq[m], B))
    BY <1>0, <1>1 DEF Author
  <2>2. \A f \in Signed(m, seq[m], B) : f.body \in B
    BY DEF Signed
  <2> QED BY <1>1, <2>1, <2>2
<1>2. CASE GossipRound
  <2>1. \A n \in Honest : \A e \in log'[n] : e.author = n => e \in log[n]
    BY <1>0, <1>2, GossipSource DEF IInv, OwnEntriesAtHome
  <2> QED BY <1>2, <2>1 DEF GossipRound, Quiet
<1>3. ASSUME NEW m \in Initiator, NEW i \in Insight, NEW r \in BOOLEAN,
             ProbationTick(m, i, r)
      PROVE  Quiet
  <2> DEFINE B == {StatusBody(v, "REVOKED", "PROBATION") : v \in Subtree(log[m], i)}
  <2>1. m \in Node /\ (Author(m, B) \/ UNCHANGED log) /\ UNCHANGED <<todo, subs>>
    BY <1>3 DEF ProbationTick
  <2>2. \A x \in B : x.kind \in {"STATUS", "TOMBSTONE"}
    BY DEF StatusBody
  <2> HIDE DEF B
  <2> QED BY <1>1, <2>1, <2>2 DEF Quiet
<1>4. ASSUME NEW i \in Insight, Revoke(i) \/ Tombstone(i)
      PROVE  Quiet
  <2>1. PICK b : /\ HealthyAuthor(b)
                 /\ \A n \in Node : \A x \in b[n] : x.kind \in {"STATUS", "TOMBSTONE"}
    <3>1. CASE Revoke(i)
      BY <3>1 DEF Revoke, StatusBody
    <3>2. CASE Tombstone(i)
      BY <3>2 DEF Tombstone, TombstoneBody
    <3> QED BY <1>4, <3>1, <3>2
  <2>2. \A n \in Honest : \A e \in log'[n] :
           e.body.kind \in {"INSIGHT", "ATTEST", "GUARDRAIL_DENY"} => e \in log[n]
    <3>1. \A n \in Honest : \A e \in log'[n] : e \in log[n] \/ e \in Signed(n, seq[n], b[n])
      BY <1>0, <2>1 DEF HealthyAuthor
    <3>2. \A n : \A e \in Signed(n, seq[n], b[n]) : e.body \in b[n]
      BY DEF Signed
    <3> QED BY <1>0, <2>1, <3>1, <3>2
  <2>3. UNCHANGED <<todo, subs>>
    BY <1>4 DEF Revoke, Tombstone
  <2> QED BY <2>2, <2>3 DEF Quiet
<1>5. ASSUME NEW m \in Rogue, Compromised(m)
      PROVE  Quiet
  <2>1. m \in Node /\ m \notin Honest
    BY DEF Honest
  <2>2. PICK B : Author(m, B) /\ UNCHANGED <<todo, subs>>
    BY <1>5 DEF Compromised
  <2> QED BY <1>1, <2>1, <2>2 DEF Quiet
<1>6. CASE UNCHANGED <<log, todo, subs>>
  BY <1>6 DEF Quiet
<1>7. ASSUME NEW m \in Node, TakeDown(m) \/ Restore(m) \/ Isolate(m)
      PROVE  UNCHANGED <<log, todo, subs>>
  BY <1>7 DEF TakeDown, Restore, Isolate
<1>8. ASSUME Heal \/ Tick \/ UNCHANGED vars
      PROVE  UNCHANGED <<log, todo, subs>>
  BY <1>8 DEF Heal, Tick, vars
<1> QED BY <1>2, <1>3, <1>4, <1>5, <1>6, <1>7, <1>8 DEF Next, DraftAndSubmit

\* A ruling as it is signed.
Ruling(w) == IF w.verdict = "ALLOW"
             THEN AttestBody(w.copy.id, Verifies(w.copy.content), Measured[w.copy.content])
             ELSE AttestBody(w.copy.id, FALSE, w.verdict)

\* What is written of a job says what came of it.
LEMMA WrittenShape ==
    ASSUME NEW w \in Job, w.verdict # "UNCHECKED", NEW x \in Written(w)
    PROVE  /\ x.id = w.copy.id
           /\ x.kind \in {"INSIGHT", "ATTEST", "GUARDRAIL_DENY"}
           /\ x.kind = "INSIGHT" => w.verdict = "ALLOW"
           /\ x.kind = "ATTEST" => /\ ~IsOwn(w)
                                   /\ x = Ruling(w)
                                   /\ x.replay_hash \in Hash <=> w.verdict = "ALLOW"
           /\ x.kind = "GUARDRAIL_DENY" => /\ x.reason = w.verdict
                                           /\ w.verdict # "ALLOW"
<1>1. /\ w.copy.kind = "INSIGHT" /\ w.copy.content \in Insight
      /\ w.verdict \in Reason \cup {"ALLOW"}
  BY DEF Job, InsightCopy
<1>2. CASE w.verdict = "ALLOW"
  <2>1. Measured[w.copy.content] \in Hash
    BY <1>1
  <2>2. (x = w.copy /\ IsOwn(w)) \/ (x = Ruling(w) /\ ~IsOwn(w))
    BY <1>2 DEF Written, Passed, Ruling
  <2> QED BY <1>1, <1>2, <2>1, <2>2 DEF Ruling, AttestBody
<1>3. CASE w.verdict # "ALLOW"
  <2>1. w.verdict \notin Hash
    BY <1>1, <1>3
  <2>2. x = DenyBody(w.copy.id, w.verdict) \/ (x = Ruling(w) /\ ~IsOwn(w))
    BY <1>3 DEF Written, Denied, Ruling
  <2> QED BY <1>3, <2>1, <2>2 DEF Ruling, AttestBody, DenyBody
<1> QED BY <1>2, <1>3

\* An allowed job is written as one body, which counts as let through.
LEMMA AllowedShape ==
    ASSUME NEW w \in Job, w.verdict = "ALLOW"
    PROVE  \E x : /\ Written(w) = {x} /\ x.id = w.copy.id
                  /\ \/ x.kind = "INSIGHT"
                     \/ x.kind = "ATTEST" /\ x.replay_hash \in Hash
<1>1. w.copy.kind = "INSIGHT" /\ Measured[w.copy.content] \in Hash
  BY DEF Job, InsightCopy
<1>2. Written(w) = {w.copy} \/ Written(w) = {Ruling(w)}
  BY DEF Written, Passed, Ruling
<1>3. /\ Ruling(w).id = w.copy.id /\ Ruling(w).kind = "ATTEST"
      /\ Ruling(w).replay_hash = Measured[w.copy.content]
  BY DEF Ruling, AttestBody
<1>4. CASE Written(w) = {w.copy}
  BY <1>1, <1>4
<1>5. CASE Written(w) = {Ruling(w)}
  BY <1>1, <1>3, <1>5
<1> QED BY <1>2, <1>4, <1>5

\* What signing a job changes.
LEMMA EnterStep ==
    ASSUME TypeOK, NEW t \in Driver, Enter(t)
    PROVE  \E w \in todo[t] :
              /\ w \in Job /\ w.verdict # "UNCHECKED"
              /\ \A n \in Node \ {w.at} : log'[n] = log[n]
              /\ log'[w.at] = log[w.at] \cup Signed(w.at, seq[w.at], Written(w))
              /\ todo' = [todo EXCEPT ![t] = @ \ {w}]
              /\ subs' = subs
<1>1. PICK w \in todo[t] : /\ w.verdict # "UNCHECKED"
                           /\ Author(w.at, Written(w))
                           /\ todo' = [todo EXCEPT ![t] = @ \ {w}]
                           /\ UNCHANGED subs
  BY DEF Enter
<1>2. w \in Job /\ w.at \in Node
  BY DEF TypeOK, Job
<1>3. /\ \A n \in Node \ {w.at} : log'[n] = log[n]
      /\ log'[w.at] = log[w.at] \cup Signed(w.at, seq[w.at], Written(w))
  BY <1>1, <1>2 DEF Author, TypeOK
<1> QED BY <1>1, <1>2, <1>3

\* Threads are few.
LEMMA ThreadsFinite ==
    ASSUME NEW T \in SUBSET Driver
    PROVE  /\ IsFiniteSet(T) /\ Cardinality(T) \in Nat /\ Cardinality(Driver) \in Nat
           /\ Cardinality(T) <= Cardinality(Driver)
  BY FS_Subset, FS_CardinalityType

-----------------------------------------------------------------------------
(* Overlapping rounds *)

\* The threads about to sign a ruling of node a on i.
Owing(a, i) == {t \in Driver : \E w \in todo[t] :
                   w.at = a /\ w.copy.id = i /\ ~IsOwn(w)}

\* An honest node's rulings and the ones it is about to get are by different threads.
RulingsBounded ==
    \A a \in Honest, i \in Insight :
        /\ IsFiniteSet(Rulings(log[a], a, i))
        /\ Cardinality(Rulings(log[a], a, i)) + Cardinality(Owing(a, i))
              <= Cardinality(Driver)

\* A step that signs no ruling of a's and has no new one in hand keeps the bound.
LEMMA BoundKept ==
    ASSUME RulingsBounded, NEW a \in Honest, NEW i \in Insight,
           Rulings(log'[a], a, i) = Rulings(log[a], a, i),
           Owing(a, i)' \subseteq Owing(a, i)
    PROVE  /\ IsFiniteSet(Rulings(log'[a], a, i))
           /\ Cardinality(Rulings(log'[a], a, i)) + Cardinality(Owing(a, i)')
                 <= Cardinality(Driver)
<1> DEFINE R == Rulings(log[a], a, i)
           O == Owing(a, i)
<1>1. IsFiniteSet(R) /\ Cardinality(R) + Cardinality(O) <= Cardinality(Driver)
  BY DEF RulingsBounded
<1>2. Cardinality(R) \in Nat
  BY <1>1, FS_CardinalityType
<1>3. O \in SUBSET Driver
  BY DEF Owing
<1> HIDE DEF O
<1>4. /\ IsFiniteSet(O) /\ Cardinality(O) \in Nat /\ Cardinality(Driver) \in Nat
  BY <1>3, ThreadsFinite
<1>5. Cardinality(O') \in Nat /\ Cardinality(O') <= Cardinality(O)
  BY <1>4, FS_Subset, FS_CardinalityType DEF O
<1> HIDE DEF R
<1>6. Cardinality(R) + Cardinality(O') <= Cardinality(Driver)
  BY <1>1, <1>2, <1>4, <1>5
<1> QED BY <1>1, <1>6 DEF R, O

\* A node's replica gets rulings of its own from its threads alone.
LEMMA RulingsKept ==
    ASSUME IInv, NEW a \in Honest, NEW i \in Insight, log[a] \subseteq log'[a],
           \A e \in log'[a] : e.author = a /\ e.body.kind = "ATTEST" /\ e.body.id = i
                                 => e \in log[a]
    PROVE  Rulings(log'[a], a, i) = Rulings(log[a], a, i)
  BY DEF Rulings, About

\* A survey takes on no ruling the node has signed.
LEMMA SurveyBounded ==
    ASSUME IInv, RulingsBounded, NEW t \in Driver, NEW n \in Node, Survey(t, n),
           NEW a \in Honest, NEW i \in Insight
    PROVE  /\ IsFiniteSet(Rulings(log'[a], a, i))
           /\ Cardinality(Rulings(log'[a], a, i)) + Cardinality(Owing(a, i)')
                 <= Cardinality(Driver)
<1>0. todo \in [Driver -> SUBSET Job] /\ a \in Node
  BY DEF IInv, TypeOK, Honest
<1>1. /\ log' = log
      /\ todo' = [todo EXCEPT ![t] = {Unchecked(n, Copy(log[n], j)) : j \in Due(n)}]
  BY DEF Survey
<1>2. CASE n = a /\ i \in Due(n)
  <2>1. Rulings(log[a], a, i) = {}
    BY <1>2 DEF Due, MayRule, Authors, Rulings
  <2>2. Owing(a, i)' \in SUBSET Driver
    BY DEF Owing
  <2>3. IsFiniteSet({}) /\ Cardinality({}) = 0
    BY FS_EmptySet
  <2>4. Cardinality(Owing(a, i)') \in Nat /\ Cardinality(Owing(a, i)') <= Cardinality(Driver)
    BY <2>2, ThreadsFinite
  <2> QED BY <1>1, <2>1, <2>3, <2>4
<1>3. CASE ~(n = a /\ i \in Due(n))
  <2>1. \A w \in todo'[t] : ~(w.at = a /\ w.copy.id = i)
    <3>1. \A w \in todo'[t] : \E j \in Due(n) : w = Unchecked(n, Copy(log[n], j))
      BY <1>0, <1>1
    <3>2. \A j \in Due(n) : Copy(log[n], j).id = j
      BY DueTypes DEF IInv
    <3>3. \A w \in todo'[t] : w.at = n /\ w.copy.id \in Due(n)
      BY <3>1, <3>2 DEF Unchecked
    <3> QED BY <1>3, <3>3
  <2>2. \A s \in Driver : s # t => todo'[s] = todo[s]
    BY <1>0, <1>1
  <2>3. Owing(a, i)' \subseteq Owing(a, i)
    BY <2>1, <2>2 DEF Owing
  <2>4. Rulings(log'[a], a, i) = Rulings(log[a], a, i)
    BY <1>1
  <2> QED BY <2>3, <2>4, BoundKept
<1> QED BY <1>2, <1>3

\* Signing a ruling takes it off what is owed.
LEMMA EnterBounded ==
    ASSUME IInv, RulingsBounded, NEW t \in Driver, Enter(t),
           NEW a \in Honest, NEW i \in Insight
    PROVE  /\ IsFiniteSet(Rulings(log'[a], a, i))
           /\ Cardinality(Rulings(log'[a], a, i)) + Cardinality(Owing(a, i)')
                 <= Cardinality(Driver)
<1>0. todo \in [Driver -> SUBSET Job] /\ a \in Node
  BY DEF IInv, TypeOK, Honest
<1>1. PICK w \in todo[t] :
         /\ w \in Job /\ w.verdict # "UNCHECKED"
         /\ \A n \in Node \ {w.at} : log'[n] = log[n]
         /\ log'[w.at] = log[w.at] \cup Signed(w.at, seq[w.at], Written(w))
         /\ todo' = [todo EXCEPT ![t] = @ \ {w}]
         /\ subs' = subs
  BY EnterStep DEF IInv
<1>2. \A x \in Written(w) : x.id = w.copy.id /\ (x.kind = "ATTEST" => ~IsOwn(w) /\ x = Ruling(w))
  BY <1>1, WrittenShape
<1>3. Owing(a, i)' \subseteq Owing(a, i)
  <2>1. \A s \in Driver : todo'[s] \subseteq todo[s]
    BY <1>0, <1>1
  <2> QED BY <2>1 DEF Owing
<1>4. CASE ~(w.at = a /\ w.copy.id = i /\ ~IsOwn(w))
  <2>1. \A e \in log'[a] : e \notin log[a] =>
           /\ w.at = a /\ e.body \in Written(w)
    BY <1>0, <1>1 DEF Signed
  <2>2. \A e \in log'[a] : e.body.kind = "ATTEST" /\ e.body.id = i => e \in log[a]
    BY <1>2, <1>4, <2>1
  <2>3. log[a] \subseteq log'[a]
    BY <1>0, <1>1
  <2>4. Rulings(log'[a], a, i) = Rulings(log[a], a, i)
    BY <2>2, <2>3, RulingsKept
  <2> QED BY <1>3, <2>4, BoundKept
<1>5. CASE w.at = a /\ w.copy.id = i /\ ~IsOwn(w)
  <2> DEFINE R   == Rulings(log[a], a, i)
             O   == Owing(a, i)
             new == [author |-> a, seq |-> seq[a], body |-> Ruling(w)]
  <2>1. Rulings(log'[a], a, i) \subseteq R \cup {new}
    <3>1. \A e \in log'[a] : e \in log[a] \/
             \E x \in Written(w) : e = [author |-> a, seq |-> seq[a], body |-> x]
      BY <1>1, <1>5 DEF Signed
    <3>2. \A e \in log'[a] : e.body.kind = "ATTEST" => e \in log[a] \/ e = new
      BY <1>2, <3>1
    <3> HIDE DEF new
    <3> QED BY <3>2 DEF Rulings, About
  <2>2. IsFiniteSet(R) /\ Cardinality(R) + Cardinality(O) <= Cardinality(Driver)
    BY DEF RulingsBounded
  <2>3. O \in SUBSET Driver /\ t \in O
    BY <1>1, <1>5 DEF Owing
  <2>4. Owing(a, i)' \subseteq O \ {t}
    <3>1. \A v \in todo[t] : v # w => v.copy.id # i
      BY <1>1, <1>5 DEF IInv, JobsInv
    <3>2. todo'[t] = todo[t] \ {w}
      BY <1>0, <1>1
    <3>3. t \notin Owing(a, i)'
      BY <3>1, <3>2 DEF Owing
    <3> QED BY <1>3, <3>3
  <2> HIDE DEF R, O, new
  <2>5. /\ Cardinality(R) \in Nat
        /\ IsFiniteSet(R \cup {new}) /\ Cardinality(R \cup {new}) <= Cardinality(R) + 1
    <3>1. Cardinality(R) \in Nat
      BY <2>2, FS_CardinalityType
    <3>2. /\ IsFiniteSet(R \cup {new})
          /\ Cardinality(R \cup {new}) = IF new \in R THEN Cardinality(R) ELSE Cardinality(R) + 1
      BY <2>2, FS_AddElement
    <3> QED BY <3>1, <3>2
  <2>6. /\ IsFiniteSet(Rulings(log'[a], a, i))
        /\ Cardinality(Rulings(log'[a], a, i)) <= Cardinality(R) + 1
        /\ Cardinality(Rulings(log'[a], a, i)) \in Nat
    <3>1. /\ IsFiniteSet(Rulings(log'[a], a, i))
          /\ Cardinality(Rulings(log'[a], a, i)) <= Cardinality(R \cup {new})
      BY <2>1, <2>5, FS_Subset
    <3>2. /\ Cardinality(Rulings(log'[a], a, i)) \in Nat
          /\ Cardinality(R \cup {new}) \in Nat
      BY <2>5, <3>1, FS_CardinalityType
    <3> QED BY <2>5, <3>1, <3>2
  <2>7. /\ Cardinality(O) \in Nat /\ Cardinality(Driver) \in Nat
        /\ Cardinality(O \ {t}) = Cardinality(O) - 1 /\ IsFiniteSet(O \ {t})
    <3>1. IsFiniteSet(O) /\ Cardinality(O) \in Nat /\ Cardinality(Driver) \in Nat
      BY <2>3, ThreadsFinite
    <3>2. IsFiniteSet(O \ {t}) /\ Cardinality(O \ {t}) = IF t \in O THEN Cardinality(O) - 1
                                                                    ELSE Cardinality(O)
      BY <3>1, FS_RemoveElement
    <3> QED BY <2>3, <3>1, <3>2
  <2>8. Cardinality(Owing(a, i)') \in Nat /\ Cardinality(Owing(a, i)') <= Cardinality(O) - 1
    BY <2>4, <2>7, FS_Subset, FS_CardinalityType
  <2> QED BY <2>2, <2>5, <2>6, <2>7, <2>8
<1> QED BY <1>4, <1>5

\* Every step keeps the bound.
LEMMA RulingsBoundedNext == IInv /\ RulingsBounded /\ [Next]_vars => RulingsBounded'
<1> SUFFICES ASSUME IInv, RulingsBounded, [Next]_vars, NEW a \in Honest, NEW i \in Insight
             PROVE  /\ IsFiniteSet(Rulings(log'[a], a, i))
                    /\ Cardinality(Rulings(log'[a], a, i)) + Cardinality(Owing(a, i)')
                          <= Cardinality(Driver)
  BY DEF RulingsBounded, Owing, IsOwn
<1>0. todo \in [Driver -> SUBSET Job] /\ a \in Node /\ log \in [Node -> SUBSET Entry]
  BY DEF IInv, TypeOK, Honest
<1>1. log[a] \subseteq log'[a]
  BY <1>0, LogsGrow DEF IInv
<1>2. CASE Quiet
  <2>1. Owing(a, i)' \subseteq Owing(a, i)
    BY <1>2 DEF Quiet, Owing
  <2>2. Rulings(log'[a], a, i) = Rulings(log[a], a, i)
    BY <1>1, <1>2, RulingsKept DEF Quiet
  <2> QED BY <2>1, <2>2, BoundKept
<1>3. ASSUME NEW n \in Node, NEW j \in Insight, InjectRaw(n, j)
      PROVE  Owing(a, i)' \subseteq Owing(a, i) /\ Rulings(log'[a], a, i) = Rulings(log[a], a, i)
  <2>1. Owing(a, i)' \subseteq Owing(a, i)
    BY <1>3 DEF InjectRaw, Owing
  <2>2. \A e \in log'[a] : e \notin log[a] => e.body = InsightBody(j)
    BY <1>0, <1>3 DEF InjectRaw, Author, Signed
  <2>3. \A e \in log'[a] : e.body.kind = "ATTEST" => e \in log[a]
    BY <2>2 DEF InsightBody
  <2> QED BY <1>1, <2>1, <2>3, RulingsKept
<1>4. ASSUME NEW t \in Driver, NEW n \in Node, NEW j \in Insight, Announce(t, n, j)
      PROVE  Owing(a, i)' \subseteq Owing(a, i) /\ Rulings(log'[a], a, i) = Rulings(log[a], a, i)
  <2>1. /\ log' = log /\ DiscoveredBy[j] = n
        /\ todo' = [todo EXCEPT ![t] = {Unchecked(n, InsightBody(j))}]
    BY <1>4 DEF Announce
  <2>2. \A w \in todo'[t] : IsOwn(w)
    BY <1>0, <2>1 DEF Unchecked, InsightBody, IsOwn
  <2>3. \A s \in Driver : s # t => todo'[s] = todo[s]
    BY <1>0, <2>1
  <2>4. Owing(a, i)' \subseteq Owing(a, i)
    BY <2>2, <2>3 DEF Owing
  <2> QED BY <2>1, <2>4
<1>5. ASSUME NEW t \in Driver, Check(t)
      PROVE  Owing(a, i)' \subseteq Owing(a, i) /\ Rulings(log'[a], a, i) = Rulings(log[a], a, i)
  <2>1. PICK u \in todo[t] :
           todo' = [todo EXCEPT ![t] = (@ \ {u}) \cup
                      {[u EXCEPT !.verdict = Decision(u.at, u.copy)]}]
    BY <1>5 DEF Check
  <2> DEFINE x == [u EXCEPT !.verdict = Decision(u.at, u.copy)]
  <2>2. u \in Job
    BY <1>0
  <2>3. x.at = u.at /\ x.copy = u.copy
    BY <2>2 DEF Job
  <2>4. todo'[t] = (todo[t] \ {u}) \cup {x} /\ \A s \in Driver : s # t => todo'[s] = todo[s]
    BY <1>0, <2>1
  <2> HIDE DEF x
  <2>5. IsOwn(x) <=> IsOwn(u)
    BY <2>3 DEF IsOwn
  <2>6. Owing(a, i)' \subseteq Owing(a, i)
    BY <2>3, <2>4, <2>5 DEF Owing
  <2> QED BY <1>5, <2>6 DEF Check
<1>6. CASE \/ \E n \in Node, j \in Insight : InjectRaw(n, j)
           \/ \E t \in Driver, n \in Node, j \in Insight : Announce(t, n, j)
           \/ \E t \in Driver : Check(t)
  BY <1>3, <1>4, <1>5, <1>6, BoundKept
<1> QED BY <1>2, <1>6, SurveyBounded, EnterBounded, StepKind

\* The bound holds in every reachable state.
LEMMA RulingsAlwaysBounded == Spec => []RulingsBounded
<1>1. Init => RulingsBounded
  <2> SUFFICES ASSUME Init, NEW a \in Honest, NEW i \in Insight
               PROVE  /\ IsFiniteSet(Rulings(log[a], a, i))
                      /\ Cardinality(Rulings(log[a], a, i)) + Cardinality(Owing(a, i))
                            <= Cardinality(Driver)
    BY DEF RulingsBounded
  <2>1. Rulings(log[a], a, i) = {} /\ Owing(a, i) = {}
    BY DEF Init, Rulings, About, Owing, Honest
  <2>2. IsFiniteSet({}) /\ Cardinality({}) = 0
    BY FS_EmptySet
  <2>3. Cardinality(Driver) \in Nat
    BY FS_CardinalityType
  <2> QED BY <2>1, <2>2, <2>3
<1> QED BY <1>1, RulingsBoundedNext, Inductive, PTL DEF Spec

\* Rulings are found nowhere that are not at home.
LEMMA RulingsFromHome ==
    ASSUME IInv, NEW n \in Node, NEW a \in Node, NEW i \in Insight
    PROVE  Rulings(log[n], a, i) \subseteq Rulings(log[a], a, i)
<1>1. \A e \in log[n] : e.author = a /\ e.body.kind = "ATTEST" => e \in log[a]
  BY DEF IInv, OwnEntriesAtHome, ValidBody
<1> QED BY <1>1 DEF Rulings, About

\* However rounds overlap, an honest node rules on an insight at most once for every
\* thread that runs them.
THEOREM RulingsPerDriver == Spec => []OneRulingPerDriver
<1>1. IInv /\ RulingsBounded => OneRulingPerDriver
  <2> SUFFICES ASSUME IInv, RulingsBounded,
                      NEW n \in Node, NEW a \in Honest, NEW i \in Insight
               PROVE  Cardinality(Rulings(log[n], a, i)) <= Cardinality(Driver)
    BY DEF OneRulingPerDriver
  <2> DEFINE R == Rulings(log[a], a, i)
             N == Rulings(log[n], a, i)
             O == Owing(a, i)
  <2>1. IsFiniteSet(R) /\ Cardinality(R) + Cardinality(O) <= Cardinality(Driver)
    BY DEF RulingsBounded
  <2>2. O \in SUBSET Driver /\ N \subseteq R
    BY RulingsFromHome DEF Owing, Honest
  <2> HIDE DEF R, N, O
  <2>3. Cardinality(N) <= Cardinality(R) /\ Cardinality(N) \in Nat /\ Cardinality(R) \in Nat
    BY <2>1, <2>2, FS_Subset, FS_CardinalityType
  <2>4. Cardinality(O) \in Nat /\ Cardinality(Driver) \in Nat
    BY <2>2, ThreadsFinite
  <2>5. Cardinality(N) <= Cardinality(Driver)
    BY <2>1, <2>3, <2>4
  <2> QED BY <2>5 DEF N
<1> QED BY <1>1, Inductive, RulingsAlwaysBounded, PTL

\* No honest node rules twice on an insight.
AttestOnce ==
    \A n \in Node, a \in Honest, i \in Insight :
        \A e, f \in Rulings(log[n], a, i) : e = f

\* A mesh whose rounds never overlap.
OneDriver == \A s, t \in Driver : s = t

\* Where rounds do not overlap there is at most one thread.
LEMMA OneDriverCounts ==
    ASSUME OneDriver
    PROVE  Cardinality(Driver) <= 1
<1>1. CASE Driver = {}
  <2>1. Cardinality(Driver) = 0
    BY <1>1, FS_EmptySet
  <2> QED BY <2>1
<1>2. ASSUME NEW t \in Driver
      PROVE  Cardinality(Driver) <= 1
  <2>1. \A s \in Driver : s = t
    BY DEF OneDriver
  <2>2. Driver = {t}
    BY <1>2, <2>1
  <2>3. Cardinality({t}) = 1
    BY FS_Singleton
  <2>4. Cardinality(Driver) = 1
    BY <2>2, <2>3, Zenon
  <2> QED BY <2>4
<1> QED BY <1>1, <1>2

\* One thread leaves room for one ruling.
LEMMA OneDriverRulesOnce ==
    ASSUME OneDriver
    PROVE  IInv /\ RulingsBounded => AttestOnce
<1> SUFFICES ASSUME IInv, RulingsBounded, NEW n \in Node, NEW a \in Honest, NEW i \in Insight,
                    NEW e \in Rulings(log[n], a, i), NEW f \in Rulings(log[n], a, i), e # f
             PROVE  FALSE
  BY DEF AttestOnce
<1> DEFINE R == Rulings(log[a], a, i)
           O == Owing(a, i)
<1>1. IsFiniteSet(R) /\ Cardinality(R) + Cardinality(O) <= Cardinality(Driver)
  BY DEF RulingsBounded
<1>2. O \in SUBSET Driver /\ e \in R /\ f \in R
  BY RulingsFromHome DEF Owing, Honest
<1> HIDE DEF R, O
<1>3. Cardinality(R) \in Nat /\ Cardinality(O) \in Nat /\ Cardinality(Driver) \in Nat
  BY <1>1, <1>2, ThreadsFinite, FS_CardinalityType
<1>4. Cardinality(Driver) <= 1
  BY OneDriverCounts
<1>5. Cardinality(R \ {e}) = Cardinality(R) - 1 /\ IsFiniteSet(R \ {e})
  BY <1>1, <1>2, FS_RemoveElement
<1>6. Cardinality(R \ {e}) \in Nat /\ Cardinality(R \ {e}) # 0
  <2>1. f \in R \ {e}
    BY <1>2
  <2>2. Cardinality(R \ {e}) = 0 <=> R \ {e} = {}
    BY <1>5, FS_EmptySet
  <2> QED BY <1>5, <2>1, <2>2, FS_CardinalityType
<1> QED BY <1>1, <1>3, <1>4, <1>5, <1>6

\* Where rounds do not overlap, an honest node's ruling on an insight is final.
THEOREM HonestRulingsAreFinal ==
    ASSUME OneDriver
    PROVE  Spec => []AttestOnce
  BY OneDriverRulesOnce, Inductive, RulingsAlwaysBounded, PTL

-----------------------------------------------------------------------------
(* Probation *)

\* Node a watched i, or an insight it takes i to descend from, regress.
Watched(a, i) == \E p \in Insight : Regressed(a, p) /\ i \in Subtree(log[a], p)

ByProbation(x) == x.kind = "STATUS" /\ x.reason = "PROBATION"

\* An honest node's vote that names probation was earned on that node.
ProbationVotes ==
    \A n \in Node : \A e \in log[n] :
        e.author \in Honest /\ ByProbation(e.body) => Watched(e.author, e.body.id)

\* An honest replica shows an insight by a copy of its own content.
LEMMA CopyIsBound ==
    ASSUME IInv, NEW a \in Honest, NEW i \in Insight, Known(log[a], i)
    PROVE  Copy(log[a], i).content = i
<1>1. log[a] \in SUBSET Entry
  BY DEF Honest, IInv, TypeOK
<1>2. PICK e \in About(log[a], "INSIGHT", i) : Copy(log[a], i) = e.body
  BY <1>1, CopyIsHeld
<1> QED BY <1>2 DEF About, IInv, BodyIsBound

\* So more entries show more children, and a subtree only grows.
LEMMA SubtreeGrows ==
    ASSUME NEW S, NEW T, NEW p,
           \A i \in Insight : Known(S, i) => /\ Known(T, i)
                                             /\ Copy(S, i).content = i
                                             /\ Copy(T, i).content = i
    PROVE  Subtree(S, p) \subseteq Subtree(T, p)
<1>1. \A q : Children(S, q) \subseteq Children(T, q)
  BY DEF Children
<1>2. \A D : (\A q \in {p} \cup D : Children(T, q) \subseteq D) =>
             (\A q \in {p} \cup D : Children(S, q) \subseteq D)
  BY <1>1
<1>3. Descendants(S, p) \subseteq Descendants(T, p)
  BY <1>2 DEF Descendants
<1> QED BY <1>3 DEF Subtree

\* No step takes an insight out of a subtree an honest node sees.
LEMMA HonestSubtreeGrows ==
    ASSUME IInv, [Next]_vars, NEW a \in Honest, NEW p
    PROVE  Subtree(log[a], p) \subseteq Subtree(log'[a], p)
<1>1. log[a] \subseteq log'[a]
  BY LogsGrow DEF IInv, Honest
<1>2. \A i \in Insight : Known(log[a], i) => Known(log'[a], i)
  BY <1>1 DEF Known, About
<1>3. \A i \in Insight : Known(log[a], i) => Copy(log[a], i).content = i
  BY CopyIsBound
<1>4. IInv'
  BY IInvNext
<1>5. \A i \in Insight : Known(log'[a], i) => Copy(log'[a], i).content = i
  <2> SUFFICES ASSUME NEW i \in Insight, Known(log'[a], i)
               PROVE  Copy(log'[a], i).content = i
    OBVIOUS
  <2>1. log'[a] \in SUBSET Entry
    BY <1>4 DEF Honest, IInv, TypeOK
  <2>2. PICK e \in About(log'[a], "INSIGHT", i) : Copy(log'[a], i) = e.body
    BY <2>1, CopyIsHeld
  <2> QED BY <1>4, <2>2 DEF About, IInv, BodyIsBound
<1> QED BY <1>2, <1>3, <1>5, SubtreeGrows

\* Probation of an insight ends: what a node watched stays watched.
LEMMA WatchedStays ==
    ASSUME IInv, [Next]_vars, NEW a \in Honest, NEW i, Watched(a, i)
    PROVE  Watched(a, i)'
<1>1. PICK p \in Insight : Regressed(a, p) /\ i \in Subtree(log[a], p)
  BY DEF Watched
<1>2. probation'[a][p] = probation[a][p]
  <2>1. ASSUME NEW n \in Initiator, NEW j \in Insight, NEW r \in BOOLEAN,
               ProbationTick(n, j, r)
        PROVE  probation'[a][p] = probation[a][p]
    <3>1. probation[n][j].seen < PROBATION_N
      BY <2>1 DEF ProbationTick
    <3>2. ~(n = a /\ j = p)
      BY <1>1, <3>1 DEF Regressed
    <3>3. probation \in [Node -> [Insight -> [seen : Nat, bad : Nat]]]
      BY DEF IInv, TypeOK
    <3>4. PICK q : probation' = [probation EXCEPT ![n][j] = q]
      BY <2>1 DEF ProbationTick
    <3>5. n \in Node /\ a \in Node
      BY DEF Honest
    <3> QED BY <3>2, <3>3, <3>4, <3>5
  <2>2. ASSUME NEW t \in Driver, NEW n \in Node, NEW j \in Insight,
               Announce(t, n, j) \/ DraftAndSubmit(t, n, j)
        PROVE  UNCHANGED probation
    BY <2>2 DEF Announce, DraftAndSubmit
  <2>3. ASSUME NEW j \in Prunable, Revoke(j) \/ Tombstone(j)
        PROVE  UNCHANGED probation
    BY <2>3 DEF Revoke, Tombstone
  <2>4. ASSUME NEW n \in Node,
               Compromised(n) \/ TakeDown(n) \/ Restore(n) \/ Isolate(n)
        PROVE  UNCHANGED probation
    BY <2>4 DEF Compromised, TakeDown, Restore, Isolate
  <2>5. CASE GossipRound \/ Heal \/ Tick \/ UNCHANGED vars
    BY <2>5 DEF GossipRound, Heal, Tick, vars
  <2>6. ASSUME NEW n \in Node, NEW j \in Insight, InjectRaw(n, j)
        PROVE  UNCHANGED probation
    BY <2>6 DEF InjectRaw
  <2>7. ASSUME NEW t \in Driver, Check(t) \/ Enter(t)
        PROVE  UNCHANGED probation
    BY <2>7 DEF Check, Enter
  <2>8. ASSUME NEW t \in Driver, NEW n \in Node, Survey(t, n)
        PROVE  UNCHANGED probation
    BY <2>8 DEF Survey
  <2> QED BY <2>1, <2>2, <2>3, <2>4, <2>5, <2>6, <2>7, <2>8 DEF Next
<1>3. Regressed(a, p)'
  BY <1>1, <1>2 DEF Regressed
<1>4. i \in Subtree(log'[a], p)
  BY <1>1, HonestSubtreeGrows
<1> QED BY <1>3, <1>4 DEF Watched

\* Nothing but a probation tick signs an honest vote that names probation.
LEMMA ProbationSource ==
    ASSUME IInv, [Next]_vars, NEW n \in Node, NEW e \in log'[n], e \notin log[n],
           e.author \in Honest, ByProbation(e.body)
    PROVE  \/ GossipRound
           \/ \E m \in Initiator, i \in Insight, r \in BOOLEAN : ProbationTick(m, i, r)
<1>0. log \in [Node -> SUBSET Entry]
  BY DEF IInv, TypeOK
<1>1. ASSUME NEW m \in Node, NEW B, Author(m, B) PROVE e.author = m /\ e.body \in B
  BY <1>0, <1>1 DEF Author, Signed
<1>2. ASSUME NEW B, HealthyAuthor(B) PROVE e.body \in B[n]
  BY <1>0, <1>2 DEF HealthyAuthor, Signed
<1>3. ASSUME NEW m \in Node, NEW i \in Insight, InjectRaw(m, i)
      PROVE  FALSE
  <2>1. e.body = InsightBody(i)
    BY <1>1, <1>3 DEF InjectRaw
  <2> QED BY <2>1 DEF InsightBody, ByProbation
<1>4. ASSUME NEW t \in Driver, Enter(t)
      PROVE  FALSE
  <2>1. PICK w \in todo[t] : w.verdict # "UNCHECKED" /\ Author(w.at, Written(w))
    BY <1>4 DEF Enter
  <2>2. w \in Job /\ w.at \in Node
    BY DEF IInv, TypeOK, Job
  <2>3. e.body \in Written(w)
    BY <1>1, <2>1, <2>2
  <2>4. e.body.kind # "STATUS"
    BY <2>1, <2>2, <2>3, WrittenShape
  <2> QED BY <2>4 DEF ByProbation
<1>5. ASSUME NEW i \in Insight, Revoke(i) \/ Tombstone(i)
      PROVE  FALSE
  BY <1>2, <1>5 DEF Revoke, Tombstone, ByProbation, StatusBody, TombstoneBody
<1>6. ASSUME NEW m \in Rogue, Compromised(m)
      PROVE  FALSE
  BY <1>1, <1>6 DEF Compromised, Honest
<1>7. CASE UNCHANGED log
  BY <1>7
<1>8. ASSUME NEW t \in Driver, NEW m \in Node, NEW i \in Insight,
             Announce(t, m, i) \/ DraftAndSubmit(t, m, i)
      PROVE  UNCHANGED log
  BY <1>8 DEF Announce, DraftAndSubmit
<1>9. ASSUME NEW t \in Driver, Check(t) PROVE UNCHANGED log
  BY <1>9 DEF Check
<1>10. ASSUME NEW t \in Driver, NEW m \in Node, Survey(t, m) PROVE UNCHANGED log
  BY <1>10 DEF Survey
<1>11. ASSUME NEW m \in Node, TakeDown(m) \/ Restore(m) \/ Isolate(m)
       PROVE  UNCHANGED log
  BY <1>11 DEF TakeDown, Restore, Isolate
<1>12. CASE Heal \/ Tick \/ UNCHANGED vars
  BY <1>7, <1>12 DEF Heal, Tick, vars
<1> QED BY <1>3, <1>4, <1>5, <1>6, <1>7, <1>8, <1>9, <1>10, <1>11, <1>12 DEF Next

\* Every step keeps honest probation votes earned.
LEMMA ProbationVotesNext == IInv /\ ProbationVotes /\ [Next]_vars => ProbationVotes'
<1> SUFFICES ASSUME IInv, ProbationVotes, [Next]_vars,
                    NEW n \in Node, NEW e \in log'[n], e.author \in Honest,
                    ByProbation(e.body)
             PROVE  Watched(e.author, e.body.id)'
  BY DEF ProbationVotes, ByProbation
<1>1. ASSUME NEW m \in Node, e \in log[m] PROVE Watched(e.author, e.body.id)'
  BY <1>1, WatchedStays DEF ProbationVotes
<1>2. CASE GossipRound
  BY <1>1, <1>2, GossipSource DEF IInv
<1>3. ASSUME NEW m \in Initiator, NEW i \in Insight, NEW r \in BOOLEAN,
             ProbationTick(m, i, r), e \notin log[n]
      PROVE  Watched(e.author, e.body.id)'
  <2> DEFINE B == {StatusBody(v, "REVOKED", "PROBATION") : v \in Subtree(log[m], i)}
             q == [seen |-> probation[m][i].seen + 1,
                   bad |-> probation[m][i].bad + IF r THEN 1 ELSE 0]
  <2>1. m \in Node /\ VotesToRevoke(q) /\ Author(m, B)
    BY <1>3 DEF ProbationTick
  <2>2. e \in Signed(m, seq[m], B)
    BY <1>3, <2>1 DEF Author, IInv, TypeOK
  <2>3. PICK v \in Subtree(log[m], i) :
           e = [author |-> m, seq |-> seq[m], body |-> StatusBody(v, "REVOKED", "PROBATION")]
    BY <2>2 DEF Signed
  <2>4. e.author = m /\ e.body.id = v
    BY <2>3 DEF StatusBody
  <2>5. v \in Subtree(log'[m], i)
    BY <2>4, HonestSubtreeGrows
  <2>6. probation'[m][i] = q
    BY <1>3, <2>1 DEF ProbationTick, IInv, TypeOK
  <2>7. Regressed(m, i)'
    BY <2>1, <2>6 DEF Regressed, VotesToRevoke
  <2> QED BY <2>4, <2>5, <2>7 DEF Watched
<1> QED BY <1>1, <1>2, <1>3, ProbationSource

\* A revocation no operator asked for is a quorum of probation votes.
LEMMA RevocationsEarned == IInv /\ ProbationVotes => RevocationIsEarned
<1> SUFFICES ASSUME IInv, ProbationVotes, NEW n \in Honest, NEW i \in Insight,
                    StatusOf(log[n], i) = "REVOKED", OperatorVotes(log[n], i) = {}
             PROVE  Quorate(Rogue \cup {a \in Honest : Watched(a, i)})
  BY DEF RevocationIsEarned, Watched
<1> DEFINE V == StatusVoters(log[n], i, "REVOKED")
           W == Rogue \cup {a \in Honest : Watched(a, i)}
<1>1. n \in Node /\ log[n] \in SUBSET Entry
  BY DEF Honest, IInv, TypeOK
<1>2. Quorate(V)
  <2>1. "REVOKED" \in Reached(log[n], i)
    BY StatusIsHighest
  <2>2. Derived(log[n], i) # "REVOKED"
    BY DEF Derived
  <2> QED BY <2>1, <2>2 DEF Reached
<1>3. V \subseteq W
  <2> SUFFICES ASSUME NEW a \in V, a \notin Rogue
               PROVE  a \in Honest /\ Watched(a, i)
    OBVIOUS
  <2>1. a \in Honest
    BY <1>1, VotersAreNodes DEF Honest
  <2>2. PICK e \in log[n] : /\ e.author = a /\ e.body.id = i
                            /\ e.body.kind \in {"STATUS", "TOMBSTONE"}
    BY DEF StatusVoters, Authors, About
  <2>3. e.body.kind = "STATUS" /\ e.body.reason # "OPERATOR"
    BY <2>2 DEF OperatorVotes
  <2>4. e.body \in Body
    BY <1>1 DEF Entry
  <2>5. e.body.reason \in Cause
    BY <2>3, <2>4 DEF Body, InsightCopy
  <2>6. ByProbation(e.body)
    BY <2>3, <2>5 DEF ByProbation, Cause
  <2> QED BY <1>1, <2>1, <2>2, <2>6 DEF ProbationVotes
<1>4. V \in SUBSET Node /\ W \in SUBSET Node
  BY <1>1, VotersAreNodes DEF Honest
<1> QED BY <1>2, <1>3, <1>4, QuorumGrows

\* Probation revokes nothing on one node's bad luck.
THEOREM RevocationsAreEarned == Spec => []RevocationIsEarned
<1>1. Init => ProbationVotes
  BY DEF Init, ProbationVotes
<1>2. Spec => []ProbationVotes
  BY <1>1, Inductive, ProbationVotesNext, PTL DEF Spec
<1> QED BY <1>2, Inductive, RevocationsEarned, PTL

-----------------------------------------------------------------------------
(* The rate limiter *)

\* A limiter remembers no more submissions of a source than were let through.
Counted ==
    \A n \in Honest, src \in Node :
        /\ IsFiniteSet(LetThrough(n, src))
        /\ Len(subs[n][src]) <= Cardinality(LetThrough(n, src)) + Cardinality(InHand(n, src))

\* A denial that is about to be signed is earned like one that was.
PendingEarned ==
    \A t \in Driver : \A w \in todo[t] :
        w.at \in Honest /\ w.verdict = "RATE_LIMITED" =>
            LET src == DiscoveredBy[w.copy.id]
            IN  Cardinality(LetThrough(w.at, src)) + Cardinality(InHand(w.at, src))
                   >= RATE_LIMIT_N

\* Room for one more, in numbers.
LEMMA OneMore ==
    ASSUME NEW k \in Nat, NEW l \in Nat, k <= l
    PROVE  k <= l + 1
  OBVIOUS

\* What a check does to the limiter, in lengths.
LEMMA RecordLengths ==
    ASSUME TypeOK, NEW n \in Node, NEW b \in InsightCopy, Record(n, b)
    PROVE  /\ \A m, s \in Node :
                 /\ Len(subs'[m][s]) <= Len(subs[m][s]) + 1
                 /\ \/ m = n /\ s = DiscoveredBy[b.content] /\ Decision(n, b) = "ALLOW"
                    \/ Len(subs'[m][s]) <= Len(subs[m][s])
           /\ Decision(n, b) = "RATE_LIMITED" =>
                 Len(subs[n][DiscoveredBy[b.content]]) >= RATE_LIMIT_N
<1> DEFINE src == DiscoveredBy[b.content]
           old == subs[n][src]
           q   == Recent(old)
<1>0. subs \in [Node -> [Node -> Seq(Nat)]] /\ b.content \in Insight
  BY DEF TypeOK, InsightCopy
<1>1. /\ src \in Node /\ now \in Nat
      /\ \A m, s \in Node : subs[m][s] \in Seq(Nat) /\ Len(subs[m][s]) \in Nat
  BY <1>0, LenProperties DEF TypeOK
<1>2. q \in Seq(Nat) /\ Len(q) <= Len(old)
  BY <1>1, RecentType
<1>3. Len(Append(q, now)) = Len(q) + 1 /\ Len(q) \in Nat
  BY <1>1, <1>2, AppendProperties, LenProperties
<1>5. Static(b) # "RATE_LIMITED"
  BY <1>0 DEF Static
<1> HIDE DEF q, old
<1>6. CASE Static(b) # "ALLOW"
  <2>1. subs' = subs
    BY <1>6 DEF Record
  <2>2. Decision(n, b) = Static(b)
    BY <1>6 DEF Decision
  <2> QED BY <1>1, <1>5, <1>6, <2>1, <2>2
<1>7. CASE Static(b) = "ALLOW" /\ Len(q) >= RATE_LIMIT_N
  <2>1. subs' = [subs EXCEPT ![n][src] = q]
    BY <1>7 DEF Record, q, old
  <2>2. Decision(n, b) = "RATE_LIMITED"
    BY <1>7 DEF Decision, q, old
  <2>3. /\ subs'[n][src] = q
        /\ \A m, s \in Node : ~(m = n /\ s = src) => subs'[m][s] = subs[m][s]
    BY <1>0, <1>1, <2>1
  <2>4. ASSUME NEW m \in Node, NEW s \in Node PROVE Len(subs'[m][s]) <= Len(subs[m][s])
    <3>1. CASE m = n /\ s = src
      BY <1>2, <2>3, <3>1 DEF old
    <3>2. CASE ~(m = n /\ s = src)
      <4>1. subs'[m][s] = subs[m][s]
        BY <2>3, <3>2
      <4> QED BY <1>1, <4>1
    <3> QED BY <3>1, <3>2
  <2>5. Len(old) >= RATE_LIMIT_N
    <3>1. Len(old) \in Nat /\ RATE_LIMIT_N \in Nat
      BY <1>1 DEF old
    <3> QED BY <1>2, <1>3, <1>7, <3>1
  <2>6. \A m, s \in Node : Len(subs'[m][s]) <= Len(subs[m][s]) + 1
    <3> SUFFICES ASSUME NEW m \in Node, NEW s \in Node
                 PROVE  Len(subs'[m][s]) <= Len(subs[m][s]) + 1
      OBVIOUS
    <3>1. subs'[m][s] \in Seq(Nat)
      BY RecordType
    <3>2. Len(subs'[m][s]) \in Nat /\ Len(subs[m][s]) \in Nat
      BY <1>1, <3>1, LenProperties
    <3>3. Len(subs'[m][s]) <= Len(subs[m][s])
      BY <2>4
    <3> HIDE DEF src
    <3> QED BY <3>2, <3>3, OneMore
  <2> QED BY <2>2, <2>4, <2>5, <2>6 DEF old
<1>8. CASE Static(b) = "ALLOW" /\ ~(Len(q) >= RATE_LIMIT_N)
  <2>1. subs' = [subs EXCEPT ![n][src] = Append(q, now)]
    BY <1>8 DEF Record, q, old
  <2>2. Decision(n, b) = "ALLOW"
    BY <1>8 DEF Decision, q, old
  <2>3. /\ subs'[n][src] = Append(q, now)
        /\ \A m, s \in Node : ~(m = n /\ s = src) => subs'[m][s] = subs[m][s]
    BY <1>0, <1>1, <2>1
  <2>4. Len(subs'[n][src]) <= Len(subs[n][src]) + 1
    <3>1. Len(old) \in Nat
      BY <1>1 DEF old
    <3> QED BY <1>2, <1>3, <2>3, <3>1 DEF old
  <2>5. ASSUME NEW m \in Node, NEW s \in Node
        PROVE  /\ Len(subs'[m][s]) <= Len(subs[m][s]) + 1
               /\ (m = n /\ s = src) \/ Len(subs'[m][s]) <= Len(subs[m][s])
    <3>1. CASE m = n /\ s = src
      BY <2>4, <3>1
    <3>2. CASE ~(m = n /\ s = src)
      <4>1. subs'[m][s] = subs[m][s]
        BY <2>3, <3>2
      <4> QED BY <1>1, <4>1
    <3> QED BY <3>1, <3>2
  <2> QED BY <2>2, <2>5
<1> QED BY <1>6, <1>7, <1>8

\* How a step may take what was let through from A to B, the threads about to let
\* through more from T to U, and what is remembered from l to k: nothing is lost, and
\* what is counted is in one of the two.
Shift(A, T, l, B, U, k) ==
    \/ B = A /\ T \subseteq U /\ k <= l
    \/ B = A /\ (\E t \in U \ T : T \subseteq U) /\ k <= l + 1
    \/ (\E x : x \notin A /\ B = A \cup {x}) /\ (\E t : T \ {t} \subseteq U) /\ k <= l

CountStep(n, src) == Shift(LetThrough(n, src), InHand(n, src), Len(subs[n][src]),
                           LetThrough(n, src)', InHand(n, src)', Len(subs'[n][src]))

\* The numbers behind it.
LEMMA SumGrows ==
    ASSUME NEW A, NEW B, NEW T \in SUBSET Driver, NEW U \in SUBSET Driver,
           NEW l \in Nat, NEW k \in Nat,
           IsFiniteSet(A), l <= Cardinality(A) + Cardinality(T),
           Shift(A, T, l, B, U, k)
    PROVE  /\ IsFiniteSet(B)
           /\ Cardinality(A) + Cardinality(T) <= Cardinality(B) + Cardinality(U)
           /\ k <= Cardinality(B) + Cardinality(U)
           /\ Cardinality(A) \in Nat /\ Cardinality(B) \in Nat
           /\ Cardinality(T) \in Nat /\ Cardinality(U) \in Nat
<1>1. /\ IsFiniteSet(T) /\ Cardinality(T) \in Nat
      /\ IsFiniteSet(U) /\ Cardinality(U) \in Nat
  BY ThreadsFinite
<1>2. Cardinality(A) \in Nat
  BY FS_CardinalityType
<1>3. CASE B = A /\ T \subseteq U /\ k <= l
  <2>1. Cardinality(T) <= Cardinality(U)
    BY <1>1, <1>3, FS_Subset
  <2> QED BY <1>1, <1>2, <1>3, <2>1
<1>4. CASE B = A /\ (\E t \in U \ T : T \subseteq U) /\ k <= l + 1
  <2>1. PICK t \in U \ T : T \cup {t} \subseteq U
    BY <1>4
  <2>2. IsFiniteSet(T \cup {t}) /\ Cardinality(T \cup {t}) = Cardinality(T) + 1
    BY <1>1, <2>1, FS_AddElement
  <2>3. Cardinality(T \cup {t}) <= Cardinality(U)
    BY <1>1, <2>1, FS_Subset
  <2> QED BY <1>1, <1>2, <1>4, <2>2, <2>3
<1>5. CASE (\E x : x \notin A /\ B = A \cup {x}) /\ (\E t : T \ {t} \subseteq U) /\ k <= l
  <2>1. PICK x : x \notin A /\ B = A \cup {x}
    BY <1>5
  <2>2. IsFiniteSet(B) /\ Cardinality(B) = Cardinality(A) + 1
    BY <2>1, FS_AddElement
  <2>3. PICK t : T \ {t} \subseteq U
    BY <1>5
  <2>4. /\ IsFiniteSet(T \ {t}) /\ Cardinality(T \ {t}) \in Nat
        /\ Cardinality(T) <= Cardinality(T \ {t}) + 1
    <3>1. /\ IsFiniteSet(T \ {t})
          /\ Cardinality(T \ {t}) = IF t \in T THEN Cardinality(T) - 1 ELSE Cardinality(T)
      BY <1>1, FS_RemoveElement
    <3>2. Cardinality(T \ {t}) \in Nat
      BY <3>1, FS_CardinalityType
    <3> QED BY <1>1, <3>1, <3>2
  <2>5. Cardinality(T \ {t}) <= Cardinality(U)
    BY <1>1, <2>3, FS_Subset
  <2> QED BY <1>1, <1>2, <1>5, <2>2, <2>4, <2>5
<1> QED BY <1>3, <1>4, <1>5 DEF Shift

\* A node's entry with a fresh number is an entry more.
LEMMA FreshEntry ==
    ASSUME IInv, NEW n \in Node, NEW x
    PROVE  [author |-> n, seq |-> seq[n], body |-> x] \notin log[n]
<1> SUFFICES ASSUME NEW e \in log[n], e = [author |-> n, seq |-> seq[n], body |-> x]
             PROVE  FALSE
  OBVIOUS
<1>1. e.seq < seq[n] /\ e.seq = seq[n] /\ seq[n] \in Nat
  BY DEF IInv, OwnEntriesAtHome, TypeOK
<1> QED BY <1>1

\* An injection is let through by no limiter, and counted by none.
LEMMA InjectCounts ==
    ASSUME IInv, NEW m \in Node, NEW j \in Insight, InjectRaw(m, j),
           NEW n \in Honest, NEW src \in Node
    PROVE  /\ LetThrough(n, src)' = LetThrough(n, src)
              \/ \E x : /\ x \notin LetThrough(n, src)
                        /\ LetThrough(n, src)' = LetThrough(n, src) \cup {x}
           /\ UNCHANGED <<subs, todo>>
<1> DEFINE new == [author |-> m, seq |-> seq[m], body |-> InsightBody(j)]
<1>1. n \in Node /\ log \in [Node -> SUBSET Entry]
  BY DEF Honest, IInv, TypeOK
<1>2. /\ log'[m] = log[m] \cup {new} /\ \A p \in Node \ {m} : log'[p] = log[p]
      /\ UNCHANGED <<subs, todo>>
  BY <1>1 DEF InjectRaw, Author, Signed
<1>3. new \notin log[m]
  BY FreshEntry
<1> HIDE DEF new
<1>4. CASE n # m
  BY <1>1, <1>2, <1>4 DEF LetThrough
<1>5. CASE n = m
  <2>1. CASE new \in LetThrough(n, src)'
    <3>1. LetThrough(n, src)' = LetThrough(n, src) \cup {new}
      BY <1>2, <1>5, <2>1 DEF LetThrough
    <3>2. new \notin LetThrough(n, src)
      BY <1>3, <1>5 DEF LetThrough
    <3> QED BY <1>2, <3>1, <3>2
  <2>2. CASE new \notin LetThrough(n, src)'
    <3>1. LetThrough(n, src)' = LetThrough(n, src)
      BY <1>2, <1>5, <2>2 DEF LetThrough
    <3> QED BY <1>2, <3>1
  <2> QED BY <2>1, <2>2
<1> QED BY <1>4, <1>5

\* What a check changes.
LEMMA CheckStep ==
    ASSUME IInv, NEW t \in Driver, Check(t)
    PROVE  \E w \in todo[t], x \in Job :
              /\ w \in Job /\ Faithful(w) /\ Record(w.at, w.copy)
              /\ x.at = w.at /\ x.copy = w.copy /\ x.verdict = Decision(w.at, w.copy)
              /\ \A v \in todo[t] : v.verdict = "UNCHECKED"
              /\ todo'[t] = (todo[t] \ {w}) \cup {x}
              /\ \A s \in Driver \ {t} : todo'[s] = todo[s]
              /\ log' = log
<1>1. PICK w \in todo[t] :
         /\ Record(w.at, w.copy)
         /\ todo' = [todo EXCEPT ![t] = (@ \ {w}) \cup
                       {[w EXCEPT !.verdict = Decision(w.at, w.copy)]}]
  BY DEF Check
<1> DEFINE x == [w EXCEPT !.verdict = Decision(w.at, w.copy)]
<1>2. w \in Job /\ Faithful(w) /\ todo \in [Driver -> SUBSET Job]
  BY DEF IInv, TypeOK, JobsInv
<1>3. x.at = w.at /\ x.copy = w.copy /\ x.verdict = Decision(w.at, w.copy)
  BY <1>2 DEF Job
<1>4. x \in Job
  <2>1. w.at \in Node /\ w.copy \in InsightCopy
    BY <1>2 DEF Job
  <2> QED BY <1>2, <2>1, JobTypes
<1>5. /\ todo'[t] = (todo[t] \ {w}) \cup {x}
      /\ \A s \in Driver \ {t} : todo'[s] = todo[s]
  BY <1>1, <1>2
<1>6. log' = log /\ \A v \in todo[t] : v.verdict = "UNCHECKED"
  BY DEF Check
<1> HIDE DEF x
<1> QED BY <1>1, <1>2, <1>3, <1>4, <1>5, <1>6

\* A check counts a submission if it is allowed, and then has it in hand.
LEMMA CheckCounts ==
    ASSUME IInv, NEW t \in Driver, Check(t), NEW n \in Honest, NEW src \in Node
    PROVE  CountStep(n, src)
<1>1. PICK w \in todo[t], x \in Job :
         /\ w \in Job /\ Faithful(w) /\ Record(w.at, w.copy)
         /\ x.at = w.at /\ x.copy = w.copy /\ x.verdict = Decision(w.at, w.copy)
         /\ \A v \in todo[t] : v.verdict = "UNCHECKED"
         /\ todo'[t] = (todo[t] \ {w}) \cup {x}
         /\ \A s \in Driver \ {t} : todo'[s] = todo[s]
         /\ log' = log
  BY CheckStep
<1>2. /\ n \in Node /\ w.at \in Node /\ w.copy \in InsightCopy
      /\ Len(subs[n][src]) \in Nat /\ Len(subs'[n][src]) \in Nat
  <2>1. n \in Node /\ w.at \in Node /\ w.copy \in InsightCopy
    BY <1>1 DEF Honest, Job
  <2>2. subs[n][src] \in Seq(Nat)
    BY <2>1 DEF IInv, TypeOK
  <2>3. subs'[n][src] \in Seq(Nat)
    BY <1>1, <2>1, RecordType DEF IInv
  <2> QED BY <2>1, <2>2, <2>3, LenProperties
<1>3. LetThrough(n, src)' = LetThrough(n, src)
  BY <1>1 DEF LetThrough
<1>4. t \notin InHand(n, src) /\ InHand(n, src) \subseteq InHand(n, src)'
  <2>1. t \notin InHand(n, src)
    BY <1>1 DEF InHand
  <2>2. \A s \in Driver \ {t} : s \in InHand(n, src) => s \in InHand(n, src)'
    BY <1>1 DEF InHand
  <2> QED BY <2>1, <2>2 DEF InHand
<1> DEFINE mine == w.at = n /\ src = DiscoveredBy[w.copy.content]
                            /\ Decision(w.at, w.copy) = "ALLOW"
<1>5. /\ Len(subs'[n][src]) <= Len(subs[n][src]) + 1
      /\ mine \/ Len(subs'[n][src]) <= Len(subs[n][src])
  <2>1. \A m, s \in Node :
           /\ Len(subs'[m][s]) <= Len(subs[m][s]) + 1
           /\ \/ /\ m = w.at /\ s = DiscoveredBy[w.copy.content]
                 /\ Decision(w.at, w.copy) = "ALLOW"
              \/ Len(subs'[m][s]) <= Len(subs[m][s])
    BY <1>1, <1>2, RecordLengths DEF IInv
  <2> QED BY <1>2, <2>1
<1>6. CASE mine
  <2>1. w.copy.content = w.copy.id
    BY <1>1, <1>6 DEF Faithful
  <2>2. t \in InHand(n, src)'
    BY <1>1, <1>6, <2>1 DEF InHand
  <2> QED BY <1>3, <1>4, <1>5, <2>2 DEF CountStep, Shift
<1>7. CASE ~mine
  <2>1. Len(subs'[n][src]) <= Len(subs[n][src])
    BY <1>5, <1>7
  <2> QED BY <1>3, <1>4, <2>1 DEF CountStep, Shift
<1> QED BY <1>6, <1>7

\* Signing moves what was in hand to what was let through.
LEMMA EnterCounts ==
    ASSUME IInv, NEW t \in Driver, Enter(t), NEW n \in Honest, NEW src \in Node
    PROVE  CountStep(n, src)
<1>0. /\ n \in Node /\ log \in [Node -> SUBSET Entry] /\ todo \in [Driver -> SUBSET Job]
      /\ Len(subs[n][src]) \in Nat
  <2>1. n \in Node
    BY DEF Honest
  <2>2. subs[n][src] \in Seq(Nat)
    BY <2>1 DEF IInv, TypeOK
  <2> QED BY <2>1, <2>2, LenProperties DEF IInv, TypeOK
<1>1. PICK w \in todo[t] :
         /\ w \in Job /\ w.verdict # "UNCHECKED"
         /\ \A m \in Node \ {w.at} : log'[m] = log[m]
         /\ log'[w.at] = log[w.at] \cup Signed(w.at, seq[w.at], Written(w))
         /\ todo' = [todo EXCEPT ![t] = @ \ {w}]
         /\ subs' = subs
  BY EnterStep DEF IInv
<1>2. todo'[t] = todo[t] \ {w} /\ \A s \in Driver \ {t} : todo'[s] = todo[s]
  BY <1>0, <1>1
<1>3. Len(subs'[n][src]) <= Len(subs[n][src])
  BY <1>0, <1>1
<1> DEFINE mine == w.at = n /\ w.verdict = "ALLOW" /\ DiscoveredBy[w.copy.id] = src
<1>4. CASE mine
  <2>1. PICK x : /\ Written(w) = {x} /\ x.id = w.copy.id
                 /\ \/ x.kind = "INSIGHT"
                    \/ x.kind = "ATTEST" /\ x.replay_hash \in Hash
    BY <1>1, <1>4, AllowedShape
  <2> DEFINE new == [author |-> n, seq |-> seq[n], body |-> x]
  <2>2. log'[n] = log[n] \cup {new}
    BY <1>1, <1>4, <2>1 DEF Signed
  <2>3. new \notin log[n]
    BY <1>0, FreshEntry
  <2>4. new.author = n /\ new.body = x
    OBVIOUS
  <2> HIDE DEF new
  <2>5. new \notin LetThrough(n, src) /\ LetThrough(n, src)' = LetThrough(n, src) \cup {new}
    BY <1>4, <2>1, <2>2, <2>3, <2>4 DEF LetThrough
  <2>6. InHand(n, src) \ {t} \subseteq InHand(n, src)'
    BY <1>2 DEF InHand
  <2> QED BY <1>3, <2>5, <2>6 DEF CountStep, Shift
<1>5. CASE ~mine
  <2>1. \A e \in log'[n] : e \in log[n] \/ (w.at = n /\ e.body \in Written(w))
    <3>1. \A e \in Signed(w.at, seq[w.at], Written(w)) : e.body \in Written(w)
      BY DEF Signed
    <3> QED BY <1>0, <1>1, <3>1
  <2>2. \A y \in Written(w) :
           /\ y.id = w.copy.id
           /\ y.kind = "INSIGHT" => w.verdict = "ALLOW"
           /\ y.kind = "ATTEST" => (y.replay_hash \in Hash <=> w.verdict = "ALLOW")
    BY <1>1, WrittenShape
  <2>3. \A e \in LetThrough(n, src)' : e \in log[n]
    BY <1>5, <2>1, <2>2 DEF LetThrough
  <2>4. log[n] \subseteq log'[n]
    BY <1>0, <1>1
  <2>5. LetThrough(n, src)' = LetThrough(n, src)
    BY <2>3, <2>4 DEF LetThrough
  <2>6. InHand(n, src) \subseteq InHand(n, src)'
    BY <1>2, <1>5 DEF InHand
  <2> QED BY <1>3, <2>5, <2>6 DEF CountStep, Shift
<1> QED BY <1>4, <1>5

\* Whatever happens, nothing let through is lost count of.
LEMMA CountsNext ==
    ASSUME IInv, [Next]_vars, NEW n \in Honest, NEW src \in Node
    PROVE  CountStep(n, src)
<1>0. /\ n \in Node /\ log \in [Node -> SUBSET Entry] /\ todo \in [Driver -> SUBSET Job]
      /\ Len(subs[n][src]) \in Nat
  <2>1. n \in Node
    BY DEF Honest
  <2>2. subs[n][src] \in Seq(Nat)
    BY <2>1 DEF IInv, TypeOK
  <2> QED BY <2>1, <2>2, LenProperties DEF IInv, TypeOK
<1>1. CASE Quiet
  <2>1. log[n] \subseteq log'[n]
    BY <1>0, LogsGrow DEF IInv
  <2>2. LetThrough(n, src)' = LetThrough(n, src)
    BY <1>1, <2>1 DEF Quiet, LetThrough
  <2>3. InHand(n, src)' = InHand(n, src) /\ Len(subs'[n][src]) <= Len(subs[n][src])
    BY <1>0, <1>1 DEF Quiet, InHand
  <2> QED BY <2>2, <2>3 DEF CountStep, Shift
<1>2. ASSUME NEW m \in Node, NEW j \in Insight, InjectRaw(m, j)
      PROVE  CountStep(n, src)
  <2>1. \/ LetThrough(n, src)' = LetThrough(n, src)
        \/ \E x : /\ x \notin LetThrough(n, src)
                  /\ LetThrough(n, src)' = LetThrough(n, src) \cup {x}
    BY <1>2, InjectCounts
  <2>2. UNCHANGED <<subs, todo>>
    BY <1>2 DEF InjectRaw
  <2>3. InHand(n, src)' = InHand(n, src) /\ Len(subs'[n][src]) <= Len(subs[n][src])
    BY <1>0, <2>2 DEF InHand
  <2>4. \A t : InHand(n, src) \ {t} \subseteq InHand(n, src)'
    BY <2>3
  <2> QED BY <2>1, <2>3, <2>4 DEF CountStep, Shift
<1>3. ASSUME NEW t \in Driver, NEW m \in Node,
             Survey(t, m) \/ \E i \in Insight : Announce(t, m, i)
      PROVE  CountStep(n, src)
  <2>1. todo[t] = {} /\ UNCHANGED <<log, subs>> /\ \E J : todo' = [todo EXCEPT ![t] = J]
    BY <1>3 DEF Survey, Announce
  <2>2. \A s \in Driver \ {t} : todo'[s] = todo[s]
    BY <1>0, <2>1
  <2>3. LetThrough(n, src)' = LetThrough(n, src)
    BY <2>1 DEF LetThrough
  <2>4. InHand(n, src) \subseteq InHand(n, src)'
    BY <2>1, <2>2 DEF InHand
  <2>5. Len(subs'[n][src]) <= Len(subs[n][src])
    BY <1>0, <2>1
  <2> QED BY <2>3, <2>4, <2>5 DEF CountStep, Shift
<1> QED BY <1>1, <1>2, <1>3, CheckCounts, EnterCounts, StepKind

\* So what was let through and what is in hand never get fewer, and cover what the
\* limiter remembers.
LEMMA CountedNext ==
    ASSUME IInv, Counted, [Next]_vars, NEW n \in Honest, NEW src \in Node
    PROVE  /\ IsFiniteSet(LetThrough(n, src)')
           /\ Cardinality(LetThrough(n, src)) + Cardinality(InHand(n, src))
                 <= Cardinality(LetThrough(n, src)') + Cardinality(InHand(n, src)')
           /\ Len(subs'[n][src])
                 <= Cardinality(LetThrough(n, src)') + Cardinality(InHand(n, src)')
           /\ Cardinality(LetThrough(n, src)) \in Nat
           /\ Cardinality(LetThrough(n, src)') \in Nat
           /\ Cardinality(InHand(n, src)) \in Nat
           /\ Cardinality(InHand(n, src)') \in Nat
<1> DEFINE A == LetThrough(n, src)
           B == LetThrough(n, src)'
           T == InHand(n, src)
           U == InHand(n, src)'
           l == Len(subs[n][src])
           k == Len(subs'[n][src])
<1>1. l \in Nat /\ k \in Nat
  <2>1. n \in Node
    BY DEF Honest
  <2>2. subs[n][src] \in Seq(Nat)
    BY <2>1 DEF IInv, TypeOK
  <2>3. subs'[n][src] \in Seq(Nat)
    BY <2>1, TypeNext DEF IInv, TypeOK
  <2> QED BY <2>2, <2>3, LenProperties
<1>2. T \in SUBSET Driver /\ U \in SUBSET Driver
  BY DEF InHand
<1>3. IsFiniteSet(A) /\ l <= Cardinality(A) + Cardinality(T)
  BY DEF Counted
<1>4. Shift(A, T, l, B, U, k)
  BY CountsNext DEF CountStep
<1> HIDE DEF A, B, T, U, l, k
<1>5. /\ IsFiniteSet(B)
      /\ Cardinality(A) + Cardinality(T) <= Cardinality(B) + Cardinality(U)
      /\ k <= Cardinality(B) + Cardinality(U)
      /\ Cardinality(A) \in Nat /\ Cardinality(B) \in Nat
      /\ Cardinality(T) \in Nat /\ Cardinality(U) \in Nat
  BY <1>1, <1>2, <1>3, <1>4, SumGrows
<1> QED BY <1>5 DEF A, B, T, U, k

\* What was earned stays earned.
LEMMA EarnedStays ==
    ASSUME IInv, Counted, [Next]_vars, NEW n \in Honest, NEW src \in Node,
           Cardinality(LetThrough(n, src)) + Cardinality(InHand(n, src)) >= RATE_LIMIT_N
    PROVE  Cardinality(LetThrough(n, src)') + Cardinality(InHand(n, src)') >= RATE_LIMIT_N
<1>1. \A a, b, c, d, r \in Nat : a + b <= c + d /\ a + b >= r => c + d >= r
  OBVIOUS
<1>2. RATE_LIMIT_N \in Nat
  OBVIOUS
<1> QED BY <1>1, <1>2, CountedNext

\* A limiter that is full has let RATE_LIMIT_N through.
LEMMA FullIsEarned ==
    ASSUME IInv, Counted, NEW n \in Honest, NEW src \in Node,
           Len(subs[n][src]) >= RATE_LIMIT_N
    PROVE  Cardinality(LetThrough(n, src)) + Cardinality(InHand(n, src)) >= RATE_LIMIT_N
<1>1. Len(subs[n][src]) \in Nat
  <2>1. n \in Node
    BY DEF Honest
  <2>2. subs[n][src] \in Seq(Nat)
    BY <2>1 DEF IInv, TypeOK
  <2> QED BY <2>2, LenProperties
<1>2. InHand(n, src) \in SUBSET Driver
  BY DEF InHand
<1>3. Cardinality(LetThrough(n, src)) \in Nat /\ Cardinality(InHand(n, src)) \in Nat
  BY <1>2, ThreadsFinite, FS_CardinalityType DEF Counted
<1>4. Len(subs[n][src]) <= Cardinality(LetThrough(n, src)) + Cardinality(InHand(n, src))
  BY DEF Counted
<1>5. RATE_LIMIT_N \in Nat
  OBVIOUS
<1> QED BY <1>1, <1>3, <1>4, <1>5

\* A verdict of the limiter is reached where it is full.
LEMMA PendingNext ==
    ASSUME IInv, Counted, PendingEarned, [Next]_vars,
           NEW t \in Driver, NEW v \in todo'[t], v.at \in Honest, v.verdict = "RATE_LIMITED"
    PROVE  Cardinality(LetThrough(v.at, DiscoveredBy[v.copy.id])')
              + Cardinality(InHand(v.at, DiscoveredBy[v.copy.id])') >= RATE_LIMIT_N
<1> DEFINE n   == v.at
           src == DiscoveredBy[v.copy.id]
           Earned == Cardinality(LetThrough(n, src)) + Cardinality(InHand(n, src)) >= RATE_LIMIT_N
<1>0. todo \in [Driver -> SUBSET Job] /\ "UNCHECKED" # "RATE_LIMITED"
  BY DEF IInv, TypeOK
<1>1. src \in Node /\ n \in Honest
  <2>1. v \in Job
    BY TypeNext DEF IInv, TypeOK
  <2>2. v.copy.id \in Insight
    BY <2>1 DEF Job, InsightCopy
  <2> QED BY <2>2
<1>2. CASE v \in todo[t]
  <2>1. Earned
    BY <1>2 DEF PendingEarned
  <2> QED BY <1>1, <2>1, EarnedStays
<1>3. ASSUME Check(t), v \notin todo[t] PROVE Earned
  <2>1. PICK w \in todo[t], x \in Job :
           /\ w \in Job /\ Faithful(w) /\ Record(w.at, w.copy)
           /\ x.at = w.at /\ x.copy = w.copy /\ x.verdict = Decision(w.at, w.copy)
           /\ \A u \in todo[t] : u.verdict = "UNCHECKED"
           /\ todo'[t] = (todo[t] \ {w}) \cup {x}
           /\ \A s \in Driver \ {t} : todo'[s] = todo[s]
           /\ log' = log
    BY <1>3, CheckStep
  <2>2. v = x
    BY <1>3, <2>1
  <2>3. w.at \in Node /\ w.copy \in InsightCopy /\ w.copy.content = w.copy.id
    BY <1>1, <2>1, <2>2 DEF Job, Faithful
  <2>4. Len(subs[w.at][DiscoveredBy[w.copy.content]]) >= RATE_LIMIT_N
    BY <2>1, <2>2, <2>3, RecordLengths DEF IInv
  <2>5. Len(subs[n][src]) >= RATE_LIMIT_N
    BY <2>1, <2>2, <2>3, <2>4
  <2> HIDE DEF n, src
  <2> QED BY <1>1, <2>5, FullIsEarned
<1>4. ASSUME NEW s \in Driver, s # t,
             \/ Check(s) \/ Enter(s)
             \/ \E m \in Node : Survey(s, m)
             \/ \E m \in Node, i \in Insight : Announce(s, m, i)
      PROVE  v \in todo[t]
  BY <1>0, <1>4 DEF Check, Enter, Survey, Announce
<1>5. ASSUME Enter(t) PROVE v \in todo[t]
  BY <1>0, <1>5 DEF Enter
<1>6. ASSUME NEW m \in Node,
             Survey(t, m) \/ \E i \in Insight : Announce(t, m, i)
      PROVE  v.verdict = "UNCHECKED"
  BY <1>0, <1>6 DEF Survey, Announce, Unchecked
<1>7. v \in todo[t] \/ Check(t)
  BY <1>0, <1>4, <1>5, <1>6, TodoSource
<1> HIDE DEF n, src
<1>8. ASSUME Earned
      PROVE  Cardinality(LetThrough(n, src)') + Cardinality(InHand(n, src)') >= RATE_LIMIT_N
  BY <1>1, <1>8, EarnedStays
<1> QED BY <1>2, <1>3, <1>7, <1>8 DEF n, src

\* A denial for a full limiter is signed on such a verdict.
LEMMA DenialsNext ==
    ASSUME IInv, Counted, PendingEarned, LimiterDenialsAreEarned, [Next]_vars,
           NEW n \in Honest, NEW e \in log'[n], e.author = n,
           e.body.kind = "GUARDRAIL_DENY", e.body.reason = "RATE_LIMITED"
    PROVE  Cardinality(LetThrough(n, DiscoveredBy[e.body.id])')
              + Cardinality(InHand(n, DiscoveredBy[e.body.id])') >= RATE_LIMIT_N
<1> DEFINE src == DiscoveredBy[e.body.id]
           Earned == Cardinality(LetThrough(n, src)) + Cardinality(InHand(n, src)) >= RATE_LIMIT_N
<1>1. src \in Node /\ n \in Node /\ log \in [Node -> SUBSET Entry]
  <2>1. e \in Entry /\ n \in Node
    BY TypeNext DEF IInv, TypeOK, Honest
  <2>2. e.body.id \in Insight
    BY <2>1 DEF Entry, Body, InsightCopy
  <2> QED BY <2>1, <2>2 DEF IInv, TypeOK
<1>2. ASSUME e \in log[n] PROVE Earned
  BY <1>2 DEF LimiterDenialsAreEarned
<1>3. ASSUME NEW t \in Driver, Enter(t), e \notin log[n] PROVE Earned
  <2>1. PICK w \in todo[t] :
           /\ w \in Job /\ w.verdict # "UNCHECKED"
           /\ \A m \in Node \ {w.at} : log'[m] = log[m]
           /\ log'[w.at] = log[w.at] \cup Signed(w.at, seq[w.at], Written(w))
    BY <1>3, EnterStep DEF IInv
  <2>2. w.at = n /\ e.body \in Written(w)
    BY <1>1, <1>3, <2>1 DEF Signed
  <2>3. e.body.id = w.copy.id /\ w.verdict = "RATE_LIMITED"
    BY <2>1, <2>2, WrittenShape
  <2> QED BY <2>2, <2>3 DEF PendingEarned
<1>4. ASSUME Quiet PROVE e \in log[n]
  BY <1>4 DEF Quiet
<1>5. ASSUME NEW m \in Node, NEW j \in Insight, InjectRaw(m, j) PROVE e \in log[n]
  <2>1. e \in log[n] \/ e.body = InsightBody(j)
    BY <1>1, <1>5 DEF InjectRaw, Author, Signed
  <2> QED BY <2>1 DEF InsightBody
<1>6. ASSUME NEW t \in Driver, NEW m \in Node, NEW j \in Insight, Announce(t, m, j)
      PROVE  e \in log[n]
  BY <1>6 DEF Announce
<1>7. ASSUME NEW t \in Driver, Check(t) \/ \E m \in Node : Survey(t, m)
      PROVE  e \in log[n]
  BY <1>7 DEF Check, Survey
<1>8. e \in log[n] \/ \E t \in Driver : Enter(t)
  BY <1>4, <1>5, <1>6, <1>7, StepKind
<1>9. Earned
  BY <1>2, <1>3, <1>8
<1> HIDE DEF src
<1>10. ASSUME Earned
       PROVE  Cardinality(LetThrough(n, src)') + Cardinality(InHand(n, src)') >= RATE_LIMIT_N
  BY <1>1, <1>10, EarnedStays
<1> QED BY <1>9, <1>10 DEF src

\* A denial for the rate limit is earned: by the time it is signed, RATE_LIMIT_N
\* submissions of that source were let through.
THEOREM LimiterDenialsEarned == Spec => []LimiterDenialsAreEarned
<1> DEFINE LInv == Counted /\ PendingEarned /\ LimiterDenialsAreEarned
<1>1. Init => LInv
  <2> SUFFICES ASSUME Init PROVE LInv
    OBVIOUS
  <2>1. /\ \A n \in Honest : log[n] = {} /\ n \in Node
        /\ \A t \in Driver : todo[t] = {}
    BY DEF Init, Honest
  <2>2. ASSUME NEW n \in Honest, NEW src \in Node
        PROVE  /\ IsFiniteSet(LetThrough(n, src))
               /\ Len(subs[n][src]) <= Cardinality(LetThrough(n, src))
                                          + Cardinality(InHand(n, src))
    <3>1. LetThrough(n, src) = {} /\ InHand(n, src) = {} /\ subs[n][src] = << >>
      BY <2>1, <2>2 DEF LetThrough, InHand, Init
    <3>2. IsFiniteSet({}) /\ Cardinality({}) = 0 /\ Len(<< >>) = 0
      BY FS_EmptySet
    <3> QED BY <3>1, <3>2
  <2> QED BY <2>1, <2>2 DEF Counted, PendingEarned, LimiterDenialsAreEarned
<1>2. IInv /\ LInv /\ [Next]_vars => LInv'
  <2> SUFFICES ASSUME IInv, LInv, [Next]_vars PROVE LInv'
    OBVIOUS
  <2>1. Counted'
    BY CountedNext DEF Counted, LetThrough, InHand
  <2>2. PendingEarned'
    BY PendingNext DEF PendingEarned, LetThrough, InHand
  <2>3. LimiterDenialsAreEarned'
    <3> SUFFICES ASSUME NEW n \in Honest, NEW e \in log'[n], e.author = n,
                        e.body.kind = "GUARDRAIL_DENY", e.body.reason = "RATE_LIMITED"
                 PROVE  Cardinality(LetThrough(n, DiscoveredBy[e.body.id])')
                           + Cardinality(InHand(n, DiscoveredBy[e.body.id])') >= RATE_LIMIT_N
      BY DEF LimiterDenialsAreEarned
    <3> QED BY DenialsNext
  <2> QED BY <2>1, <2>2, <2>3
<1> HIDE DEF LInv
<1>3. Spec => []LInv
  BY <1>1, <1>2, Inductive, PTL DEF Spec
<1>4. LInv => LimiterDenialsAreEarned
  BY DEF LInv
<1> QED BY <1>3, <1>4, PTL

-----------------------------------------------------------------------------
(* What the limiter remembers *)

\* A queue of times, oldest first.
InOrder(q) == /\ \A k \in DOMAIN q : q[k] <= now
              /\ \A j, k \in DOMAIN q : j <= k => q[j] <= q[k]

\* The queue of a source never grows beyond the limit, and popping what fell out
\* of the window at its front leaves exactly what is in the window.
LimiterCountsWindow ==
    \A n, src \in Node :
        LET q == subs[n][src]
        IN  /\ Len(q) <= RATE_LIMIT_N
            /\ \A k \in DOMAIN q :
                  now - q[k] > RATE_LIMIT_WINDOW <=> k <= Len(q) - Len(Recent(q))

\* What makes that so.
LimiterInv == \A n, src \in Node : /\ Len(subs[n][src]) <= RATE_LIMIT_N
                                   /\ InOrder(subs[n][src])

\* What fell out of the window is at the front of the queue.
LEMMA ExpiredIsPrefix ==
    ASSUME NEW q \in Seq(Nat), now \in Nat, InOrder(q)
    PROVE  \E c \in 0..Len(q) :
              /\ {k \in DOMAIN q : now - q[k] > RATE_LIMIT_WINDOW} = 1..c
              /\ Cardinality({k \in DOMAIN q : now - q[k] > RATE_LIMIT_WINDOW}) = c
<1> DEFINE E == {k \in DOMAIN q : now - q[k] > RATE_LIMIT_WINDOW}
           T == {k \in Nat : k + 1 \notin E}
<1>1. Len(q) \in Nat /\ DOMAIN q = 1..Len(q) /\ \A k \in DOMAIN q : q[k] \in Nat
  BY LenProperties
<1>2. E \subseteq 1..Len(q) /\ \A j \in DOMAIN q, k \in E : j <= k => j \in E
  BY <1>1 DEF InOrder
<1>3. Len(q) \in T
  BY <1>1, <1>2
<1>4. \E c \in T : \A y \in T : ~(<<y, c>> \in OpToRel(<, Nat))
  <2> T \subseteq Nat
    OBVIOUS
  <2> HIDE DEF T
  <2> QED BY <1>3, NatLessThanWellFounded, WFMin
<1>5. PICK c \in T : \A y \in T : ~(y < c)
  BY <1>4 DEF OpToRel
<1>6. c \in 0..Len(q)
  BY <1>1, <1>3, <1>5
<1>7. 1..c \subseteq E
  <2> SUFFICES ASSUME NEW k \in 1..c PROVE k \in E
    OBVIOUS
  <2>1. k - 1 \in Nat /\ k - 1 < c /\ k - 1 + 1 = k
    BY <1>6
  <2> HIDE DEF E
  <2> QED BY <1>5, <2>1
<1>8. E \subseteq 1..c
  <2> SUFFICES ASSUME NEW k \in E, k > c PROVE FALSE
    BY <1>1, <1>2, <1>6
  <2>1. c + 1 \in DOMAIN q /\ c + 1 <= k
    BY <1>1, <1>2, <1>6
  <2>2. c + 1 \in E
    BY <1>2, <2>1
  <2> QED BY <1>5, <2>2
<1> HIDE DEF E, T
<1>9. E = 1..c
  BY <1>7, <1>8
<1>10. Cardinality(1..c) = c
  <2>1. c \in Nat /\ c \in Int /\ 1 \in Int
    BY <1>6
  <2>2. Cardinality(1..c) = IF 1 > c THEN 0 ELSE c - 1 + 1
    BY <2>1, FS_Interval
  <2> QED BY <2>1, <2>2
<1>11. \E d \in 0..Len(q) : E = 1..d /\ Cardinality(E) = d
  BY <1>6, <1>9, <1>10
<1> QED BY <1>11 DEF E

\* Popping from the front leaves a queue in order, of what is in the window.
LEMMA RecentFacts ==
    ASSUME NEW q \in Seq(Nat), now \in Nat, InOrder(q)
    PROVE  /\ InOrder(Recent(q))
           /\ \A k \in DOMAIN q :
                 now - q[k] > RATE_LIMIT_WINDOW <=> k <= Len(q) - Len(Recent(q))
<1>1. Len(q) \in Nat /\ DOMAIN q = 1..Len(q) /\ \A k \in DOMAIN q : q[k] \in Nat
  BY LenProperties
<1>2. PICK c \in 0..Len(q) :
         /\ {k \in DOMAIN q : now - q[k] > RATE_LIMIT_WINDOW} = 1..c
         /\ Cardinality({k \in DOMAIN q : now - q[k] > RATE_LIMIT_WINDOW}) = c
  BY ExpiredIsPrefix
<1>3. Recent(q) = SubSeq(q, c + 1, Len(q))
  BY <1>2 DEF Recent
<1>4. c \in Nat /\ c + 1 \in Int /\ Len(q) \in Int /\ \A k \in (c + 1)..Len(q) : q[k] \in Nat
  BY <1>1, <1>2
<1> DEFINE r == SubSeq(q, c + 1, Len(q))
<1>5. /\ r \in Seq(Nat)
      /\ Len(r) = Len(q) - c
      /\ \A k \in 1..(Len(q) - c) : r[k] = q[c + k]
  <2>1. /\ r \in Seq(Nat)
        /\ Len(r) = IF c + 1 <= Len(q) THEN Len(q) - (c + 1) + 1 ELSE 0
        /\ \A k \in 1..(Len(q) - (c + 1) + 1) : r[k] = q[(c + 1) + k - 1]
    BY <1>4, SubSeqProperties
  <2>2. \A k \in Int : (c + 1) + k - 1 = c + k
    BY <1>4
  <2>3. Len(q) - (c + 1) + 1 = Len(q) - c
    BY <1>1, <1>4
  <2> HIDE DEF r
  <2>4. Len(r) = Len(q) - c
    <3>1. \A l \in Nat : \A d \in 0..l :
             (IF d + 1 <= l THEN l - (d + 1) + 1 ELSE 0) = l - d
      OBVIOUS
    <3>2. (IF c + 1 <= Len(q) THEN Len(q) - (c + 1) + 1 ELSE 0) = Len(q) - c
      BY <1>1, <3>1
    <3> QED BY <2>1, <3>2
  <2>5. ASSUME NEW k \in 1..(Len(q) - c) PROVE r[k] = q[c + k]
    <3>1. k \in 1..(Len(q) - (c + 1) + 1) /\ k \in Int
      BY <2>3
    <3> QED BY <2>1, <2>2, <3>1
  <2> QED BY <2>1, <2>4, <2>5
<1> HIDE DEF r
<1>6. DOMAIN r = 1..(Len(q) - c)
  BY <1>5, LenProperties
<1>7. Recent(q) = r /\ \A k \in DOMAIN r : c + k \in DOMAIN q /\ r[k] = q[c + k]
  <2>1. \A k \in 1..(Len(q) - c) : c + k \in 1..Len(q)
    BY <1>1, <1>2
  <2> QED BY <1>1, <1>3, <1>5, <1>6, <2>1 DEF r
<1>8. InOrder(Recent(q))
  <2>1. \A k \in DOMAIN r : r[k] <= now
    BY <1>7 DEF InOrder
  <2>2. ASSUME NEW j \in DOMAIN r, NEW k \in DOMAIN r, j <= k
        PROVE  r[j] <= r[k]
    <3>1. c + j <= c + k
      BY <1>2, <1>6, <2>2
    <3> QED BY <1>7, <2>2, <3>1 DEF InOrder
  <2> QED BY <1>7, <2>1, <2>2 DEF InOrder
<1>9. \A k \in DOMAIN q : now - q[k] > RATE_LIMIT_WINDOW <=> k <= c
  BY <1>1, <1>2
<1>10. Len(q) - Len(Recent(q)) = c
  <2>1. \A l \in Nat : \A d \in 0..l : l - (l - d) = d
    OBVIOUS
  <2>2. Len(q) - (Len(q) - c) = c
    BY <1>1, <2>1
  <2> QED BY <1>5, <1>7, <2>2
<1> QED BY <1>8, <1>9, <1>10

\* A step only passes time, or checks one copy.
LEMMA LimiterStep ==
    ASSUME TypeOK, [Next]_vars
    PROVE  \/ UNCHANGED subs /\ now' \in {now, now + 1}
           \/ UNCHANGED now /\ \E m \in Node, b \in InsightCopy : Record(m, b)
<1>1. ASSUME NEW t \in Driver, Check(t)
      PROVE  UNCHANGED now /\ \E m \in Node, b \in InsightCopy : Record(m, b)
  <2>1. PICK w \in todo[t] : Record(w.at, w.copy)
    BY <1>1 DEF Check
  <2>2. w.at \in Node /\ w.copy \in InsightCopy
    BY DEF TypeOK, Job
  <2> QED BY <1>1, <2>1, <2>2 DEF Check
<1>2. ASSUME NEW t \in Driver, NEW n \in Node, NEW i \in Insight,
             Announce(t, n, i) \/ DraftAndSubmit(t, n, i)
      PROVE  UNCHANGED <<subs, now>>
  BY <1>2 DEF DraftAndSubmit, Announce
<1>3. ASSUME NEW n \in Node, TakeDown(n) \/ Restore(n) \/ Isolate(n) \/ Compromised(n)
      PROVE  UNCHANGED <<subs, now>>
  BY <1>3 DEF TakeDown, Restore, Isolate, Compromised
<1>4. ASSUME NEW i \in Insight, Revoke(i) \/ Tombstone(i)
      PROVE  UNCHANGED <<subs, now>>
  BY <1>4 DEF Revoke, Tombstone
<1>5. ASSUME NEW n \in Node, NEW i \in Insight, NEW r \in BOOLEAN,
             InjectRaw(n, i) \/ ProbationTick(n, i, r)
      PROVE  UNCHANGED <<subs, now>>
  BY <1>5 DEF InjectRaw, ProbationTick
<1>6. GossipRound \/ Heal \/ UNCHANGED vars => UNCHANGED <<subs, now>>
  BY DEF GossipRound, Heal, vars
<1>7. Tick => UNCHANGED subs /\ now' = now + 1
  BY DEF Tick
<1>8. ASSUME NEW t \in Driver, NEW n \in Node, Enter(t) \/ Survey(t, n)
      PROVE  UNCHANGED <<subs, now>>
  BY <1>8 DEF Enter, Survey
<1>9. ASSUME NEW t \in Driver, Enter(t)
      PROVE  UNCHANGED <<subs, now>>
  BY <1>9 DEF Enter
<1>10. CASE Next
  BY <1>1, <1>2, <1>3, <1>4, <1>5, <1>6, <1>7, <1>8, <1>9, <1>10 DEF Next
<1> QED BY <1>6, <1>10

\* Every step keeps every queue in order, and within the limit.
LEMMA LimiterNext == TypeOK /\ LimiterInv /\ [Next]_vars => LimiterInv'
<1> SUFFICES ASSUME TypeOK, LimiterInv, [Next]_vars, NEW n \in Node, NEW src \in Node
             PROVE  Len(subs'[n][src]) <= RATE_LIMIT_N /\ InOrder(subs[n][src])'
  BY DEF LimiterInv
<1> DEFINE old == subs[n][src]
<1>1. /\ old \in Seq(Nat) /\ now \in Nat /\ Len(old) \in Nat /\ DOMAIN old = 1..Len(old)
      /\ \A k \in DOMAIN old : old[k] \in Nat
      /\ Len(old) <= RATE_LIMIT_N /\ InOrder(old)
  BY LenProperties DEF TypeOK, LimiterInv
<1>2. CASE subs'[n][src] = old /\ now' \in {now, now + 1}
  <2>1. \A k \in DOMAIN old : old[k] <= now'
    <3> SUFFICES ASSUME NEW k \in DOMAIN old PROVE old[k] <= now'
      OBVIOUS
    <3>1. old[k] \in Nat /\ old[k] <= now
      BY <1>1 DEF InOrder
    <3> HIDE DEF old
    <3> QED BY <1>1, <1>2, <3>1
  <2> QED BY <1>1, <1>2, <2>1 DEF InOrder
<1>3. ASSUME NEW m \in Node, NEW b \in InsightCopy, Record(m, b), now' = now
      PROVE  Len(subs'[n][src]) <= RATE_LIMIT_N /\ InOrder(subs[n][src])'
  <2> DEFINE s == DiscoveredBy[b.content]
             q == Recent(old)
  <2>1. subs \in [Node -> [Node -> Seq(Nat)]] /\ s \in Node
    BY DEF TypeOK, InsightCopy
  <2>a. q \in Seq(Nat) /\ Len(q) <= Len(old) /\ InOrder(q)
    BY <1>1, RecentType, RecentFacts
  <2> HIDE DEF q
  <2>2. /\ q \in Seq(Nat) /\ Len(q) <= Len(old) /\ InOrder(q) /\ Len(q) \in Nat
        /\ DOMAIN q = 1..Len(q) /\ \A k \in DOMAIN q : q[k] \in Nat
    BY <2>a, LenProperties
  <2>3. CASE subs'[n][src] = old
    BY <1>2, <1>3, <2>3
  <2>4. CASE subs'[n][src] = q
    BY <1>1, <1>3, <2>2, <2>4 DEF InOrder
  <2>5. CASE subs'[n][src] = Append(q, now) /\ ~(Len(q) >= RATE_LIMIT_N)
    <3>1. /\ Len(Append(q, now)) = Len(q) + 1
          /\ DOMAIN Append(q, now) = 1..(Len(q) + 1)
          /\ \A k \in 1..Len(q) : Append(q, now)[k] = q[k]
          /\ Append(q, now)[Len(q) + 1] = now
      BY <1>1, <2>2
    <3>2. \A k \in 1..(Len(q) + 1) : k \in 1..Len(q) \/ k = Len(q) + 1
      BY <2>2
    <3>3. InOrder(Append(q, now))
      <4>0. \A k \in 1..(Len(q) + 1), j \in 1..(Len(q) + 1) :
               j <= k /\ k # Len(q) + 1 => j \in 1..Len(q)
        <5>1. \A l \in Nat : \A k \in 1..(l + 1), j \in 1..(l + 1) :
                 j <= k /\ k # l + 1 => j \in 1..l
          OBVIOUS
        <5>2. Len(q) \in Nat
          BY <2>2
        <5> QED BY <5>1, <5>2
      <4>1. ASSUME NEW k \in 1..(Len(q) + 1) PROVE Append(q, now)[k] <= now
        <5>1. CASE k \in 1..Len(q)
          <6>1. q[k] <= now
            BY <2>2, <5>1 DEF InOrder
          <6> QED BY <3>1, <5>1, <6>1
        <5>2. CASE k = Len(q) + 1
          <6>1. now <= now
            BY <1>1
          <6> QED BY <3>1, <5>2, <6>1
        <5> QED BY <3>2, <5>1, <5>2
      <4>2. ASSUME NEW j \in 1..(Len(q) + 1), NEW k \in 1..(Len(q) + 1), j <= k
            PROVE  Append(q, now)[j] <= Append(q, now)[k]
        <5>1. CASE k = Len(q) + 1
          BY <3>1, <4>1, <5>1
        <5>2. CASE k # Len(q) + 1
          <6>1. k \in 1..Len(q) /\ j \in 1..Len(q)
            BY <3>2, <4>0, <4>2, <5>2
          <6> QED BY <2>2, <3>1, <4>2, <6>1 DEF InOrder
        <5> QED BY <5>1, <5>2
      <4> QED BY <3>1, <4>1, <4>2 DEF InOrder
    <3>4. Len(Append(q, now)) <= RATE_LIMIT_N
      BY <2>2, <2>5, <3>1
    <3>5. InOrder(subs[n][src])'
      BY <1>3, <2>5, <3>3 DEF InOrder
    <3> QED BY <2>5, <3>4, <3>5
  <2>6. CASE m = n /\ s = src
    BY <2>1, <2>3, <2>4, <2>5, <2>6, <1>3 DEF Record, q
  <2>7. CASE ~(m = n /\ s = src)
    BY <2>1, <2>3, <2>7, <1>3 DEF Record
  <2> QED BY <2>6, <2>7
<1>4. CASE UNCHANGED subs /\ now' \in {now, now + 1}
  BY <1>2, <1>4
<1> QED BY <1>3, <1>4, LimiterStep

\* The limiter counts what it let through in the window and nothing else, and it
\* never lets through more than RATE_LIMIT_N of a source in one.
THEOREM LimiterKeepsWindow == Spec => []LimiterCountsWindow
<1>1. Init => LimiterInv
  <2> SUFFICES ASSUME Init, NEW n \in Node, NEW src \in Node
               PROVE  Len(subs[n][src]) <= RATE_LIMIT_N /\ InOrder(subs[n][src])
    BY DEF LimiterInv
  <2>1. subs[n][src] = << >> /\ Len(<< >>) = 0 /\ DOMAIN << >> = {}
    BY DEF Init
  <2> QED BY <2>1 DEF InOrder
<1>2. TypeOK /\ LimiterInv => LimiterCountsWindow
  <2> SUFFICES ASSUME TypeOK, LimiterInv, NEW n \in Node, NEW src \in Node
               PROVE  LET q == subs[n][src]
                      IN  /\ Len(q) <= RATE_LIMIT_N
                          /\ \A k \in DOMAIN q :
                                now - q[k] > RATE_LIMIT_WINDOW <=> k <= Len(q) - Len(Recent(q))
    BY DEF LimiterCountsWindow
  <2>1. subs[n][src] \in Seq(Nat) /\ now \in Nat
    BY DEF TypeOK
  <2> QED BY <2>1, RecentFacts DEF LimiterInv
<1> QED BY <1>1, <1>2, LimiterNext, TypeCorrect, PTL DEF Spec

-----------------------------------------------------------------------------
(* The fold is a join where nobody changes a vote *)

\* No author attests twice on insight i in replica S.
OneVoteEach(S, i) == \A e, f \in About(S, "ATTEST", i) : e.author = f.author => e = f

\* A replica that grows and shows no changed vote shows the votes it showed.
LEMMA VotesStand ==
    ASSUME NEW S \in SUBSET Entry, NEW T \in SUBSET Entry, S \subseteq T,
           NEW i \in Insight, OneVoteEach(T, i)
    PROVE  /\ BadVoters(S, i) \subseteq BadVoters(T, i)
           /\ \A h : OkVoters(S, i, h) \subseteq OkVoters(T, i, h)
           /\ \A s : StatusVoters(S, i, s) \subseteq StatusVoters(T, i, s)
<1>1. Standing(S, i) \subseteq Standing(T, i)
  <2> SUFFICES ASSUME NEW e \in Standing(S, i) PROVE e \in Standing(T, i)
    OBVIOUS
  <2>1. e \in About(T, "ATTEST", i) /\ e \in Entry
    BY DEF Standing, About
  <2>2. \A f \in About(T, "ATTEST", i) : f.author = e.author => f = e
    BY <2>1 DEF OneVoteEach
  <2>3. e.seq \in Nat
    BY <2>1 DEF Entry
  <2> QED BY <2>1, <2>2, <2>3 DEF Standing
<1>2. \A k : About(S, k, i) \subseteq About(T, k, i)
  BY DEF About
<1> QED BY <1>1, <1>2 DEF BadVoters, OkVoters, StatusVoters, Authors

\* What a replica folds to ranks no lower in one that holds more.
LEMMA FoldIsJoin ==
    ASSUME NEW S \in SUBSET Entry, NEW T \in SUBSET Entry, S \subseteq T,
           NEW i \in Insight, OneVoteEach(T, i)
    PROVE  Rank(StatusOf(S, i)) <= Rank(StatusOf(T, i))
<1>1. /\ Quorate(BadVoters(S, i)) => Quorate(BadVoters(T, i))
      /\ \A h : Quorate(OkVoters(S, i, h)) => Quorate(OkVoters(T, i, h))
      /\ \A s : Quorate(StatusVoters(S, i, s)) => Quorate(StatusVoters(T, i, s))
  BY VotesStand, VotersAreNodes, QuorumGrows
<1>2. Rank(Derived(S, i)) <= Rank(Derived(T, i))
  BY <1>1 DEF Derived, Rank
<1>3. /\ StatusOf(S, i) \in Reached(S, i)
      /\ StatusOf(S, i) \in Status /\ StatusOf(T, i) \in Status
      /\ \A t \in Reached(T, i) : Rank(t) <= Rank(StatusOf(T, i))
  BY StatusIsHighest
<1>4. Derived(T, i) \in Reached(T, i) /\ Derived(S, i) \in Status /\ Derived(T, i) \in Status
  BY DEF Reached, Derived, Status
<1>5. \A s \in Status : Rank(s) \in Nat
  BY DEF Status, Rank
<1>6. CASE StatusOf(S, i) = Derived(S, i)
  BY <1>2, <1>3, <1>4, <1>5, <1>6
<1>7. CASE StatusOf(S, i) # Derived(S, i)
  BY <1>1, <1>3, <1>7 DEF Reached
<1> QED BY <1>6, <1>7

\* An insight on which no vote is changed never falls back on an honest replica.
NoRegressWithoutChange ==
    \A n \in Honest, i \in Insight :
        OneVoteEach(log'[n], i) => Rank(StatusOf(log'[n], i)) >= Rank(StatusOf(log[n], i))

\* Replicas grow, and the fold is a join.
LEMMA NoRegressStep == IInv /\ [Next]_vars => NoRegressWithoutChange
<1> SUFFICES ASSUME IInv, [Next]_vars, NEW n \in Honest, NEW i \in Insight,
                    OneVoteEach(log'[n], i)
             PROVE  Rank(StatusOf(log'[n], i)) >= Rank(StatusOf(log[n], i))
  BY DEF NoRegressWithoutChange
<1>1. n \in Node
  BY DEF Honest
<1>2. log[n] \in SUBSET Entry /\ log'[n] \in SUBSET Entry /\ log[n] \subseteq log'[n]
  BY <1>1, TypeNext, LogsGrow DEF IInv, TypeOK
<1>3. Rank(StatusOf(log[n], i)) <= Rank(StatusOf(log'[n], i))
  BY <1>2, FoldIsJoin
<1>4. \A s \in Status : Rank(s) \in Nat
  BY DEF Status, Rank
<1> QED BY <1>3, <1>4, StatusIsHighest

\* A status falls back only where somebody's second ruling on it shows: the
\* disagreement with fabric/log.py:17 takes a compromised node, or rounds that overlap.
THEOREM OnlyChangedVotesRegress == Spec => [][NoRegressWithoutChange]_vars
  BY NoRegressStep, Inductive, PTL DEF Spec

\* So without compromised nodes, and with rounds that do not overlap, the fold keeps
\* the promise of core/types.py:100.
THEOREM HonestMeshNeverRegresses ==
    ASSUME Rogue = {}, OneDriver
    PROVE  Spec => StatusNeverRegresses
<1>1. IInv /\ RulingsBounded /\ [Next]_vars =>
         \A n \in Honest, i \in Insight :
            Known(log[n], i) => Rank(StatusOf(log'[n], i)) >= Rank(StatusOf(log[n], i))
  <2> SUFFICES ASSUME IInv, RulingsBounded, [Next]_vars, NEW n \in Honest, NEW i \in Insight
               PROVE  Rank(StatusOf(log'[n], i)) >= Rank(StatusOf(log[n], i))
    OBVIOUS
  <2>1. AttestOnce'
    <3>1. (IInv /\ RulingsBounded)' => AttestOnce'
      BY OneDriverRulesOnce, PTL
    <3> QED BY <3>1, IInvNext, RulingsBoundedNext
  <2>2. log' \in [Node -> SUBSET Entry] /\ n \in Node
    BY TypeNext DEF IInv, TypeOK, Honest
  <2>3. \A e \in log'[n] : e.author \in Honest
    BY <2>2 DEF Entry, Honest
  <2>4. OneVoteEach(log'[n], i)
    BY <2>1, <2>2, <2>3 DEF OneVoteEach, AttestOnce, Rulings, About
  <2> QED BY <2>4, NoRegressStep DEF NoRegressWithoutChange
<1> QED BY <1>1, Inductive, RulingsAlwaysBounded, PTL DEF Spec, StatusNeverRegresses

\* With such rounds nothing at all undoes a quorum of honest confirmations, whatever
\* compromised nodes sign.
ConfirmationIsFinal ==
    \A n \in Honest, i \in Insight :
        Quorate(HonestOk(log[n], i)) => Rank(StatusOf(log'[n], i)) >= Rank("VERIFIED")

\* For the only ruling of an author stands: HonestQuorumSticks without its exception.
THEOREM ConfirmationsAreFinal ==
    ASSUME OneDriver
    PROVE  Spec => [][ConfirmationIsFinal]_vars
<1>1. IInv /\ RulingsBounded /\ [Next]_vars => ConfirmationIsFinal
  <2> SUFFICES ASSUME IInv, RulingsBounded, [Next]_vars, NEW n \in Honest, NEW i \in Insight,
                      Quorate(HonestOk(log[n], i))
               PROVE  Rank(StatusOf(log'[n], i)) >= Rank("VERIFIED")
    BY DEF ConfirmationIsFinal
  <2>1. AttestOnce'
    <3>1. (IInv /\ RulingsBounded)' => AttestOnce'
      BY OneDriverRulesOnce, PTL
    <3> QED BY <3>1, IInvNext, RulingsBoundedNext
  <2>2. /\ log \in [Node -> SUBSET Entry] /\ log' \in [Node -> SUBSET Entry] /\ n \in Node
        /\ log[n] \subseteq log'[n]
    BY TypeNext, LogsGrow DEF IInv, TypeOK, Honest
  <2>3. HonestOk(log[n], i) \subseteq OkVoters(log'[n], i, Measured[i])
    <3> SUFFICES ASSUME NEW a \in HonestOk(log[n], i)
                 PROVE  a \in OkVoters(log'[n], i, Measured[i])
      OBVIOUS
    <3>1. a \in Honest /\ a \in OkVoters(log[n], i, Measured[i])
      BY DEF HonestOk
    <3>2. PICK e \in Standing(log[n], i) : /\ e.author = a /\ e.body.ok
                                           /\ e.body.replay_hash = Measured[i]
      BY <3>1 DEF OkVoters, Authors
    <3>3. e \in About(log'[n], "ATTEST", i) /\ e \in Entry
      BY <2>2 DEF Standing, About
    <3>4. \A f \in About(log'[n], "ATTEST", i) : f.author = e.author => f = e
      BY <2>1, <2>2, <3>1, <3>2, <3>3 DEF AttestOnce, Rulings
    <3>5. e.seq \in Nat
      BY <3>3 DEF Entry
    <3>6. e \in Standing(log'[n], i)
      BY <3>3, <3>4, <3>5 DEF Standing
    <3> QED BY <3>2, <3>6 DEF OkVoters, Authors
  <2>4. /\ HonestOk(log[n], i) \in SUBSET Node
        /\ OkVoters(log'[n], i, Measured[i]) \in SUBSET Node
    BY <2>2, VotersAreNodes DEF HonestOk, Honest
  <2>5. Quorate(OkVoters(log'[n], i, Measured[i]))
    BY <2>3, <2>4, QuorumGrows
  <2>6. Measured[i] \in Hash \cup Reason /\ log'[n] \in SUBSET Entry
    BY <2>2
  <2> QED BY <2>5, <2>6, OkQuorumRank
<1> QED BY <1>1, Inductive, RulingsAlwaysBounded, PTL DEF Spec

-----------------------------------------------------------------------------
(* Replicas do not split *)

\* No insight is VERIFIED on one honest replica and QUARANTINED on another, unless
\* the latter holds an honest ruling that was a mishap.
NoSplitVerdict ==
    \A m, n \in Honest, i \in Insight :
        Verified(log[m], i) /\ StatusOf(log[n], i) = "QUARANTINED" =>
            Honest \cap Misled(log[n], i) # {}

\* A quarantine takes an honest objection, to a bad insight or by mishap.
LEMMA QuarantineIsEarned ==
    ASSUME IInv, NEW n \in Honest, NEW i \in Insight, StatusOf(log[n], i) = "QUARANTINED"
    PROVE  Honest \cap Misled(log[n], i) # {} \/ ~(Verdict[i] = "ALLOW" /\ Verifies(i))
<1>1. n \in Node /\ log[n] \in SUBSET Entry
  BY DEF Honest, IInv, TypeOK
<1>2. "QUARANTINED" \in Reached(log[n], i)
  BY StatusIsHighest
<1>3. ~Quorate(StatusVoters(log[n], i, "QUARANTINED"))
  BY <1>1, OnlyRevocations DEF Status
<1>4. Quorate(BadVoters(log[n], i))
  BY <1>2, <1>3 DEF Reached, Derived
<1>5. PICK a \in Honest : a \in BadVoters(log[n], i)
  BY <1>1, <1>4, VotersAreNodes, HonestInQuorum
<1>6. PICK e \in Standing(log[n], i) : e.author = a /\ ~e.body.ok
  BY <1>5 DEF BadVoters, Authors
<1>7. e \in log[n] /\ e.body.kind = "ATTEST" /\ e.body.id = i
  BY <1>6 DEF Standing, About
<1>8. HonestlyMeant(e.body)
  BY <1>1, <1>5, <1>6, <1>7 DEF IInv, HonestSignatures
<1>9. e.body.replay_hash \in Mishap \/ ~Passes(i)
  BY <1>6, <1>7, <1>8 DEF HonestlyMeant
<1> QED BY <1>5, <1>6, <1>9 DEF Misled, Authors, Passes

\* Replicas behind each other or partitioned never hold opposite verdicts.
THEOREM ReplicasNeverSplit == Spec => []NoSplitVerdict
<1>1. IInv => NoSplitVerdict
  BY PoisonStaysOut, QuarantineIsEarned DEF NoSplitVerdict, NoPoisonVerified
<1> QED BY <1>1, Inductive, PTL

-----------------------------------------------------------------------------
(* A round brings honest replicas together *)

\* Honest nodes that reach each other hold the same entries after a round, so
\* they fold every insight alike and would prune the same subtrees.
RoundAgrees ==
    GossipRound => \A m, n \in Honest : Linked(m, n) => log'[m] = log'[n]

\* The schema gate takes nothing away from an honest replica.
LEMMA HonestLogsAreSound ==
    ASSUME BodyIsBound, NEW n \in Honest
    PROVE  Admitted(log[n]) = log[n]
  BY DEF BodyIsBound, Admitted, ValidBody

\* Whoever gathers from the same side gathers the same.
LEMMA RoundStep == TypeOK /\ BodyIsBound => RoundAgrees
<1> SUFFICES ASSUME TypeOK, BodyIsBound, GossipRound,
                    NEW m \in Honest, NEW n \in Honest, Linked(m, n)
             PROVE  log'[m] = log'[n]
  BY Zenon DEF RoundAgrees
<1> DEFINE Gathered(x) == log[x] \cup Admitted(UNION {log[y] : y \in {z \in Node : Linked(x, z)}})
<1>1. ASSUME NEW x \in Honest, NEW y \in Honest, Linked(x, y)
      PROVE  Gathered(x) \subseteq Gathered(y)
  <2> SUFFICES ASSUME NEW e \in Gathered(x) PROVE e \in Gathered(y)
    OBVIOUS
  <2>1. x \in Node /\ y \in Node /\ Linked(y, x)
    BY <1>1 DEF Honest, Linked
  <2>2. PICK z \in Node : e \in log[z] /\ ValidBody(e.body) /\ (z = x \/ Linked(x, z))
    BY <2>1, HonestLogsAreSound DEF Admitted
  <2>3. z = y \/ Linked(y, z)
    BY <1>1, <2>1, <2>2 DEF Linked
  <2> QED BY <2>2, <2>3 DEF Admitted
<1>2. Linked(n, m) /\ m \in Node /\ n \in Node
  BY DEF Linked, Honest
<1>3. log'[m] = Gathered(m) /\ log'[n] = Gathered(n)
  BY <1>2 DEF GossipRound
<1> HIDE DEF Gathered
<1>4. Gathered(m) \subseteq Gathered(n)
  BY <1>1, Zenon
<1>5. Gathered(n) \subseteq Gathered(m)
  BY <1>1, <1>2, Zenon
<1>6. Gathered(m) = Gathered(n)
  BY <1>4, <1>5
<1> QED BY <1>3, <1>6, Zenon

\* One round without faults is enough for all honest replicas to be equal, and a
\* partitioned mesh is one on each side.
THEOREM RoundsAgree == Spec => [][RoundAgrees]_vars
<1>1. IInv => RoundAgrees
  BY RoundStep DEF IInv
<1> QED BY <1>1, Inductive, PTL

-----------------------------------------------------------------------------
(* A round settles what has been ruled on *)

\* The honest nodes that have confirmed i, each in its own log.
Confirmed(i) == {a \in Honest : a \in HonestOk(log[a], i)}

\* One round without faults takes an insight that a quorum of honest nodes has
\* confirmed, each for itself, to VERIFIED at least on every honest replica, and
\* what one of them knows to all: mishaps, rogue votes and the rulings still missing
\* change nothing.
RoundSettles ==
    GossipRound /\ down = {} /\ cut = {} =>
        \A m \in Honest, i \in Insight :
            /\ Quorate(Confirmed(i)) => Rank(StatusOf(log'[m], i)) >= Rank("VERIFIED")
            /\ (\E n \in Honest : Known(log[n], i)) => Known(log'[m], i)

\* After a round without faults a replica holds what the honest ones held.
LEMMA RoundCollects ==
    ASSUME TypeOK, BodyIsBound, GossipRound, down = {}, cut = {},
           NEW m \in Honest, NEW a \in Honest
    PROVE  log[a] \subseteq log'[m]
<1>1. m \in Node /\ a \in Node /\ Admitted(log[a]) = log[a]
  BY HonestLogsAreSound DEF Honest
<1>2. log'[m] = log[m] \cup Admitted(UNION {log[y] : y \in {z \in Node : Linked(m, z)}})
  BY <1>1 DEF GossipRound
<1>3. CASE a = m
  BY <1>2, <1>3
<1>4. CASE a # m
  <2>1. Linked(m, a)
    BY <1>4 DEF Linked
  <2> QED BY <1>1, <1>2, <2>1 DEF Admitted
<1> QED BY <1>3, <1>4

\* An author's own attestation that stands in its log stands wherever a round takes it.
LEMMA StandsAfterRound ==
    ASSUME IInv, [Next]_vars, GossipRound, NEW m \in Node, NEW a \in Node, NEW i \in Insight,
           NEW e \in Standing(log[a], i), e.author = a, e \in log'[m]
    PROVE  e \in Standing(log'[m], i)
<1>1. ASSUME NEW f \in About(log'[m], "ATTEST", i), f.author = a
      PROVE  f \in About(log[a], "ATTEST", i)
  <2>1. f \in log'[m] /\ ValidBody(f.body)
    BY <1>1 DEF About, ValidBody
  <2>2. PICK n \in Node : f \in log[n]
    BY <2>1, GossipSource DEF IInv
  <2>3. f \in log[a]
    BY <1>1, <2>1, <2>2 DEF IInv, OwnEntriesAtHome
  <2> QED BY <1>1, <2>3 DEF About
<1>2. \A f \in About(log'[m], "ATTEST", i) : f.author = e.author => f.seq <= e.seq
  BY <1>1 DEF Standing
<1>3. e \in About(log'[m], "ATTEST", i)
  BY DEF Standing, About
<1> QED BY <1>2, <1>3 DEF Standing

\* So the round shows every confirmation that stands at home.
LEMMA RoundSettlesStep == IInv /\ [Next]_vars => RoundSettles
<1> SUFFICES ASSUME IInv, [Next]_vars, GossipRound, down = {}, cut = {},
                    NEW m \in Honest, NEW i \in Insight
             PROVE  /\ Quorate(Confirmed(i)) => Rank(StatusOf(log'[m], i)) >= Rank("VERIFIED")
                    /\ (\E n \in Honest : Known(log[n], i)) => Known(log'[m], i)
  BY DEF RoundSettles
<1>1. m \in Node /\ IInv'
  BY IInvNext DEF Honest
<1>3. \A a \in Honest : log[a] \subseteq log'[m]
  BY RoundCollects DEF IInv
<1>4. ASSUME Quorate(Confirmed(i)) PROVE Rank(StatusOf(log'[m], i)) >= Rank("VERIFIED")
  <2>1. Confirmed(i) \subseteq OkVoters(log'[m], i, Measured[i])
    <3> SUFFICES ASSUME NEW a \in Confirmed(i) PROVE a \in OkVoters(log'[m], i, Measured[i])
      OBVIOUS
    <3>1. a \in Honest /\ a \in OkVoters(log[a], i, Measured[i])
      BY DEF Confirmed, HonestOk
    <3>2. PICK e \in Standing(log[a], i) : /\ e.author = a /\ e.body.ok
                                           /\ e.body.replay_hash = Measured[i]
      BY <3>1 DEF OkVoters, Authors
    <3>3. e \in log'[m] /\ a \in Node
      BY <1>3, <3>1 DEF Standing, About, Honest
    <3>4. e \in Standing(log'[m], i)
      BY <1>1, <3>2, <3>3, StandsAfterRound
    <3> QED BY <3>2, <3>4 DEF OkVoters, Authors
  <2>2. log'[m] \in SUBSET Entry
    BY <1>1 DEF IInv, TypeOK
  <2>3. OkVoters(log'[m], i, Measured[i]) \in SUBSET Node /\ Confirmed(i) \in SUBSET Node
    BY <2>2, VotersAreNodes DEF Confirmed, Honest
  <2>4. Quorate(OkVoters(log'[m], i, Measured[i]))
    BY <1>4, <2>1, <2>3, QuorumGrows
  <2>5. Measured[i] \in Hash \cup Reason
    OBVIOUS
  <2> QED BY <2>4, <2>5, OkQuorumRank
<1>5. ASSUME NEW n \in Honest, Known(log[n], i) PROVE Known(log'[m], i)
  BY <1>3, <1>5 DEF Known, About
<1> QED BY <1>4, <1>5

\* Between quorum and round nothing else has to happen.  What is left of SoundInsightSettles is the scheduler's.
THEOREM RoundsSettle == Spec => [][RoundSettles]_vars
<1>1. IInv /\ [Next]_vars => [RoundSettles]_vars
  BY RoundSettlesStep
<1> QED BY <1>1, Inductive, PTL DEF Spec

-----------------------------------------------------------------------------
(* The mesh implements the grow-only set *)

\* The mesh's replicas as GrowOnlySet sees them: an entry is its author's own,
\* and sound when the schema gate lets its body through.
Replicas == INSTANCE GrowOnlySet WITH
                Own <- [n \in Node |-> {e \in Entry : e.author = n}],
                Sound <- {e \in Entry : ValidBody(e.body)}

\* A step adds to the replicas what GrowOnlySet allows, or nothing.
LEMMA GrowStep == IInv /\ [Next]_vars => [Replicas!Grow]_log
<1> SUFFICES ASSUME IInv, [Next]_vars PROVE Replicas!Grow
  OBVIOUS
<1> USE DEF IInv
<1>1. log' \in [Node -> SUBSET Entry]
  BY TypeNext DEF TypeOK
<1>2. \A n \in Node : log[n] \subseteq log'[n]
  BY LogsGrow
<1>3. ASSUME NEW n \in Node, NEW e \in log'[n] \ log[n]
      PROVE  \/ e \in Entry /\ e.author = n
             \/ e \in UNION {log[m] : m \in Node} /\ e \in Entry /\ ValidBody(e.body)
  <2>1. e \in Entry
    BY <1>1, <1>3
  <2>2. CASE GossipRound
    BY <1>3, <2>1, <2>2 DEF GossipRound, Admitted
  <2>3. ASSUME NEW b, HonestSigning(b) PROVE e.author = n
    BY <1>3, <2>3, SigningSource DEF HonestSigning
  <2> QED BY <1>3, <2>1, <2>2, <2>3, StepShape
<1> QED BY <1>1, <1>2, <1>3 DEF Replicas!Grow, Replicas!Held

\* Whatever handlers, compromised nodes and faults do, the replicas of the mesh
\* are the grow-only sets that the header of fabric/log.py promises, and that
\* Gossip implements message by message.
THEOREM Implements == Spec => Replicas!Spec
<1>1. Init => Replicas!Init
  BY DEF Init, Replicas!Init
<1> QED BY <1>1, GrowStep, Inductive, PTL DEF Spec, Replicas!Spec
=============================================================================
