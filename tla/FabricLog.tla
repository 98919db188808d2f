----------------------------- MODULE FabricLog -----------------------------
(***************************************************************************)
(* The fabric log's entries and its fold (fabric/log.py, fabric/model.py). *)
(*                                                                         *)
(* A replica is a SET of signed entries: the hash chain that orders them   *)
(* locally plays no part in what they mean.  Everything here is a pure     *)
(* function of such a set, as FabricLog.fold is of by_id.values().         *)
(*                                                                         *)
(* An insight's id is the hash of its signed body, so an insight and its   *)
(* id are one value of Insight; only an entry that LIES about the id holds *)
(* two different ones.                                                     *)
(***************************************************************************)
EXTENDS Naturals, FiniteSets

CONSTANTS Node,          \* the pinned membership
          Insight,       \* insight bodies, each named by the id it hashes to
          Hash,          \* replay hashes verify() can compute
          Reason,        \* deny reasons of the guardrail
          QUORUM,        \* distinct authors an outcome needs
          Place,         \* where each node's name comes in the order of names
          DerivedFrom    \* provenance.derived_from of each insight

Status == {"LOCAL", "CANDIDATE", "VERIFIED", "QUARANTINED", "REVOKED"}

\* Why a demotion was signed: probation, or somebody calling revoke/tombstone.
Cause == {"PROBATION", "OPERATOR"}

ASSUME FabricLogAssumption ==
    /\ IsFiniteSet(Node)
    /\ QUORUM \in Nat \ {0}
    /\ Place \in [Node -> Nat]
    /\ \A m, n \in Node : Place[m] = Place[n] => m = n
    /\ DerivedFrom \in [Insight -> SUBSET Insight]

Rank(s) == CASE s = "LOCAL"       -> 0
             [] s = "CANDIDATE"   -> 1
             [] s = "VERIFIED"    -> 2
             [] s = "QUARANTINED" -> 3
             [] s = "REVOKED"     -> 4

-----------------------------------------------------------------------------
(* Entries *)

\* A copy of an insight.  The id is the hash of what its discoverer signed, so a
\* copy whose signature was spoiled keeps the id and does not verify.
InsightCopy == [kind : {"INSIGHT"}, id : Insight, content : Insight, signed : BOOLEAN]

Body == InsightCopy
          \cup [kind : {"ATTEST"}, id : Insight, ok : BOOLEAN,
                replay_hash : Hash \cup Reason]
          \cup [kind : {"STATUS"}, id : Insight, status : Status,
                reason : Cause]
          \cup [kind : {"TOMBSTONE"}, id : Insight]
          \cup [kind : {"GUARDRAIL_DENY"}, id : Insight, reason : Reason]

Entry == [author : Node, seq : Nat, body : Body]

InsightBody(i)   == [kind |-> "INSIGHT", id |-> i, content |-> i, signed |-> TRUE]
AttestBody(i, ok, h) ==
    [kind |-> "ATTEST", id |-> i, ok |-> ok, replay_hash |-> h]
StatusBody(i, s, c) ==
    [kind |-> "STATUS", id |-> i, status |-> s, reason |-> c]
TombstoneBody(i) == [kind |-> "TOMBSTONE", id |-> i]
DenyBody(i, r)   == [kind |-> "GUARDRAIL_DENY", id |-> i, reason |-> r]

\* Mutant of ValidBody: the id is not re-derived.
AnyBody(b) == TRUE

\* The schema gate.  Shapes are right by construction of Body; what is left is
\* the check that the id re-derives from the content it names.
ValidBody(b) == b.kind = "INSIGHT" => b.content = b.id

\* Mutant of Signed: the number of the entry before.
SignedEarly(a, n, bodies) == {[author |-> a, seq |-> n - 1, body |-> b] : b \in bodies}

\* The entries a handler of author a signs.  The appends of one handler share
\* a sequence number: nothing in the code tells them apart by it.
Signed(a, n, bodies) == {[author |-> a, seq |-> n, body |-> b] : b \in bodies}

\* What ingest() lets through of a pushed set.
Admitted(S) == {e \in S : ValidBody(e.body)}

-----------------------------------------------------------------------------
(* The fold *)

About(S, k, i) == {e \in S : e.body.kind = k /\ e.body.id = i}
Authors(S)     == {e.author : e \in S}

\* Mutant of Quorate: off by one.
QuorateEarly(V) == Cardinality(V) + 1 >= QUORUM

Quorate(V)     == Cardinality(V) >= QUORUM

Known(S, i)    == About(S, "INSIGHT", i) # {}

\* The order in which the fold goes through the entries.
Before(e, f) == \/ Place[e.author] < Place[f.author]
                \/ Place[e.author] = Place[f.author] /\ e.seq < f.seq

\* The body the fold shows for an id it knows: the first copy it comes across.
Copy(S, i) == (CHOOSE e \in About(S, "INSIGHT", i) :
                  \A f \in About(S, "INSIGHT", i) : ~Before(f, e)).body

\* Each author's last attestation stands; earlier ones are overwritten.
Standing(S, i) == {e \in About(S, "ATTEST", i) :
                     \A f \in About(S, "ATTEST", i) :
                        f.author = e.author => f.seq <= e.seq}

OkVoters(S, i, h) == Authors({e \in Standing(S, i) :
                                e.body.ok /\ e.body.replay_hash = h})
BadVoters(S, i)   == Authors({e \in Standing(S, i) : ~e.body.ok})

\* Mutant of StatusVoters: votes are counted, not voters.
StatusVotes(S, i, s) ==
    {e \in About(S, "STATUS", i) : e.body.status = s}
      \cup IF s = "REVOKED" THEN About(S, "TOMBSTONE", i) ELSE {}

\* A tombstone is a vote for REVOKED.
StatusVoters(S, i, s) ==
    Authors({e \in About(S, "STATUS", i) : e.body.status = s})
      \cup IF s = "REVOKED" THEN Authors(About(S, "TOMBSTONE", i)) ELSE {}

\* Mutant of Derived: one objection undoes a quorum.
DerivedUnanimous(S, i) ==
    IF Quorate(BadVoters(S, i)) THEN "QUARANTINED"
    ELSE IF /\ BadVoters(S, i) = {}
            /\ \E h \in Hash \cup Reason : Quorate(OkVoters(S, i, h))
         THEN "VERIFIED" ELSE "CANDIDATE"

Derived(S, i) ==
    IF Quorate(BadVoters(S, i)) THEN "QUARANTINED"
    ELSE IF \E h \in Hash \cup Reason : Quorate(OkVoters(S, i, h))
         THEN "VERIFIED" ELSE "CANDIDATE"

Reached(S, i) == {Derived(S, i)} \cup
                 {s \in Status : Quorate(StatusVoters(S, i, s))}

\* The status fold() gives insight i: the highest one reached.
StatusOf(S, i) == CHOOSE s \in Reached(S, i) :
                     \A t \in Reached(S, i) : Rank(t) <= Rank(s)

Verified(S, i)  == Known(S, i) /\ StatusOf(S, i) = "VERIFIED"
Candidate(S, i) == Known(S, i) /\ StatusOf(S, i) = "CANDIDATE"

-----------------------------------------------------------------------------
(* Provenance *)

\* Insights of replica S that name p as a parent.
Children(S, p) == {i \in Insight : /\ Known(S, i)
                                   /\ p \in DerivedFrom[Copy(S, i).content]}

\* The provenance subtree below i, i excluded: the least set that holds the
\* children of i and of its own members.
Descendants(S, i) ==
    {v \in Insight : \A D \in SUBSET Insight :
        (\A p \in {i} \cup D : Children(S, p) \subseteq D) => v \in D}

Subtree(S, i) == {i} \cup Descendants(S, i)
=============================================================================
