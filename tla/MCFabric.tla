----------------------------- MODULE MCFabric -----------------------------
(* Instances of Fabric for TLC: the three nodes of the demo mesh, and a    *)
(* fourth where rounds overlap; n3 is the one the chaos menu compromises,  *)
(* takes down or isolates.                                                 *)
EXTENDS Fabric, TLC

CONSTANTS n1, n2, n3, n4, good, bad, child, t1, t2

MCReason == {"INVALID_SIG", "RATE_LIMITED"}
MCHash   == {"h1", "h2"}

\* The compromised node comes first in the fold, and so do its copies.
MCPlace == [n \in Node |-> CASE n = n3 -> 0 [] n = n1 -> 1 [] n = n2 -> 2
                             [] OTHER -> 3]
\* Threads have no names in the code.
Threads == Permutations(Driver)

\* good comes from n1; bad is n3's fabricated one; child derives from good.
MCDiscoveredBy == [i \in Insight |-> IF i = bad THEN n3 ELSE n1]
MCDerivedFrom  == [i \in Insight |-> IF i = child THEN Insight \cap {good} ELSE {}]
MCScope        == [i \in Insight |-> "lossy"]
MCImproves     == [i \in Insight |-> TRUE]
MCClaimed      == [i \in Insight |-> "h1"]
MCMeasured     == [i \in Insight |-> IF i = bad THEN "h2" ELSE "h1"]
MCVerdict      == [i \in Insight |-> "ALLOW"]
NoBodies       == {}

\* A sound insight that the compromised node itself discovered.
ByN3           == [i \in Insight |-> n3]

\* The good insight under a signature that does not verify.
SpoiledCopy == [InsightBody(good) EXCEPT !.signed = FALSE]

\* What n3 signs when compromised: both votes on the good insight, a spoiled copy
\* of it, a body that does not hash to its id, votes to promote its own insight
\* and to erase the good one.
MCRogueBody ==
    {AttestBody(good, FALSE, "h1"), AttestBody(good, TRUE, "h1"), SpoiledCopy,
     AttestBody(bad, TRUE, "h2"),
     [InsightBody(good) EXCEPT !.content = bad],
     StatusBody(bad, "VERIFIED", "OPERATOR"),
     StatusBody(good, "REVOKED", "OPERATOR"), TombstoneBody(good)}

\* What it signs against an insight while attest rounds overlap.
SpoilerBody == {SpoiledCopy, AttestBody(good, FALSE, "h1")}

MaxSeqOne   == [n \in Node |-> IF n \in {n1, n3} THEN 1 ELSE 2]
MaxSeqRogue == [n \in Node |-> IF n = n3 THEN 3 ELSE 2]
MaxSeqSmall == [n \in Node |-> 2]
=============================================================================
