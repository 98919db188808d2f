---------------------------- MODULE Concession ----------------------------
(***************************************************************************)
(* The bounded concession loop of core/csp_mini.negotiate: two agents with *)
(* private utilities over the feasible points make alternating offers, each *)
(* lowering its aspiration at every offer, until one accepts.  A warm start *)
(* anchors both aspirations at a remembered settlement.                     *)
(*                                                                         *)
(* Utilities are whole numbers of a small unit.  u_max - step*(n-1) with    *)
(* step = max(eps, (u_max-u_min)/steps) is kept whole by multiplying every  *)
(* comparison by steps.  A receive that gives up ends the session.          *)
(*                                                                         *)
(* The loop checks what it receives as if the peer might not follow it, so  *)
(* a side may be free: it offers and accepts as it likes.                   *)
(***************************************************************************)
EXTENDS Integers

CONSTANTS Point,        \* the feasible points, numbered in order of point_hash
          Midpoint,     \* where an imposed settlement lands
          NoPoint,      \* no anchor, nothing received yet
          MaxUtility,   \* bound: utilities are 0..MaxUtility
          EPS, DELTA,   \* least concession per offer; tolerance
          R_MAX         \* cap on offers

ASSUME ConcessionAssumption ==
    /\ Point \subseteq Nat
    /\ Midpoint \in Point
    /\ NoPoint \notin Point
    /\ MaxUtility \in Nat
    /\ EPS \in Nat
    /\ DELTA \in Nat
    /\ R_MAX \in Nat /\ R_MAX >= 2     \* TUNABLE_BOUNDS["r_max"]

Side == {"a", "b"}
Opponent(x) == IF x = "a" THEN "b" ELSE "a"

Outcomes == {"open", "acceptance", "ROUND_CAP", "CONCESSION_VIOLATION", "TIMEOUT"}

VARIABLES free,       \* the sides that do not keep to the schedule
          U,          \* U[x][p]: utility of point p to side x
          anchor,     \* the point a warm start snapped to, or NoPoint
          uMax, uMin, \* where each side's aspirations start, and their floor
          offers,     \* offers made by each side
          rounds,     \* offers made in all; 0 before the proposal
          offer,      \* the last offer, NoPoint before the proposal
          cur,        \* the side whose move it is
          lastRecv,   \* lastRecv[x]: the previous offer received FROM x
          agreed,     \* the agreed point, NoPoint while there is none
          outcome     \* resolved_by, or the abort reason

scenario == <<free, U, anchor, uMax, uMin>>
vars == <<free, U, anchor, uMax, uMin, offers, rounds, offer, cur, lastRecv, agreed, outcome>>

-----------------------------------------------------------------------------
(* Aspirations *)

\* Offers a side makes within the cap.  R_MAX >= 2, so it is at least 1.
Steps == R_MAX \div 2

Step(x) == IF uMax[x] - uMin[x] > Steps * EPS THEN uMax[x] - uMin[x] ELSE Steps * EPS

\* What side x wants of its n-th offer, Steps times over.
Target(x, n) == Steps * uMax[x] - Step(x) * (n - 1)

Wanted(x, n) == {p \in Point : Steps * U[x][p] >= Target(x, n)}

\* Nothing meets the aspiration: anything goes.
Candidates(x, n) == IF Wanted(x, n) = {} THEN Point ELSE Wanted(x, n)

\* Mutant of BestOffer: the first candidate will do.
FirstOffer(x, n, p) ==
    /\ p \in Candidates(x, n)
    /\ \A q \in Candidates(x, n) : p <= q

\* p is the candidate that gives the opponent most, the first one among equals.
BestOffer(x, n, p) ==
    /\ p \in Candidates(x, n)
    /\ \A q \in Candidates(x, n) :
          \/ U[Opponent(x)][q] < U[Opponent(x)][p]
          \/ U[Opponent(x)][q] = U[Opponent(x)][p] /\ p <= q

\* make_offer, and the message that carries the offer.
MakeOffer(x) ==
    /\ offers' = [offers EXCEPT ![x] = @ + 1]
    /\ rounds' = rounds + 1
    /\ \E p \in Point : /\ BestOffer(x, offers[x] + 1, p) \/ x \in free
                       /\ offer' = p
    /\ cur' = Opponent(x)

-----------------------------------------------------------------------------
IsFloor(x, u) == /\ \E p \in Point : U[x][p] = u
                 /\ \A p \in Point : U[x][p] >= u
IsPeak(x, u)  == /\ \E p \in Point : U[x][p] = u
                 /\ \A p \in Point : U[x][p] <= u

\* Mutant of IsStart: the anchor does not lower the aspiration.
ColdStart(x, u) == IsPeak(x, u)

\* Where x's aspirations start.
IsStart(x, u) == IF anchor \in Point THEN u = U[x][anchor] ELSE IsPeak(x, u)

Init == /\ free \in SUBSET Side
        /\ U \in [Side -> [Point -> 0..MaxUtility]]
        /\ anchor \in Point \cup {NoPoint}
        /\ uMax \in [Side -> 0..MaxUtility]
        /\ uMin \in [Side -> 0..MaxUtility]
        /\ \A x \in Side : IsStart(x, uMax[x]) /\ IsFloor(x, uMin[x])
        /\ offers = [x \in Side |-> 0]
        /\ rounds = 0
        /\ offer = NoPoint
        /\ cur \in Side                 \* the nonces choose the proposer
        /\ lastRecv = [x \in Side |-> NoPoint]
        /\ agreed = NoPoint
        /\ outcome = "open"

Propose == /\ outcome = "open" /\ rounds = 0
           /\ MakeOffer(cur)
           /\ UNCHANGED <<scenario, lastRecv, agreed, outcome>>

\* What the receiver of an offer finds, in the order it looks.
Sender      == Opponent(cur)
WalkedBack  == /\ lastRecv[Sender] # NoPoint
               /\ U[cur][offer] < U[cur][lastRecv[Sender]] - DELTA

\* Mutant of GoodEnough: the aspiration of the offer it made last.
GoodEnoughLate == Steps * U[cur][offer] >= Target(cur, offers[cur]) - Steps * DELTA

GoodEnough  == Steps * U[cur][offer] >= Target(cur, offers[cur] + 1) - Steps * DELTA

Receiving == outcome = "open" /\ rounds > 0

Conclude(p, how) == /\ agreed' = p
                    /\ outcome' = how
                    /\ UNCHANGED <<scenario, offers, rounds, offer, cur>>

\* SETTLE: the offer is worse for me than the sender's last one.
SettleViolation == /\ Receiving
                   /\ WalkedBack
                   /\ Conclude(Midpoint, "CONCESSION_VIOLATION")
                   /\ UNCHANGED lastRecv

\* Mutant of Noted: what is noted is the worth of the offer.
NotedWorth == lastRecv' = [lastRecv EXCEPT ![Sender] = U[cur][offer]]

Noted == lastRecv' = [lastRecv EXCEPT ![Sender] = offer]

Accept == /\ Receiving
          /\ ~WalkedBack
          /\ GoodEnough \/ cur \in free
          /\ Conclude(offer, "acceptance")
          /\ Noted

\* SETTLE: the cap on offers is reached.
SettleCap == /\ Receiving
             /\ ~WalkedBack /\ rounds >= R_MAX
             /\ ~GoodEnough \/ cur \in free
             /\ Conclude(Midpoint, "ROUND_CAP")
             /\ Noted

\* Mutant of Counter: the counter-offer repeats the last one, uncounted.
CounterUncounted ==
    /\ Receiving
    /\ ~WalkedBack /\ rounds < R_MAX
    /\ ~GoodEnough \/ cur \in free
    /\ cur' = Sender
    /\ \E p \in Point : BestOffer(cur, offers[cur] + 1, p) /\ offer' = p
    /\ Noted
    /\ UNCHANGED <<scenario, offers, rounds, agreed, outcome>>

Counter == /\ Receiving
           /\ ~WalkedBack /\ rounds < R_MAX
           /\ ~GoodEnough \/ cur \in free
           /\ MakeOffer(cur)
           /\ Noted
           /\ UNCHANGED <<scenario, agreed, outcome>>

\* recv gives up, retransmission and all.
Timeout == /\ Receiving
           /\ outcome' = "TIMEOUT"
           /\ UNCHANGED <<scenario, offers, rounds, offer, cur, lastRecv, agreed>>

Next == Propose \/ SettleViolation \/ Accept \/ SettleCap \/ Counter \/ Timeout

Spec     == Init /\ [][Next]_vars
FairSpec == Spec /\ WF_vars(Next)

-----------------------------------------------------------------------------
(* Properties *)

\* The variables have the types of the objects they stand for.
TypeOK ==
    /\ free \subseteq Side
    /\ U \in [Side -> [Point -> 0..MaxUtility]]
    /\ anchor \in Point \cup {NoPoint}
    /\ uMax \in [Side -> 0..MaxUtility]
    /\ uMin \in [Side -> 0..MaxUtility]
    /\ offers \in [Side -> Nat]
    /\ rounds \in Nat
    /\ offer \in Point \cup {NoPoint}
    /\ cur \in Side
    /\ lastRecv \in [Side -> Point \cup {NoPoint}]
    /\ agreed \in Point \cup {NoPoint}
    /\ outcome \in Outcomes

\* The concession check blames nobody who keeps to the schedule: the best deal
\* for the opponent among a growing set of candidates does not get worse
\* (csp_mini.py make_offer, and the check at the top of the loop).
NeverWalksBack == outcome = "CONCESSION_VIOLATION" => Sender \in free

\* A side that keeps to the schedule never has the midpoint imposed at the cap:
\* its schedule, spread over its own share of the offers, reaches its floor in
\* time, whatever it is offered (the comment on steps_per_side).
CapUnreached == /\ outcome = "ROUND_CAP" => cur \in free
                /\ rounds <= R_MAX

\* A warm start is accepted at once: a negotiation both sides anchored never
\* needs a second offer.
WarmStartOneRound == anchor # NoPoint /\ free = {} => rounds <= 1

\* ... and gives neither side less than the settlement it remembers.
WarmStartNoWorse ==
    anchor # NoPoint /\ free = {} /\ agreed # NoPoint =>
        \A x \in Side : U[x][agreed] >= U[x][anchor]

\* An agreement leaves nothing on the table: no feasible point is strictly
\* better for both sides.
AgreementIsEfficient ==
    free = {} /\ agreed # NoPoint =>
        ~\E p \in Point : \A x \in Side : U[x][p] > U[x][agreed]

\* The loop ends, by agreement unless the channel gives out.
Terminates == <>(outcome # "open")
=============================================================================
