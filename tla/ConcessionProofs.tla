------------------------- MODULE ConcessionProofs -------------------------
(***************************************************************************)
(* Proofs of the safety properties of Concession, for every set of points, *)
(* all utility tables, every cap, step and tolerance.                      *)
(***************************************************************************)
EXTENDS Concession, TLAPS

USE ConcessionAssumption

-----------------------------------------------------------------------------
(* Arithmetic and sides *)

\* Multiplying by a natural number keeps an inequality.
LEMMA TimesMonotone ==
    ASSUME NEW k \in Nat, NEW m \in Int, NEW n \in Int, m <= n
    PROVE  k * m <= k * n
<1>1. PICK d \in Nat : n = m + d
  <2>1. n - m \in Nat /\ n = m + (n - m)
    OBVIOUS
  <2> QED BY <2>1
<1>2. k * n = k * m + k * d
  BY <1>1
<1>3. k * d \in Nat
  OBVIOUS
<1> QED BY <1>2, <1>3

\* Dividing by a positive one keeps it too.
LEMMA TimesCancel ==
    ASSUME NEW k \in Nat, k > 0, NEW m \in Int, NEW n \in Int, k * m <= k * n
    PROVE  m <= n
<1> SUFFICES ASSUME n + 1 <= m
             PROVE  FALSE
  OBVIOUS
<1>1. k * (n + 1) <= k * m
  BY TimesMonotone
<1>2. k * (n + 1) = k * n + k
  OBVIOUS
<1> QED BY <1>1, <1>2

\* A side's share of the cap is at least one offer, and rounds that reach the
\* cap hold that many offers of each.
LEMMA StepsType ==
    /\ Steps \in Nat /\ Steps > 0
    /\ 2 * Steps <= R_MAX /\ R_MAX <= 2 * Steps + 1
  BY DEF Steps

\* The two sides are each other's opponents.
LEMMA Opponents ==
    \A x \in Side : /\ Opponent(x) \in Side
                    /\ Opponent(x) # x
                    /\ Opponent(Opponent(x)) = x
  BY DEF Side, Opponent

-----------------------------------------------------------------------------
(* The schedule *)

\* What Init fixes of the scenario.
Anchored == \A x \in Side : IsStart(x, uMax[x]) /\ IsFloor(x, uMin[x])

\* The aspiration of each step is a whole number, and starts at uMax.
LEMMA TargetType ==
    ASSUME TypeOK, NEW x \in Side
    PROVE  /\ Step(x) \in Nat
           /\ Step(x) >= uMax[x] - uMin[x]
           /\ Steps * uMax[x] \in Int
           /\ \A n \in Nat : Target(x, n) \in Int
           /\ Target(x, 1) = Steps * uMax[x]
<1>1. uMax[x] \in Nat /\ uMin[x] \in Nat
  BY DEF TypeOK
<1>2. Steps * EPS \in Nat /\ Steps * uMax[x] \in Nat
  BY <1>1, StepsType
<1>3. Step(x) \in Nat /\ Step(x) >= uMax[x] - uMin[x]
  BY <1>1, <1>2, StepsType DEF Step
<1>4. \A n \in Nat : Step(x) * (n - 1) \in Int
  BY <1>3
<1>5. Step(x) * (1 - 1) = 0
  BY <1>3
<1> HIDE DEF Step, Steps
<1> QED BY <1>2, <1>3, <1>4, <1>5 DEF Target

\* Aspirations never rise.
LEMMA TargetFalls ==
    ASSUME TypeOK, NEW x \in Side, NEW m \in Nat, NEW n \in Nat, m <= n
    PROVE  Target(x, n) <= Target(x, m)
<1>1. Step(x) * (m - 1) <= Step(x) * (n - 1)
  BY TargetType, TimesMonotone
<1>2. Step(x) * (m - 1) \in Int /\ Step(x) * (n - 1) \in Int
  BY TargetType
<1> HIDE DEF Step, Steps
<1> QED BY <1>1, <1>2, TargetType DEF Target

\* After a side's share of the cap its aspiration is at its floor, so any offer
\* will do.
LEMMA FloorReached ==
    ASSUME TypeOK, Anchored, NEW x \in Side, NEW n \in Nat, n >= Steps,
           NEW p \in Point
    PROVE  Target(x, n + 1) <= Steps * U[x][p]
<1>1. U[x][p] \in Nat /\ uMax[x] \in Nat /\ uMin[x] \in Nat /\ uMin[x] <= U[x][p]
  BY DEF TypeOK, Anchored, IsFloor
<1>2. Step(x) * Steps <= Step(x) * n
  BY StepsType, TargetType, TimesMonotone
<1>3. Steps * (uMax[x] - uMin[x]) <= Steps * Step(x)
  BY <1>1, StepsType, TargetType, TimesMonotone
<1>4. Steps * uMin[x] <= Steps * U[x][p]
  BY <1>1, StepsType, TimesMonotone
<1>5. Steps * (uMax[x] - uMin[x]) = Steps * uMax[x] - Steps * uMin[x]
  BY <1>1, StepsType
<1>6. Steps * Step(x) = Step(x) * Steps
  BY StepsType, TargetType
<1>7. Target(x, n + 1) = Steps * uMax[x] - Step(x) * n
  BY DEF Target
<1>8. /\ Steps * uMax[x] \in Int /\ Steps * uMin[x] \in Int /\ Step(x) * n \in Int
      /\ Steps * U[x][p] \in Int /\ Step(x) * Steps \in Int
  BY <1>1, StepsType, TargetType
<1> QED BY <1>2, <1>3, <1>4, <1>5, <1>6, <1>7, <1>8

\* Some point always meets the aspiration: the one it started from.
LEMMA SomethingWanted ==
    ASSUME TypeOK, Anchored, NEW x \in Side, NEW n \in Nat, n >= 1
    PROVE  /\ Candidates(x, n) = Wanted(x, n)
           /\ anchor \in Point => anchor \in Wanted(x, n)
<1>1. PICK p \in Point : U[x][p] = uMax[x] /\ (anchor \in Point => p = anchor)
  BY DEF Anchored, IsStart, IsPeak
<1>2. Target(x, n) <= Steps * uMax[x]
  BY TargetFalls, TargetType
<1>3. p \in Wanted(x, n)
  BY <1>1, <1>2 DEF Wanted
<1> QED BY <1>1, <1>3 DEF Candidates

\* A later best offer gives the opponent at least as much.
LEMMA OffersImprove ==
    ASSUME TypeOK, Anchored, NEW x \in Side, NEW m \in Nat, NEW n \in Nat,
           1 <= m, m <= n, NEW p \in Point, NEW q \in Point,
           BestOffer(x, m, p), BestOffer(x, n, q)
    PROVE  U[Opponent(x)][p] <= U[Opponent(x)][q]
<1>1. Steps * U[x][p] >= Target(x, m)
  BY SomethingWanted DEF BestOffer, Wanted
<1>2. Steps * U[x][p] \in Int
  BY StepsType DEF TypeOK
<1>3. Steps * U[x][p] >= Target(x, n)
  BY <1>1, <1>2, TargetFalls, TargetType
<1>4. p \in Candidates(x, n)
  BY <1>3, SomethingWanted DEF Wanted
<1>5. U[Opponent(x)][p] \in Nat /\ U[Opponent(x)][q] \in Nat
  BY Opponents DEF TypeOK
<1> QED BY <1>4, <1>5 DEF BestOffer

-----------------------------------------------------------------------------
(* Type correctness *)

\* The types hold initially.
LEMMA TypeInit == Init => TypeOK
  BY DEF Init, TypeOK, Outcomes

\* Making an offer keeps the types.
LEMMA MakeOfferType ==
    ASSUME TypeOK, NEW x \in Side, MakeOffer(x)
    PROVE  /\ offers' \in [Side -> Nat]
           /\ rounds' \in Nat
           /\ offer' \in Point
           /\ cur' \in Side
  BY Opponents DEF TypeOK, MakeOffer

\* So does filing an offer under its sender.
LEMMA NotedType ==
    ASSUME TypeOK, Noted
    PROVE  lastRecv' \in [Side -> Point \cup {NoPoint}]
  BY DEF TypeOK, Noted

\* Every step keeps the types, one case per action.
LEMMA TypeNext == TypeOK /\ [Next]_vars => TypeOK'
<1> SUFFICES ASSUME TypeOK, [Next]_vars PROVE TypeOK'
  OBVIOUS
<1>1. CASE Propose
  BY <1>1, MakeOfferType DEF TypeOK, Propose, scenario
<1>2. CASE SettleViolation
  BY <1>2 DEF TypeOK, SettleViolation, Conclude, scenario, Outcomes
<1>3. CASE Accept
  BY <1>3, NotedType DEF TypeOK, Accept, Conclude, scenario, Outcomes
<1>4. CASE SettleCap
  BY <1>4, NotedType DEF TypeOK, SettleCap, Conclude, scenario, Outcomes
<1>5. CASE Counter
  BY <1>5, MakeOfferType, NotedType DEF TypeOK, Counter, scenario
<1>6. CASE Timeout
  BY <1>6 DEF TypeOK, Timeout, scenario, Outcomes
<1>7. CASE UNCHANGED vars
  BY <1>7 DEF TypeOK, vars
<1> QED BY <1>1, <1>2, <1>3, <1>4, <1>5, <1>6, <1>7 DEF Next

\* The variables of the loop keep their types.
THEOREM TypeCorrect == Spec => []TypeOK
  BY TypeInit, TypeNext, PTL DEF Spec

-----------------------------------------------------------------------------
(* The inductive invariant *)

\* The sides take turns, the proposer first, within the cap.
TakingTurns ==
    /\ offers["a"] + offers["b"] = rounds
    /\ rounds > 0 => offers[Sender] - offers[cur] \in {0, 1}
    /\ rounds <= R_MAX
    /\ rounds > 0 => offer \in Point

\* The offer on the table is its sender's best one, if it keeps to its schedule.
OfferIsBest ==
    rounds > 0 /\ Sender \notin free => BestOffer(Sender, offers[Sender], offer)

\* The best offers of both sides, each with its place in the schedule.
BestOffers == {t \in Side \X Nat \X Point : BestOffer(t[1], t[2], t[3])}

\* The offer noted of a side is one of its earlier best ones.
NotedIsBest ==
    \A x \in Side \ free :
        lastRecv[x] # NoPoint =>
            \E k \in 1..offers[x] : <<x, k, lastRecv[x]>> \in BestOffers

\* How a negotiation ends.
EndsWell ==
    /\ outcome \in {"open", "TIMEOUT"} => agreed = NoPoint
    /\ outcome = "acceptance" => rounds > 0 /\ agreed = offer
    /\ outcome = "ROUND_CAP" => cur \in free
    /\ outcome = "CONCESSION_VIOLATION" => Sender \in free

\* A warm start ends in the first round.
WarmStart == anchor # NoPoint /\ free = {} => rounds <= 1

IInv == /\ TypeOK
        /\ Anchored
        /\ TakingTurns
        /\ OfferIsBest
        /\ NotedIsBest
        /\ EndsWell
        /\ WarmStart

\* The invariant holds initially.
LEMMA IInvInit == Init => IInv
<1> SUFFICES ASSUME Init PROVE IInv
  OBVIOUS
<1>1. TypeOK
  BY TypeInit
<1>2. Anchored
  BY DEF Init, Anchored
<1>3. TakingTurns
  BY DEF Init, TakingTurns, Side
<1>4. OfferIsBest /\ NotedIsBest /\ EndsWell /\ WarmStart
  BY DEF Init, OfferIsBest, NotedIsBest, EndsWell, WarmStart
<1> QED BY <1>1, <1>2, <1>3, <1>4 DEF IInv

\* The scenario is fixed for the session.
LEMMA ScenarioFixed == [Next]_vars => UNCHANGED scenario
  BY DEF Next, vars, scenario, Propose, SettleViolation, Accept, SettleCap,
         Counter, Timeout, Conclude

\* Which points are best is fixed with it.
LEMMA SameSchedule ==
    ASSUME UNCHANGED scenario
    PROVE  /\ Anchored <=> Anchored'
           /\ BestOffers' = BestOffers
  BY DEF scenario, Anchored, IsStart, IsFloor, IsPeak, BestOffers, BestOffer,
         Candidates, Wanted, Target, Step, Steps, Opponent

\* A conforming side never hands out an offer that walks the other back.
LEMMA ConcedersDoNotWalkBack ==
    ASSUME IInv, Receiving, WalkedBack
    PROVE  Sender \in free
<1> SUFFICES ASSUME Sender \notin free PROVE FALSE
  OBVIOUS
<1>1. /\ cur \in Side /\ Sender \in Side /\ Opponent(Sender) = cur
      /\ offers[Sender] \in Nat /\ lastRecv[Sender] \in Point /\ offer \in Point
  BY Opponents DEF IInv, TypeOK, TakingTurns, Sender, Receiving, WalkedBack
<1>2. PICK k \in 1..offers[Sender] : BestOffer(Sender, k, lastRecv[Sender])
  BY <1>1 DEF IInv, NotedIsBest, WalkedBack, BestOffers
<1>3. BestOffer(Sender, offers[Sender], offer)
  BY DEF IInv, OfferIsBest, Receiving
<1>4. U[Opponent(Sender)][lastRecv[Sender]] <= U[Opponent(Sender)][offer]
  <2>1. k \in Nat /\ 1 <= k /\ k <= offers[Sender]
    BY <1>1
  <2> HIDE DEF Sender
  <2> QED BY <1>1, <1>2, <1>3, <2>1, OffersImprove DEF IInv
<1>5. \A x \in Side, p \in Point : U[x][p] \in Nat
  BY DEF IInv, TypeOK
<1>6. U[cur][lastRecv[Sender]] \in Nat /\ U[cur][offer] \in Nat
  BY <1>1, <1>5
<1> QED BY <1>1, <1>4, <1>6 DEF WalkedBack

\* At the cap the receiver has used up its schedule, and any offer is good enough.
LEMMA CapIsGoodEnough ==
    ASSUME IInv, Receiving, rounds >= R_MAX
    PROVE  GoodEnough
<1>1. /\ cur \in Side /\ Sender \in Side /\ Sender # cur
      /\ offers[cur] \in Nat /\ offers[Sender] \in Nat /\ offer \in Point
  BY Opponents DEF IInv, TypeOK, TakingTurns, Sender, Receiving
<1>2. offers[cur] + offers[Sender] = rounds /\ offers[Sender] <= offers[cur] + 1
  BY <1>1 DEF IInv, TakingTurns, Side, Receiving
<1>3. offers[cur] >= Steps
  BY <1>1, <1>2, StepsType
<1>4. Target(cur, offers[cur] + 1) <= Steps * U[cur][offer]
  BY <1>1, <1>3, FloorReached DEF IInv
<1>5. Steps * U[cur][offer] \in Int /\ Steps * DELTA \in Nat
  BY <1>1, StepsType DEF IInv, TypeOK
<1>6. Target(cur, offers[cur] + 1) \in Int
  BY <1>1, TargetType DEF IInv
<1> QED BY <1>4, <1>5, <1>6 DEF GoodEnough

\* The first offer of a warm start is good enough, and as good as the anchor.
LEMMA WarmOffer ==
    ASSUME IInv, rounds > 0, anchor # NoPoint, free = {}
    PROVE  /\ GoodEnough
           /\ \A x \in Side : U[x][offer] >= U[x][anchor]
<1>1. /\ cur \in Side /\ Sender \in Side /\ Sender # cur /\ Opponent(Sender) = cur
      /\ offers[cur] \in Nat /\ offers[Sender] \in Nat
      /\ offer \in Point /\ anchor \in Point
  BY Opponents DEF IInv, TypeOK, TakingTurns, Sender
<1>2. offers[cur] = 0 /\ offers[Sender] = 1
  <2>1. rounds = 1
    BY DEF IInv, TypeOK, WarmStart
  <2> QED BY <1>1, <2>1 DEF IInv, TakingTurns, Side
<1>3. BestOffer(Sender, 1, offer)
  BY <1>2 DEF IInv, OfferIsBest
<1>4. \A x \in Side : U[x][offer] \in Nat /\ U[x][anchor] \in Nat
  BY <1>1 DEF IInv, TypeOK
<1>5. Candidates(Sender, 1) = Wanted(Sender, 1) /\ anchor \in Wanted(Sender, 1)
  BY <1>1, SomethingWanted DEF IInv
<1>6. U[cur][offer] >= U[cur][anchor]
  BY <1>1, <1>3, <1>4, <1>5 DEF BestOffer
<1>7. U[Sender][offer] >= U[Sender][anchor]
  <2>1. Steps * U[Sender][anchor] <= Steps * U[Sender][offer]
    <3>1. Target(Sender, 1) = Steps * U[Sender][anchor]
      BY <1>1, TargetType DEF IInv, Anchored, IsStart
    <3> QED BY <1>3, <1>5, <3>1 DEF BestOffer, Wanted
  <2> QED BY <1>1, <1>4, <2>1, StepsType, TimesCancel
<1>8. GoodEnough
  <2>1. Target(cur, 1) = Steps * U[cur][anchor]
    BY <1>1, TargetType DEF IInv, Anchored, IsStart
  <2>2. Steps * U[cur][anchor] <= Steps * U[cur][offer]
    BY <1>1, <1>4, <1>6, StepsType, TimesMonotone
  <2>3. /\ Steps * DELTA \in Nat
        /\ Steps * U[cur][anchor] \in Int /\ Steps * U[cur][offer] \in Int
    BY <1>1, <1>4, StepsType
  <2> QED BY <1>2, <2>1, <2>2, <2>3 DEF GoodEnough
<1>9. \A x \in Side : x = cur \/ x = Sender
  BY <1>1 DEF Side
<1> QED BY <1>6, <1>7, <1>8, <1>9

-----------------------------------------------------------------------------
(* Every step preserves it *)

\* An offer within the cap keeps the turns, and is the sender's best one.
LEMMA MakeOfferKeeps ==
    ASSUME IInv, MakeOffer(cur), UNCHANGED scenario, rounds < R_MAX
    PROVE  TakingTurns' /\ OfferIsBest'
<1>1. /\ cur \in Side /\ Sender \in Side /\ Sender # cur
      /\ offers["a"] \in Nat /\ offers["b"] \in Nat /\ rounds \in Nat
      /\ offers \in [Side -> Nat] /\ DOMAIN offers = Side
  BY Opponents DEF IInv, TypeOK, Sender, Side
<1>2. /\ offers' = [offers EXCEPT ![cur] = @ + 1]
      /\ rounds' = rounds + 1 /\ cur' = Sender
      /\ offer' \in Point
      /\ cur \notin free => BestOffer(cur, offers[cur] + 1, offer')
  BY DEF MakeOffer, Sender
<1>3. Sender' = cur
  BY <1>1, <1>2, Opponents DEF Sender
<1>4. offers'[cur] = offers[cur] + 1 /\ offers'[Sender] = offers[Sender]
  BY <1>1, <1>2
<1>5. offers'["a"] + offers'["b"] = rounds'
  <2>1. offers["a"] + offers["b"] = rounds
    BY DEF IInv, TakingTurns
  <2> QED BY <1>1, <1>2, <2>1 DEF Side
<1>6. offers'[Sender'] - offers'[cur'] \in {0, 1}
  <2>1. CASE rounds = 0
    BY <1>1, <1>2, <1>3, <1>4, <2>1 DEF IInv, TakingTurns, Side
  <2>2. CASE rounds > 0
    BY <1>1, <1>2, <1>3, <1>4, <2>2 DEF IInv, TakingTurns, Side
  <2> QED BY <1>1, <2>1, <2>2
<1>7. TakingTurns'
  BY <1>1, <1>2, <1>5, <1>6 DEF TakingTurns
<1>8. OfferIsBest'
  <2>1. /\ U' = U /\ uMax' = uMax /\ uMin' = uMin /\ free' = free
    BY DEF scenario
  <2>2. offers'[cur] = offers[cur] + 1
    BY <1>4
  <2> HIDE DEF Sender
  <2> QED BY <1>2, <1>3, <2>1, <2>2
          DEF OfferIsBest, BestOffer, Candidates, Wanted, Target, Step, Steps, Opponent
<1> QED BY <1>7, <1>8

\* A step that makes no offer keeps the offer, the turns and the scenario.
LEMMA NoOfferKeeps ==
    ASSUME IInv, UNCHANGED <<scenario, offers, rounds, offer, cur>>
    PROVE  TakingTurns' /\ OfferIsBest' /\ WarmStart' /\ Anchored'
<1>1. TakingTurns' /\ WarmStart'
  BY DEF IInv, TakingTurns, WarmStart, Sender, Opponent, scenario
<1>2. OfferIsBest'
  BY DEF IInv, OfferIsBest, BestOffer, Candidates, Wanted, Target, Step, Steps,
         Sender, Opponent, scenario
<1>3. Anchored'
  BY SameSchedule DEF IInv
<1> QED BY <1>1, <1>2, <1>3

\* Noting the offer on the table keeps what is noted one of its sender's best.
LEMMA NotedKeeps ==
    ASSUME IInv, Receiving, Noted, UNCHANGED scenario,
           offers' \in [Side -> Nat], \A x \in Side : offers[x] <= offers'[x]
    PROVE  NotedIsBest'
<1> SUFFICES ASSUME NEW x \in Side, x \notin free, lastRecv'[x] # NoPoint
             PROVE  \E k \in 1..offers'[x] : <<x, k, lastRecv'[x]>> \in BestOffers
  BY SameSchedule DEF NotedIsBest, scenario
<1>1. /\ offers \in [Side -> Nat] /\ offers[x] \in Nat /\ offers'[x] \in Nat
      /\ offers[x] <= offers'[x] /\ Sender \in Side /\ cur \in Side /\ Sender # cur
      /\ lastRecv \in [Side -> Point \cup {NoPoint}] /\ rounds \in Nat
  BY Opponents DEF IInv, TypeOK, Sender
<1>2. CASE x = Sender
  <2>1. offers[x] >= 1
    BY <1>1, <1>2 DEF IInv, TakingTurns, Receiving, Side
  <2>2. <<x, offers[x], offer>> \in BestOffers
    BY <1>1, <1>2 DEF IInv, OfferIsBest, TakingTurns, Receiving, BestOffers
  <2>3. lastRecv'[x] = offer
    BY <1>1, <1>2 DEF Noted
  <2> QED BY <1>1, <2>1, <2>2, <2>3
<1>3. CASE x # Sender
  <2>1. lastRecv'[x] = lastRecv[x]
    BY <1>1, <1>3 DEF Noted
  <2>2. PICK k \in 1..offers[x] : <<x, k, lastRecv[x]>> \in BestOffers
    BY <2>1 DEF IInv, NotedIsBest
  <2>3. k \in 1..offers'[x]
    BY <1>1
  <2> QED BY <2>1, <2>2, <2>3
<1> QED BY <1>2, <1>3

\* What is noted stays so while nothing is noted and offers are only added.
LEMMA UnnotedKeeps ==
    ASSUME IInv, UNCHANGED <<scenario, lastRecv>>,
           offers' \in [Side -> Nat], \A x \in Side : offers[x] <= offers'[x]
    PROVE  NotedIsBest'
<1> SUFFICES ASSUME NEW x \in Side, x \notin free, lastRecv[x] # NoPoint
             PROVE  \E k \in 1..offers'[x] : <<x, k, lastRecv[x]>> \in BestOffers
  BY SameSchedule DEF NotedIsBest, scenario
<1>1. PICK k \in 1..offers[x] : <<x, k, lastRecv[x]>> \in BestOffers
  BY DEF IInv, NotedIsBest
<1>2. offers[x] \in Nat /\ offers'[x] \in Nat /\ offers[x] <= offers'[x]
  BY DEF IInv, TypeOK
<1>3. k \in 1..offers'[x]
  BY <1>2
<1> QED BY <1>1, <1>3

\* An offer made is counted.
LEMMA OffersCounted ==
    ASSUME IInv, MakeOffer(cur)
    PROVE  offers' \in [Side -> Nat] /\ \A x \in Side : offers[x] <= offers'[x]
<1>1. offers \in [Side -> Nat] /\ offers' = [offers EXCEPT ![cur] = @ + 1] /\ cur \in Side
  BY DEF IInv, TypeOK, MakeOffer
<1>2. \A x \in Side : offers'[x] = IF x = cur THEN offers[x] + 1 ELSE offers[x]
  BY <1>1
<1>3. \A x \in Side : offers[x] \in Nat
  BY <1>1
<1> QED BY <1>1, <1>2, <1>3

\* The invariant is inductive, one case per action.
LEMMA IInvNext == IInv /\ [Next]_vars => IInv'
<1> SUFFICES ASSUME IInv, [Next]_vars PROVE IInv'
  OBVIOUS
<1>1. TypeOK' /\ UNCHANGED scenario
  BY TypeNext, ScenarioFixed DEF IInv
<1>2. Anchored'
  BY <1>1, SameSchedule DEF IInv
<1>3. /\ offers \in [Side -> Nat] /\ rounds \in Nat /\ cur \in Side
      /\ \A x \in Side : offers[x] <= offers[x]
  BY DEF IInv, TypeOK
<1>4. CASE Propose
  <2>1. TakingTurns' /\ OfferIsBest'
    BY <1>1, <1>4, MakeOfferKeeps DEF Propose
  <2>2. NotedIsBest'
    BY <1>1, <1>4, OffersCounted, UnnotedKeeps DEF Propose
  <2>3. EndsWell'
    BY <1>4 DEF IInv, EndsWell, Propose
  <2>4. WarmStart'
    BY <1>4 DEF Propose, MakeOffer, WarmStart
  <2> QED BY <1>1, <1>2, <2>1, <2>2, <2>3, <2>4 DEF IInv
<1>5. CASE SettleViolation
  <2>1. TakingTurns' /\ OfferIsBest' /\ WarmStart'
    BY <1>5, NoOfferKeeps DEF SettleViolation, Conclude
  <2>2. NotedIsBest'
    BY <1>3, <1>5, UnnotedKeeps DEF SettleViolation, Conclude
  <2>3. EndsWell'
    <3>1. Sender \in free
      BY <1>5, ConcedersDoNotWalkBack DEF SettleViolation
    <3> QED BY <1>5, <3>1 DEF EndsWell, SettleViolation, Conclude, Sender, scenario
  <2> QED BY <1>1, <1>2, <2>1, <2>2, <2>3 DEF IInv
<1>6. CASE Accept
  <2>1. TakingTurns' /\ OfferIsBest' /\ WarmStart'
    BY <1>6, NoOfferKeeps DEF Accept, Conclude
  <2>2. NotedIsBest'
    BY <1>3, <1>6, NotedKeeps DEF Accept, Conclude
  <2>3. EndsWell'
    BY <1>6 DEF EndsWell, Accept, Conclude, Receiving
  <2> QED BY <1>1, <1>2, <2>1, <2>2, <2>3 DEF IInv
<1>7. CASE SettleCap
  <2>1. TakingTurns' /\ OfferIsBest' /\ WarmStart'
    BY <1>7, NoOfferKeeps DEF SettleCap, Conclude
  <2>2. NotedIsBest'
    BY <1>3, <1>7, NotedKeeps DEF SettleCap, Conclude
  <2>3. EndsWell'
    <3>1. cur \in free
      BY <1>7, CapIsGoodEnough DEF SettleCap
    <3> QED BY <1>7, <3>1 DEF EndsWell, SettleCap, Conclude, scenario
  <2> QED BY <1>1, <1>2, <2>1, <2>2, <2>3 DEF IInv
<1>8. CASE Counter
  <2>1. TakingTurns' /\ OfferIsBest'
    BY <1>1, <1>8, MakeOfferKeeps DEF Counter
  <2>2. NotedIsBest'
    BY <1>1, <1>8, OffersCounted, NotedKeeps DEF Counter
  <2>3. EndsWell'
    BY <1>8 DEF IInv, EndsWell, Counter, Receiving
  <2>4. WarmStart'
    <3>1. ~(anchor # NoPoint /\ free = {})
      BY <1>3, <1>8, WarmOffer DEF Counter, Receiving
    <3> QED BY <1>1, <3>1 DEF WarmStart, scenario
  <2> QED BY <1>1, <1>2, <2>1, <2>2, <2>3, <2>4 DEF IInv
<1>9. CASE Timeout
  <2>1. TakingTurns' /\ OfferIsBest' /\ WarmStart'
    BY <1>9, NoOfferKeeps DEF Timeout
  <2>2. NotedIsBest'
    BY <1>3, <1>9, UnnotedKeeps DEF Timeout
  <2>3. EndsWell'
    BY <1>9 DEF IInv, EndsWell, Timeout, Receiving
  <2> QED BY <1>1, <1>2, <2>1, <2>2, <2>3 DEF IInv
<1>10. CASE UNCHANGED vars
  <2>1. TakingTurns' /\ OfferIsBest' /\ WarmStart'
    BY <1>10, NoOfferKeeps DEF vars, scenario
  <2>2. NotedIsBest'
    BY <1>3, <1>10, UnnotedKeeps DEF vars, scenario
  <2>3. EndsWell'
    BY <1>10 DEF IInv, EndsWell, vars, Sender
  <2> QED BY <1>1, <1>2, <2>1, <2>2, <2>3 DEF IInv
<1> QED BY <1>4, <1>5, <1>6, <1>7, <1>8, <1>9, <1>10 DEF Next

\* The inductive invariant holds in every reachable state.
THEOREM Inductive == Spec => []IInv
  BY IInvInit, IInvNext, PTL DEF Spec

-----------------------------------------------------------------------------
(* What follows for the negotiation *)

\* An imposed settlement has a side that does not keep to its schedule to blame.
LEMMA AgreedByAcceptance ==
    ASSUME IInv, free = {}, agreed # NoPoint
    PROVE  rounds > 0 /\ agreed = offer
  BY DEF IInv, TypeOK, Outcomes, EndsWell

\* A warm start never costs a side anything.
LEMMA WarmIsNoWorse == IInv => WarmStartNoWorse
  BY AgreedByAcceptance, WarmOffer DEF WarmStartNoWorse

\* A best offer is efficient: a point better for both would have been offered.
LEMMA BestIsEfficient == IInv => AgreementIsEfficient
<1> SUFFICES ASSUME IInv, free = {}, agreed # NoPoint,
                    NEW p \in Point, \A x \in Side : U[x][p] > U[x][agreed]
             PROVE  FALSE
  BY DEF AgreementIsEfficient
<1>1. rounds > 0 /\ agreed = offer
  BY AgreedByAcceptance
<1>2. /\ Sender \in Side /\ Opponent(Sender) \in Side
      /\ offers[Sender] \in Nat /\ offer \in Point
  BY <1>1, Opponents DEF IInv, TypeOK, TakingTurns, Sender
<1>3. offers[Sender] >= 1
  BY <1>1, Opponents DEF IInv, TypeOK, TakingTurns, Sender, Side
<1>4. BestOffer(Sender, offers[Sender], offer)
  BY <1>1 DEF IInv, OfferIsBest
<1>5. \A x \in Side, q \in Point : U[x][q] \in Nat
  BY DEF IInv, TypeOK
<1>6. Candidates(Sender, offers[Sender]) = Wanted(Sender, offers[Sender])
  BY <1>2, <1>3, SomethingWanted DEF IInv
<1>7. Steps * U[Sender][offer] >= Target(Sender, offers[Sender])
  BY <1>4, <1>6 DEF BestOffer, Wanted
<1>8. Steps * U[Sender][offer] <= Steps * U[Sender][p]
  <2>1. U[Sender][offer] <= U[Sender][p]
    BY <1>1, <1>2, <1>5
  <2> QED BY <1>2, <1>5, <2>1, StepsType, TimesMonotone
<1>9. /\ Steps * U[Sender][offer] \in Int /\ Steps * U[Sender][p] \in Int
      /\ Target(Sender, offers[Sender]) \in Int
  BY <1>2, <1>5, StepsType, TargetType DEF IInv
<1>10. p \in Candidates(Sender, offers[Sender])
  BY <1>6, <1>7, <1>8, <1>9 DEF Wanted
<1> QED BY <1>1, <1>2, <1>4, <1>5, <1>10 DEF BestOffer

\* The theorems, for every set of points, every pair of utility tables, every
\* cap, step and tolerance, and either side straying from its schedule or not.

\* A conforming sender is never settled against for walking back.
THEOREM ConformingNeverBlamed == Spec => []NeverWalksBack
<1>1. IInv => NeverWalksBack
  BY DEF IInv, EndsWell, NeverWalksBack
<1> QED BY <1>1, Inductive, PTL

\* A conforming receiver accepts before the cap is imposed on it.
THEOREM CapNeverImposed == Spec => []CapUnreached
<1>1. IInv => CapUnreached
  BY DEF IInv, EndsWell, TakingTurns, CapUnreached
<1> QED BY <1>1, Inductive, PTL

\* A warm start takes one round.
THEOREM OneRoundWhenWarm == Spec => []WarmStartOneRound
<1>1. IInv => WarmStartOneRound
  BY DEF IInv, WarmStart, WarmStartOneRound
<1> QED BY <1>1, Inductive, PTL

\* A warm start gives neither side less than it remembers.
THEOREM NoWorseWhenWarm == Spec => []WarmStartNoWorse
  BY Inductive, WarmIsNoWorse, PTL

\* No agreement leaves a point better for both on the table.
THEOREM Efficiency == Spec => []AgreementIsEfficient
  BY Inductive, BestIsEfficient, PTL

-----------------------------------------------------------------------------
(* A side that keeps to its schedule gets what it still wanted *)

\* Whoever accepts because it must, accepts what is good enough for it.
AcceptedIsGood == outcome = "acceptance" /\ cur \notin free => GoodEnough

\* Accepted by either side, a point is worth to a side that keeps to its schedule
\* what its next offer would have asked for, up to the tolerance, however the other
\* side strays.
ConformingGetsItsDue ==
    outcome = "acceptance" =>
        \A x \in Side \ free :
            Steps * U[x][agreed] >= Target(x, offers[x] + 1) - Steps * DELTA

\* Nothing but an acceptance concerns what was accepted.
LEMMA AcceptedNext == AcceptedIsGood /\ [Next]_vars => AcceptedIsGood'
<1> SUFFICES ASSUME AcceptedIsGood, [Next]_vars, outcome' = "acceptance", cur' \notin free'
             PROVE  GoodEnough'
  BY DEF AcceptedIsGood
<1>1. ASSUME UNCHANGED <<scenario, offers, rounds, offer, cur>>, GoodEnough
      PROVE  GoodEnough'
  BY <1>1 DEF GoodEnough, scenario, Target, Step, Steps
<1>2. CASE Accept
  BY <1>1, <1>2 DEF Accept, Conclude, scenario
<1>3. CASE UNCHANGED vars
  BY <1>1, <1>3 DEF vars, scenario, AcceptedIsGood
<1>4. CASE Propose \/ SettleViolation \/ SettleCap \/ Counter \/ Timeout
  BY <1>4 DEF Propose, SettleViolation, SettleCap, Counter, Timeout, Conclude, Receiving
<1> QED BY <1>2, <1>3, <1>4 DEF Next

\* The receiver accepted what is good enough; the sender asked for no less.
LEMMA BothGetTheirDue == IInv /\ AcceptedIsGood => ConformingGetsItsDue
<1> SUFFICES ASSUME IInv, AcceptedIsGood, outcome = "acceptance", NEW x \in Side \ free
             PROVE  Steps * U[x][agreed] >= Target(x, offers[x] + 1) - Steps * DELTA
  BY DEF ConformingGetsItsDue
<1>1. /\ rounds > 0 /\ agreed = offer /\ offer \in Point
      /\ cur \in Side /\ Sender \in Side /\ Sender # cur
      /\ offers[Sender] \in Nat /\ offers[cur] \in Nat
  BY Opponents DEF IInv, TypeOK, EndsWell, TakingTurns, Sender
<1>2. CASE x = cur
  BY <1>1, <1>2 DEF AcceptedIsGood, GoodEnough
<1>3. CASE x = Sender
  <2>1. offers[x] >= 1
    BY <1>1, <1>3 DEF IInv, TypeOK, TakingTurns, Side
  <2>2. BestOffer(x, offers[x], offer)
    BY <1>1, <1>3 DEF IInv, OfferIsBest
  <2>3. Candidates(x, offers[x]) = Wanted(x, offers[x])
    BY <1>1, <1>3, <2>1, SomethingWanted DEF IInv
  <2>4. Steps * U[x][offer] >= Target(x, offers[x])
    BY <2>2, <2>3 DEF BestOffer, Wanted
  <2>5. Target(x, offers[x] + 1) <= Target(x, offers[x])
    BY <1>1, <1>3, TargetFalls DEF IInv
  <2>6. Target(x, offers[x] + 1) \in Int /\ Target(x, offers[x]) \in Int
    BY <1>1, <1>3, TargetType DEF IInv
  <2>7. Steps * DELTA \in Nat /\ Steps * U[x][offer] \in Int
    BY <1>1, StepsType DEF IInv, TypeOK
  <2> HIDE DEF Steps
  <2> QED BY <1>1, <2>4, <2>5, <2>6, <2>7
<1> QED BY <1>1, <1>2, <1>3 DEF Side

\* Straying gains a side nothing at the cost of one that keeps to the schedule.
THEOREM NoSideIsShortchanged == Spec => []ConformingGetsItsDue
<1>1. Init => AcceptedIsGood
  BY DEF Init, AcceptedIsGood
<1> QED BY <1>1, AcceptedNext, BothGetTheirDue, Inductive, PTL DEF Spec

-----------------------------------------------------------------------------
(* The loop runs out of offers *)

\* The steps a negotiation has left at most.
Left == IF outcome = "open" THEN R_MAX + 1 - rounds ELSE 0

\* An offer uses up a round, and everything else ends the loop.
LEMMA LeftFalls == IInv /\ [Next]_vars => Left \in Nat /\ (Left' < Left \/ UNCHANGED vars)
<1> SUFFICES ASSUME IInv, [Next]_vars PROVE Left \in Nat /\ (Left' < Left \/ UNCHANGED vars)
  OBVIOUS
<1>1. /\ rounds \in Nat /\ rounds <= R_MAX /\ R_MAX \in Nat
      /\ outcome = "open" => Left > 0
  BY DEF IInv, TypeOK, TakingTurns, Left
<1>2. CASE Propose
  BY <1>1, <1>2 DEF Propose, MakeOffer, Left
<1>3. CASE Counter
  BY <1>1, <1>3 DEF Counter, Receiving, MakeOffer, Left
<1>4. CASE SettleViolation \/ Accept \/ SettleCap \/ Timeout
  BY <1>1, <1>4 DEF SettleViolation, Accept, SettleCap, Timeout, Receiving, Conclude, Left
<1> QED BY <1>1, <1>2, <1>3, <1>4 DEF Next, Left

\* Every step of a negotiation takes it nearer its end, and it starts at most
\* R_MAX + 1 steps away: whatever the sides do, nobody bargains forever.
THEOREM OffersRunOut == Spec => [](Left \in 0..(R_MAX + 1)) /\ [][Left' < Left]_vars
<1>1. IInv => Left \in 0..(R_MAX + 1)
  BY DEF IInv, TypeOK, TakingTurns, Left
<1> QED BY <1>1, LeftFalls, Inductive, PTL DEF Spec
=============================================================================
