-------------------------- MODULE FeasibleProofs --------------------------
(* What the feasible region keeps: every grid point is a point of the       *)
(* region, a point both sides accept is one of the unrelaxed region, and    *)
(* the grid then holds one that physics allows too.  What relaxation may    *)
(* drop, it drops in order and no more of than it takes.                    *)
EXTENDS Feasible, WellFoundedInduction, FiniteSetTheorems, TLAPS

-----------------------------------------------------------------------------
(* Least and greatest elements *)

LEMMA LeastExists ==
    ASSUME NEW S, S \subseteq Nat, S # {}
    PROVE  /\ Least(S) \in S
           /\ \A y \in S : Least(S) <= y
<1>1. \E x \in S : \A y \in S : ~(<<y, x>> \in OpToRel(<, Nat))
  BY NatLessThanWellFounded, WFMin
<1>2. \E x \in S : \A y \in S : x <= y
  <2>1. PICK x \in S : \A y \in S : ~(<<y, x>> \in OpToRel(<, Nat))
    BY <1>1
  <2>2. \A y \in S : ~(y < x)
    BY <2>1 DEF OpToRel
  <2> QED BY <2>2
<1> QED BY <1>2 DEF Least

LEMMA GreatestExists ==
    ASSUME NEW S, NEW lo \in Nat, NEW hi \in Nat, S \subseteq lo..hi, S # {}
    PROVE  /\ Greatest(S) \in S
           /\ \A y \in S : y <= Greatest(S)
<1> DEFINE T == {hi - x : x \in S}
<1>1. T \subseteq Nat /\ T # {}
  <2>1. PICK x \in S : TRUE
    OBVIOUS
  <2>2. hi - x \in T
    BY <2>1
  <2>3. ASSUME NEW y \in S PROVE hi - y \in Nat
    BY SMT
  <2> QED BY <2>2, <2>3
<1> HIDE DEF T
<1>2. Least(T) \in T /\ \A y \in T : Least(T) <= y
  BY <1>1, LeastExists
<1>3. PICK x \in S : Least(T) = hi - x
  BY <1>2 DEF T
<1>4. \A y \in S : hi - x <= hi - y
  BY <1>2, <1>3 DEF T
<1>5. \E z \in S : \A y \in S : z >= y
  BY <1>4
<1> QED BY <1>5 DEF Greatest

-----------------------------------------------------------------------------
(* Boxes *)

ConstraintList(s) == /\ s \in Seq({s[i] : i \in DOMAIN s})
                     /\ \A i \in DOMAIN s : IsConstraint(s[i])

\* The region of both lists is the intersection of the region of each.
LEMMA BoxOfBoth ==
    ASSUME NEW h, NEW g, ConstraintList(h), ConstraintList(g), NEW d \in Dim
    PROVE  Box(h \o g, DOMAIN (h \o g))[d] = Box(h, DOMAIN h)[d] \cap Box(g, DOMAIN g)[d]
<1> DEFINE X == {h[i] : i \in DOMAIN h} \cup {g[i] : i \in DOMAIN g}
<1>1. h \in Seq(X) /\ g \in Seq(X)
  <2>1. h \in Seq({h[i] : i \in DOMAIN h}) /\ g \in Seq({g[i] : i \in DOMAIN g})
    BY DEF ConstraintList
  <2> QED BY <2>1
<1> HIDE DEF X
<1>2. /\ DOMAIN (h \o g) = 1..(Len(h) + Len(g))
      /\ DOMAIN h = 1..Len(h) /\ DOMAIN g = 1..Len(g)
      /\ Len(h) \in Nat /\ Len(g) \in Nat
      /\ \A i \in DOMAIN h : (h \o g)[i] = h[i]
      /\ \A i \in DOMAIN g : (h \o g)[Len(h) + i] = g[i]
  BY <1>1
<1>3. ASSUME NEW v, NEW i \in DOMAIN (h \o g)
      PROVE  \/ i \in DOMAIN h /\ (h \o g)[i] = h[i]
             \/ \E j \in DOMAIN g : (h \o g)[i] = g[j]
  <2>1. CASE i <= Len(h)
    BY <1>2, <2>1
  <2>2. CASE ~(i <= Len(h))
    <3>1. i - Len(h) \in DOMAIN g /\ i = Len(h) + (i - Len(h))
      BY <1>2, <2>2
    <3> QED BY <3>1, <1>2
  <2> QED BY <2>1, <2>2
<1>4. \A i \in DOMAIN h : i \in DOMAIN (h \o g)
  BY <1>2
<1>5. \A i \in DOMAIN g : Len(h) + i \in DOMAIN (h \o g)
  BY <1>2
<1>6. ASSUME NEW v
      PROVE  (\A i \in DOMAIN (h \o g) : (h \o g)[i].dim = d => Admits((h \o g)[i], v))
             <=> /\ \A i \in DOMAIN h : h[i].dim = d => Admits(h[i], v)
                 /\ \A i \in DOMAIN g : g[i].dim = d => Admits(g[i], v)
  BY <1>2, <1>3, <1>4, <1>5
<1> QED BY <1>6 DEF Box

LEMMA BoxInDomain ==
    ASSUME NEW cs, NEW active, NEW d \in Dim
    PROVE  Box(cs, active)[d] \subseteq Domain[d]
BY DEF Box

\* What constraints leave of a numeric dimension has no holes.
LEMMA BoxIsConvex ==
    ASSUME NEW cs, ConstraintList(cs), NEW active, active \subseteq DOMAIN cs,
           NEW d \in Numeric, NEW x \in Box(cs, active)[d], NEW y \in Box(cs, active)[d],
           NEW v \in Int, x <= v, v <= y
    PROVE  v \in Box(cs, active)[d]
<1>1. d \in Dim
  BY DEF Dim, Numeric
<1>2. PICK lo \in Domain[d], hi \in Domain[d] : Domain[d] = lo..hi
  BY FeasibleAssumption
<1>3. Domain[d] \subseteq Nat
  BY FeasibleAssumption
<1>4. x \in Domain[d] /\ y \in Domain[d]
  BY <1>1, BoxInDomain
<1>5. v \in Domain[d]
  BY <1>2, <1>3, <1>4
<1>6. ASSUME NEW i \in active, cs[i].dim = d
      PROVE  Admits(cs[i], v)
  <2> DEFINE c == cs[i]
  <2>1. IsConstraint(c) /\ c.dim = d
    BY <1>6 DEF ConstraintList
  <2>2. Admits(c, x) /\ Admits(c, y)
    BY <1>1, <1>6 DEF Box
  <2> HIDE DEF c
  <2>3. /\ c.op = "le" => v <= c.value
        /\ c.op = "ge" => v >= c.value
        /\ c.op = "range" => v >= c.value[1] /\ v <= c.value[2]
    <3>1. x \in Int /\ y \in Int
      BY <1>3, <1>4
    <3>2. CASE c.op = "le"
      BY <2>1, <2>2, <3>1, <3>2 DEF Admits, IsConstraint
    <3>3. CASE c.op = "ge"
      BY <2>1, <2>2, <3>1, <3>3 DEF Admits, IsConstraint
    <3>4. CASE c.op = "range"
      <4>1. c.value[1] \in Int /\ c.value[2] \in Int
        BY <2>1, <3>4 DEF IsConstraint
      <4>2. x >= c.value[1] /\ y <= c.value[2]
        BY <2>1, <2>2, <3>4 DEF Admits
      <4>3. v >= c.value[1] /\ v <= c.value[2]
        BY <4>1, <4>2, <3>1
      <4> QED BY <4>3, <3>4
    <3> QED BY <3>2, <3>3, <3>4
  <2>4. Admits(c, v)
    BY <2>1, <2>3 DEF Admits
  <2> QED BY <2>4 DEF c
<1> QED BY <1>1, <1>5, <1>6 DEF Box

-----------------------------------------------------------------------------
(* Axes: division, then the points of the grid *)

LEMMA Monotone ==
    ASSUME NEW m \in Nat, NEW i \in Nat, NEW k \in Nat, i <= k
    PROVE  m * i <= m * k /\ m * i \in Nat
OBVIOUS

LEMMA Quotient ==
    ASSUME NEW n \in Nat, NEW k \in Nat \ {0}
    PROVE  n \div k \in Nat /\ k * (n \div k) <= n
OBVIOUS

LEMMA QuotientExact ==
    ASSUME NEW m \in Nat, NEW k \in Nat \ {0}
    PROVE  (m * k) \div k = m
OBVIOUS

LEMMA QuotientBound ==
    ASSUME NEW m \in Nat, NEW i \in Nat, NEW k \in Nat \ {0}, i <= k
    PROVE  (m * i) \div k \in 0..m
<1> DEFINE q == (m * i) \div k
<1>1. m * i <= m * k /\ m * i \in Nat
  BY Monotone
<1>2. q \in Nat /\ k * q <= m * i
  BY <1>1, Quotient
<1>3. k * q <= k * m
  BY <1>1, <1>2
<1> HIDE DEF q
<1>4. q <= m
  <2>1. SUFFICES ASSUME q >= m + 1 PROVE FALSE
    BY <1>2
  <2>2. k * (m + 1) <= k * q
    BY <1>2, <2>1, Monotone
  <2> QED BY <1>2, <1>3, <2>2
<1> QED BY <1>2, <1>4 DEF q

LEMMA ContinuousIsNumeric == Continuous \subseteq Numeric /\ Numeric \subseteq Dim
BY DEF Continuous, Numeric, Dim

\* A continuous dimension's values have a least and a greatest, and its axis
\* runs from one to the other without leaving them.
LEMMA AxisOfBox ==
    ASSUME NEW cs, ConstraintList(cs), NEW active, active \subseteq DOMAIN cs,
           NEW d \in Continuous, Box(cs, active)[d] # {}
    PROVE  LET S == Box(cs, active)[d]
           IN  /\ S \subseteq Nat
               /\ Least(S) \in S /\ \A v \in S : Least(S) <= v
               /\ Greatest(S) \in S /\ \A v \in S : v <= Greatest(S)
               /\ Axis(d, S) \subseteq S
               /\ Least(S) \in Axis(d, S) /\ Greatest(S) \in Axis(d, S)
<1> DEFINE S == Box(cs, active)[d]
           L == Least(S)
           G == Greatest(S)
           K == GRID_K - 1
<1>1. d \in Numeric /\ d \in Dim
  BY ContinuousIsNumeric
<1>2. PICK lo \in Domain[d], hi \in Domain[d] : Domain[d] = lo..hi
  BY <1>1, FeasibleAssumption
<1>3. Domain[d] \subseteq Nat
  BY <1>1, FeasibleAssumption
<1>4. S \subseteq Domain[d]
  BY <1>1, BoxInDomain
<1>5. S \subseteq Nat /\ S \subseteq lo..hi /\ S # {}
  BY <1>2, <1>3, <1>4
<1>6. \A x, y \in S : \A v \in Int : x <= v /\ v <= y => v \in S
  BY <1>1, BoxIsConvex
<1> HIDE DEF S
<1>7. L \in S /\ \A v \in S : L <= v
  BY <1>5, LeastExists
<1>8. G \in S /\ \A v \in S : v <= G
  BY <1>2, <1>3, <1>5, GreatestExists
<1> HIDE DEF L, G
<1>9. K \in Nat \ {0} /\ L \in Nat /\ G \in Nat /\ G - L \in Nat
  BY <1>5, <1>7, <1>8, FeasibleAssumption
<1>10. Axis(d, S) = {L + ((G - L) * i) \div K : i \in 0..K}
  BY DEF Axis, L, G
<1> HIDE DEF K
<1>11. ASSUME NEW i \in 0..K PROVE L + ((G - L) * i) \div K \in S
  <2>1. ((G - L) * i) \div K \in 0..(G - L)
    BY <1>9, QuotientBound
  <2> DEFINE e == ((G - L) * i) \div K
  <2> HIDE DEF e
  <2>2. e \in 0..(G - L)
    BY <2>1 DEF e
  <2>3. L + e \in Int /\ L <= L + e /\ L + e <= G
    BY <1>9, <2>2
  <2>4. L + e \in S
    BY <1>6, <1>7, <1>8, <2>3
  <2> QED BY <2>4 DEF e
<1>12. L \in Axis(d, S)
  <2>1. ((G - L) * 0) \div K = 0
    BY <1>9
  <2>2. L = L + ((G - L) * 0) \div K /\ 0 \in 0..K
    BY <1>9, <2>1
  <2> QED BY <1>10, <2>2
<1>13. G \in Axis(d, S)
  <2>1. ((G - L) * K) \div K = G - L
    BY <1>9, QuotientExact
  <2>2. G = L + ((G - L) * K) \div K /\ K \in 0..K
    BY <1>9, <2>1
  <2> QED BY <1>10, <2>2
<1> QED BY <1>5, <1>7, <1>8, <1>10, <1>11, <1>12, <1>13 DEF S, L, G

LEMMA AxisInBox ==
    ASSUME NEW cs, ConstraintList(cs), NEW active, active \subseteq DOMAIN cs,
           NEW d \in Dim, Box(cs, active)[d] # {}
    PROVE  Axis(d, Box(cs, active)[d]) \subseteq Box(cs, active)[d]
<1>1. CASE d \in Continuous
  BY <1>1, AxisOfBox
<1>2. CASE d \notin Continuous
  BY <1>2 DEF Axis
<1> QED BY <1>1, <1>2

LEMMA InPoints ==
    ASSUME NEW b, NEW p
    PROVE  p \in PointsIn(b) => \A d \in Dim : p[d] \in b[d]
BY DEF PointsIn, Dim

LEMMA PointsMonotone ==
    ASSUME NEW b, NEW c, \A d \in Dim : b[d] \subseteq c[d]
    PROVE  PointsIn(b) \subseteq PointsIn(c)
<1>1. /\ b["inspection_depth"] \subseteq c["inspection_depth"]
      /\ b["latency_ms"] \subseteq c["latency_ms"]
      /\ b["log_export"] \subseteq c["log_export"]
      /\ b["sample_rate"] \subseteq c["sample_rate"]
      /\ b["throughput_mbps"] \subseteq c["throughput_mbps"]
      /\ b["tls_version"] \subseteq c["tls_version"]
  BY DEF Dim
<1> QED BY <1>1 DEF PointsIn

-----------------------------------------------------------------------------
(* Relaxation *)

LEMMA DroppableFinite ==
    ASSUME NEW cs, ConstraintList(cs)
    PROVE  /\ IsFiniteSet(Droppable(cs))
           /\ Cardinality(Droppable(cs)) \in Nat
<1>1. DOMAIN cs = 1..Len(cs) /\ Len(cs) \in Nat
  BY DEF ConstraintList
<1>2. IsFiniteSet(DOMAIN cs)
  BY <1>1, FS_Interval
<1>3. Droppable(cs) \subseteq DOMAIN cs
  BY DEF Droppable
<1> QED BY <1>2, <1>3, FS_Subset, FS_CardinalityType

LEMMA NothingDropped ==
    ASSUME NEW cs, ConstraintList(cs)
    PROVE  Dropped(cs, 0) = {}
<1>1. ASSUME NEW i \in Dropped(cs, 0) PROVE FALSE
  <2> DEFINE E == {j \in Droppable(cs) : Before(cs, j, i)}
  <2>1. Cardinality(E) < 0
    BY <1>1 DEF Dropped
  <2>2. IsFiniteSet(E)
    BY DroppableFinite, FS_Subset
  <2>3. Cardinality(E) \in Nat
    BY <2>2, FS_CardinalityType
  <2> QED BY <2>1, <2>3
<1> QED BY <1>1

LEMMA BoxAfterIsBox ==
    ASSUME NEW cs, ConstraintList(cs)
    PROVE  /\ \A n : BoxAfter(cs, n) = Box(cs, DOMAIN cs \ Dropped(cs, n))
           /\ BoxAfter(cs, 0) = Box(cs, DOMAIN cs)
BY NothingDropped DEF BoxAfter

\* The box of the grid is not empty.
LEMMA FeasibleBoxHolds ==
    ASSUME NEW cs, ConstraintList(cs), HasBox(cs)
    PROVE  \A d \in Dim : FeasibleBox(cs)[d] # {}
<1>1. Enough(cs) \subseteq Nat /\ Enough(cs) # {}
  BY DroppableFinite DEF Enough, HasBox
<1>2. Least(Enough(cs)) \in Enough(cs)
  BY <1>1, LeastExists
<1> QED BY <1>2 DEF Enough, Empty, FeasibleBox

\* A value that meets every constraint: nothing is relaxed.
LEMMA NothingRelaxed ==
    ASSUME NEW cs, ConstraintList(cs), \A d \in Dim : Box(cs, DOMAIN cs)[d] # {}
    PROVE  /\ HasBox(cs) /\ ~Relaxed(cs)
           /\ FeasibleBox(cs) = Box(cs, DOMAIN cs)
<1>1. 0 \in Enough(cs)
  BY DroppableFinite, BoxAfterIsBox DEF Enough, Empty
<1>2. Enough(cs) \subseteq Nat
  BY DroppableFinite DEF Enough
<1>3. Least(Enough(cs)) \in Nat /\ Least(Enough(cs)) <= 0
  BY <1>1, <1>2, LeastExists
<1>4. Least(Enough(cs)) = 0
  BY <1>3
<1> QED BY <1>1, <1>4, BoxAfterIsBox DEF HasBox, Relaxed, FeasibleBox

-----------------------------------------------------------------------------
(* The grid *)

\* Whatever was relaxed, both sides search points of the registered domains
\* within the box.
THEOREM GridIsInBox ==
    ASSUME NEW cs, ConstraintList(cs), NEW p \in FeasiblePoints(cs)
    PROVE  /\ HasBox(cs) /\ CouplingOK(p)
           /\ \A d \in Dim : p[d] \in FeasibleBox(cs)[d]
           /\ p \in Point
<1> DEFINE b == FeasibleBox(cs)
           axes == [d \in Dim |-> Axis(d, b[d])]
<1>1. HasBox(cs) /\ p \in PointsIn(axes) /\ CouplingOK(p)
  BY DEF FeasiblePoints
<1>2. PICK n : b = Box(cs, DOMAIN cs \ Dropped(cs, n))
  BY BoxAfterIsBox DEF FeasibleBox
<1>3. \A d \in Dim : axes[d] \subseteq b[d]
  BY <1>1, <1>2, FeasibleBoxHolds, AxisInBox
<1>4. \A d \in Dim : b[d] \subseteq Domain[d]
  BY <1>2, BoxInDomain
<1> HIDE DEF axes, b
<1>5. \A d \in Dim : p[d] \in b[d]
  BY <1>1, <1>3, InPoints
<1>6. p \in PointsIn(Domain)
  BY <1>1, <1>3, <1>4, PointsMonotone
<1> QED BY <1>1, <1>5, <1>6 DEF Point, b

\* Less inspected costs no more.
LEMMA LoadMonotone ==
    ASSUME NEW p \in Point, NEW q \in Point,
           p.inspection_depth = q.inspection_depth, q.sample_rate <= p.sample_rate
    PROVE  /\ Load(p) \in Nat /\ Load(q) \in Nat
           /\ Load(q) <= Load(p)
           /\ THROUGHPUT_COST * Load(q) <= THROUGHPUT_COST * Load(p)
           /\ THROUGHPUT_COST * Load(q) \in Nat
           /\ THROUGHPUT_COST * Load(p) \in Nat
<1>1. /\ Domain["sample_rate"] \subseteq Nat
      /\ INSPECTION_COST \in [Domain["inspection_depth"] -> Nat]
      /\ THROUGHPUT_COST \in Nat
  BY FeasibleAssumption DEF Numeric
<1>2. /\ p.sample_rate \in Nat /\ q.sample_rate \in Nat
      /\ p.inspection_depth \in Domain["inspection_depth"]
  BY <1>1 DEF Point, PointsIn
<1> DEFINE c == INSPECTION_COST[p.inspection_depth]
<1>3. c \in Nat
  BY <1>1, <1>2
<1> HIDE DEF c
<1>4. c * q.sample_rate <= c * p.sample_rate /\ c * q.sample_rate \in Nat
  BY <1>2, <1>3, Monotone
<1>5. c * p.sample_rate \in Nat
  BY <1>2, <1>3, Monotone
<1>6. Load(p) = c * p.sample_rate /\ Load(q) = c * q.sample_rate
  BY DEF Load, c
<1>7. Load(p) \in Nat /\ Load(q) \in Nat /\ Load(q) <= Load(p)
  BY <1>4, <1>5, <1>6
<1>8. /\ THROUGHPUT_COST * Load(q) <= THROUGHPUT_COST * Load(p)
      /\ THROUGHPUT_COST * Load(q) \in Nat
  BY <1>1, <1>7, Monotone
<1>9. THROUGHPUT_COST * Load(p) \in Nat
  BY <1>1, <1>7, Monotone
<1> QED BY <1>7, <1>8, <1>9

\* The corner of the box that costs least is on the grid: where any value meets
\* the constraints and physics, a grid point does.
THEOREM GridMissesNothing ==
    ASSUME NEW cs, ConstraintList(cs), NEW p \in Point, CouplingOK(p),
           \A d \in Dim : p[d] \in Box(cs, DOMAIN cs)[d]
    PROVE  FeasiblePoints(cs) # {}
<1> DEFINE b    == Box(cs, DOMAIN cs)
           axes == [d \in Dim |-> Axis(d, b[d])]
           q    == [inspection_depth |-> p.inspection_depth,
                    latency_ms       |-> Greatest(b["latency_ms"]),
                    log_export       |-> p.log_export,
                    sample_rate      |-> Least(b["sample_rate"]),
                    throughput_mbps  |-> Least(b["throughput_mbps"]),
                    tls_version      |-> p.tls_version]
<1>1. HasBox(cs) /\ FeasibleBox(cs) = b
  BY NothingRelaxed
<1>2. \A d \in Dim : p[d] \in b[d] /\ b[d] # {}
  OBVIOUS
<1>3. \A d \in Continuous : /\ b[d] \subseteq Nat
                            /\ \A v \in b[d] : Least(b[d]) <= v /\ v <= Greatest(b[d])
                            /\ Least(b[d]) \in axes[d] /\ Greatest(b[d]) \in axes[d]
                            /\ Least(b[d]) \in b[d] /\ Greatest(b[d]) \in b[d]
  BY <1>2, AxisOfBox, ContinuousIsNumeric
<1>4. \A d \in Dim \ Continuous : axes[d] = b[d]
  BY DEF Axis
<1>5. /\ {"latency_ms", "sample_rate", "throughput_mbps"} \subseteq Continuous
      /\ {"inspection_depth", "log_export", "tls_version"} \subseteq Dim \ Continuous
      /\ Continuous \subseteq Dim
  BY DEF Continuous, Numeric, Dim
<1>6. \A d \in Dim : b[d] \subseteq Domain[d]
  BY BoxInDomain
<1> HIDE DEF b, axes
<1>7. /\ q.inspection_depth = p.inspection_depth
      /\ q.log_export = p.log_export /\ q.tls_version = p.tls_version
      /\ q.latency_ms = Greatest(b["latency_ms"])
      /\ q.sample_rate = Least(b["sample_rate"])
      /\ q.throughput_mbps = Least(b["throughput_mbps"])
      /\ q = [inspection_depth |-> p.inspection_depth, latency_ms |-> q.latency_ms,
              log_export |-> p.log_export, sample_rate |-> q.sample_rate,
              throughput_mbps |-> q.throughput_mbps, tls_version |-> p.tls_version]
  OBVIOUS
<1> HIDE DEF q
<1>8. /\ p.inspection_depth \in b["inspection_depth"] /\ p.log_export \in b["log_export"]
      /\ p.tls_version \in b["tls_version"] /\ p.latency_ms \in b["latency_ms"]
      /\ p.sample_rate \in b["sample_rate"] /\ p.throughput_mbps \in b["throughput_mbps"]
  BY <1>2 DEF Dim
<1>9. /\ p.inspection_depth \in axes["inspection_depth"]
      /\ p.log_export \in axes["log_export"] /\ p.tls_version \in axes["tls_version"]
  BY <1>4, <1>5, <1>8
<1>10. /\ q.latency_ms \in axes["latency_ms"] /\ q.latency_ms \in b["latency_ms"]
       /\ q.sample_rate \in axes["sample_rate"] /\ q.sample_rate \in b["sample_rate"]
       /\ q.throughput_mbps \in axes["throughput_mbps"]
       /\ q.throughput_mbps \in b["throughput_mbps"]
  BY <1>3, <1>5, <1>7
<1>11. q \in PointsIn(axes)
  BY <1>7, <1>9, <1>10 DEF PointsIn
<1>12. q \in Point
  BY <1>5, <1>6, <1>7, <1>8, <1>10 DEF PointsIn, Point
<1>13. /\ q.sample_rate <= p.sample_rate
       /\ p.latency_ms <= q.latency_ms
       /\ q.throughput_mbps <= p.throughput_mbps
  BY <1>3, <1>5, <1>7, <1>8
<1>14. /\ p.latency_ms \in Nat /\ q.latency_ms \in Nat
       /\ p.throughput_mbps \in Nat /\ q.throughput_mbps \in Nat
  BY <1>3, <1>5, <1>8, <1>10
<1>15. CouplingOK(q)
  <2>1. /\ Load(p) \in Nat /\ Load(q) \in Nat /\ Load(q) <= Load(p)
        /\ THROUGHPUT_COST * Load(q) <= THROUGHPUT_COST * Load(p)
        /\ THROUGHPUT_COST * Load(q) \in Nat /\ THROUGHPUT_COST * Load(p) \in Nat
    BY <1>7, <1>12, <1>13, LoadMonotone
  <2>2. BASE_LATENCY \in Int /\ THROUGHPUT_CEILING \in Int
    BY FeasibleAssumption
  <2>3. /\ p.latency_ms >= BASE_LATENCY + Load(p)
        /\ p.throughput_mbps <= THROUGHPUT_CEILING - THROUGHPUT_COST * Load(p)
    BY DEF CouplingOK
  <2>4. q.latency_ms >= BASE_LATENCY + Load(q)
    BY <1>13, <1>14, <2>1, <2>2, <2>3
  <2> DEFINE tp == THROUGHPUT_COST * Load(p)
             tq == THROUGHPUT_COST * Load(q)
  <2>5. tp \in Nat /\ tq \in Nat /\ tq <= tp /\ p.throughput_mbps <= THROUGHPUT_CEILING - tp
    BY <2>1, <2>3
  <2> HIDE DEF tp, tq
  <2>6. q.throughput_mbps <= THROUGHPUT_CEILING - tq
    BY <1>13, <1>14, <2>2, <2>5
  <2> QED BY <2>4, <2>6 DEF CouplingOK, tq
<1>16. q \in FeasiblePoints(cs)
  BY <1>1, <1>11, <1>15 DEF FeasiblePoints, axes
<1> QED BY <1>16

-----------------------------------------------------------------------------
(* What relaxation may touch *)

\* Whatever is relaxed, a point both sides search meets every constraint of the
\* classes in NEVER_RELAX (feasible_box; registry.py).
THEOREM SafetyIsNeverRelaxed ==
    ASSUME NEW cs, ConstraintList(cs), NEW p \in FeasiblePoints(cs),
           NEW i \in DOMAIN cs, cs[i].class \in NEVER_RELAX
    PROVE  Admits(cs[i], p[cs[i].dim])
<1>1. PICK n : FeasibleBox(cs) = Box(cs, DOMAIN cs \ Dropped(cs, n))
  BY BoxAfterIsBox DEF FeasibleBox
<1>2. cs[i].dim \in Dim
  BY DEF ConstraintList, IsConstraint
<1>3. p[cs[i].dim] \in FeasibleBox(cs)[cs[i].dim]
  BY <1>2, GridIsInBox
<1>4. i \in DOMAIN cs \ Dropped(cs, n)
  BY DEF Dropped, Droppable
<1> QED BY <1>1, <1>2, <1>3, <1>4 DEF Box

\* Before is a strict order.
LEMMA BeforeIsTransitive ==
    ASSUME NEW cs, ConstraintList(cs), NEW i \in DOMAIN cs, NEW j \in DOMAIN cs,
           NEW k \in DOMAIN cs, Before(cs, i, j), Before(cs, j, k)
    PROVE  Before(cs, i, k)
<1> DEFINE rank(x) == Position(ClassOrder, cs[x].class)
           name(x) == Position(DimOrder, cs[x].dim)
<1>1. \A x \in DOMAIN cs : rank(x) \in Int /\ name(x) \in Int /\ x \in Int
  <2>1. ASSUME NEW x \in DOMAIN cs PROVE rank(x) \in Int /\ name(x) \in Int /\ x \in Int
    <3>1. /\ cs[x].class \in {ClassOrder[n] : n \in DOMAIN ClassOrder}
          /\ cs[x].dim \in Dim /\ x \in Int
      BY DEF ConstraintList, IsConstraint
    <3>2. DOMAIN ClassOrder = 1..5 /\ DOMAIN DimOrder = 1..6
      BY DEF ClassOrder, DimOrder
    <3>3. \E n \in DOMAIN ClassOrder : ClassOrder[n] = cs[x].class
      BY <3>1
    <3>4. \E n \in DOMAIN DimOrder : DimOrder[n] = cs[x].dim
      BY <3>1, <3>2 DEF Dim, DimOrder
    <3>5. rank(x) \in DOMAIN ClassOrder /\ name(x) \in DOMAIN DimOrder
      BY <3>3, <3>4 DEF Position
    <3> QED BY <3>1, <3>2, <3>5
  <2> QED BY <2>1
<1>2. \A x, y \in DOMAIN cs :
         Before(cs, x, y) <=>
            \/ rank(x) - rank(y) < 0
            \/ rank(x) - rank(y) = 0 /\ name(x) - name(y) < 0
            \/ rank(x) - rank(y) = 0 /\ name(x) - name(y) = 0 /\ x < y
  BY DEF Before
<1> HIDE DEF rank, name
<1> QED BY <1>1, <1>2

\* The lower class goes first: a constraint is dropped only when all that come
\* before it in the order of relaxation are.
LEMMA LowestGoFirst ==
    ASSUME NEW cs, ConstraintList(cs), NEW n \in Nat, NEW i \in Dropped(cs, n),
           NEW j \in Droppable(cs), Before(cs, j, i)
    PROVE  j \in Dropped(cs, n)
<1> DEFINE D(x) == {k \in Droppable(cs) : Before(cs, k, x)}
<1>1. i \in Droppable(cs) /\ Cardinality(D(i)) < n /\ Droppable(cs) \subseteq DOMAIN cs
  BY DEF Dropped, Droppable
<1>2. D(j) \subseteq D(i)
  BY <1>1, BeforeIsTransitive
<1>3. IsFiniteSet(D(i)) /\ IsFiniteSet(D(j))
  BY DroppableFinite, FS_Subset
<1>4. Cardinality(D(j)) <= Cardinality(D(i)) /\ Cardinality(D(i)) \in Nat
      /\ Cardinality(D(j)) \in Nat
  BY <1>2, <1>3, FS_Subset, FS_CardinalityType
<1> HIDE DEF D
<1>5. Cardinality(D(j)) < n
  BY <1>1, <1>4
<1> QED BY <1>5 DEF Dropped, D

\* Relaxation keeps to its order and stops in time: with one constraint less
\* dropped, nothing would have been left.
THEOREM RelaxationIsOrderly ==
    ASSUME NEW cs, ConstraintList(cs), HasBox(cs)
    PROVE  \E n \in Nat :
              /\ FeasibleBox(cs) = Box(cs, DOMAIN cs \ Dropped(cs, n))
              /\ \A m \in Nat : m < n => Empty(BoxAfter(cs, m))
              /\ \A i \in Dropped(cs, n), j \in Droppable(cs) :
                    Before(cs, j, i) => j \in Dropped(cs, n)
<1> DEFINE n == Least(Enough(cs))
           size == Cardinality(Droppable(cs))
<1>1. Enough(cs) \subseteq Nat /\ Enough(cs) # {} /\ size \in Nat
  BY DroppableFinite DEF Enough, HasBox
<1>2. n \in Enough(cs) /\ \A m \in Enough(cs) : n <= m
  BY <1>1, LeastExists
<1>3. n \in Nat /\ n <= size
  BY <1>1, <1>2 DEF Enough
<1>4. ASSUME NEW m \in Nat, m < n PROVE Empty(BoxAfter(cs, m))
  <2>1. m \in 0..size
    BY <1>1, <1>3, <1>4
  <2>2. m \notin Enough(cs)
    BY <1>2, <1>3, <1>4
  <2> QED BY <2>1, <2>2 DEF Enough
<1>5. FeasibleBox(cs) = Box(cs, DOMAIN cs \ Dropped(cs, n))
  BY BoxAfterIsBox DEF FeasibleBox
<1> HIDE DEF n
<1> QED BY <1>3, <1>4, <1>5, LowestGoFirst
=============================================================================
