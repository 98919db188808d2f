----------------------------- MODULE Feasible -----------------------------
(***************************************************************************)
(* The feasible region of core/csp_mini.py: the intersection of two agents' *)
(* hard constraints, its relaxation when it is empty, the grid of points    *)
(* both sides search, and the check of the final point.  The coupling of    *)
(* dimensions is that of core/registry.py.                                  *)
(*                                                                         *)
(* Numbers are whole multiples of a small unit; levels are their indices.   *)
(* A box is the set of values left to each dimension.                       *)
(***************************************************************************)
EXTENDS Integers, Sequences, FiniteSets

CONSTANTS Domain,            \* the registered values of each dimension
          GRID_K,            \* points on a continuous axis
          INSPECTION_COST,   \* latency per sampled flow, by depth
          BASE_LATENCY, THROUGHPUT_CEILING, THROUGHPUT_COST

Dim == {"inspection_depth", "latency_ms", "log_export",
        "sample_rate", "throughput_mbps", "tls_version"}

Numeric    == {"inspection_depth", "latency_ms", "sample_rate", "throughput_mbps"}
Continuous == Numeric \ {"inspection_depth"}

\* CLASS_ORDER: what is relaxed first; and the order of the names.
ClassOrder == <<"preference", "operational", "security_baseline", "safety", "regulatory">>
DimOrder   == <<"inspection_depth", "latency_ms", "log_export",
                "sample_rate", "throughput_mbps", "tls_version">>
NEVER_RELAX == {"safety", "regulatory"}

ASSUME FeasibleAssumption ==
    /\ DOMAIN Domain = Dim
    /\ \A d \in Numeric : /\ Domain[d] \subseteq Nat
                           /\ \E lo, hi \in Domain[d] : Domain[d] = lo..hi
    /\ GRID_K \in Nat /\ GRID_K >= 2
    /\ INSPECTION_COST \in [Domain["inspection_depth"] -> Nat]
    /\ BASE_LATENCY \in Int
    /\ THROUGHPUT_CEILING \in Int
    /\ THROUGHPUT_COST \in Nat

\* A value for every dimension: b is a box, or the whole domain.
PointsIn(b) == [inspection_depth : b["inspection_depth"],
                latency_ms       : b["latency_ms"],
                log_export       : b["log_export"],
                sample_rate      : b["sample_rate"],
                throughput_mbps  : b["throughput_mbps"],
                tls_version      : b["tls_version"]]
Point == PointsIn(Domain)

-----------------------------------------------------------------------------
(* Physics *)

Load(p) == INSPECTION_COST[p.inspection_depth] * p.sample_rate

CouplingOK(p) == /\ p.latency_ms >= BASE_LATENCY + Load(p)
                 /\ p.throughput_mbps <= THROUGHPUT_CEILING - THROUGHPUT_COST * Load(p)

-----------------------------------------------------------------------------
(* Constraints; cs is the list of both agents' *)

IsConstraint(c) ==
    /\ DOMAIN c = {"dim", "op", "value", "class"}
    /\ c.dim \in Dim /\ c.class \in {ClassOrder[i] : i \in DOMAIN ClassOrder}
    /\ c.dim \in Numeric => /\ c.op \in {"le", "ge"} => c.value \in Int
                            /\ c.op = "range" => c.value \in Int \X Int

\* Constraint c leaves value v.  An operator a type does not know leaves all.
Admits(c, v) ==
    IF c.dim \in Numeric
    THEN /\ c.op = "le" => v <= c.value
         /\ c.op = "ge" => v >= c.value
         /\ c.op = "range" => v >= c.value[1] /\ v <= c.value[2]
    ELSE IF c.dim = "tls_version" /\ c.op = "in" THEN v \in c.value ELSE v = c.value

\* The box left by the constraints at the positions in active.
Box(cs, active) ==
    [d \in Dim |-> {v \in Domain[d] : \A i \in active : cs[i].dim = d => Admits(cs[i], v)}]

Empty(b) == \E d \in Dim : b[d] = {}

Position(s, x) == CHOOSE i \in DOMAIN s : s[i] = x

\* Lower class first, then by name; sorted() keeps equals in list order.
Before(cs, i, j) ==
    LET c == Position(ClassOrder, cs[i].class) - Position(ClassOrder, cs[j].class)
        d == Position(DimOrder, cs[i].dim) - Position(DimOrder, cs[j].dim)
    IN  \/ c < 0
        \/ c = 0 /\ d < 0
        \/ c = 0 /\ d = 0 /\ i < j

Droppable(cs) == {i \in DOMAIN cs : cs[i].class \notin NEVER_RELAX}

\* The first n to go.
Dropped(cs, n) ==
    {i \in Droppable(cs) : Cardinality({j \in Droppable(cs) : Before(cs, j, i)}) < n}

BoxAfter(cs, n) == Box(cs, DOMAIN cs \ Dropped(cs, n))

\* How many have to go; relaxation stops at the first box that is not empty.
Enough(cs) == {n \in 0..Cardinality(Droppable(cs)) : ~Empty(BoxAfter(cs, n))}

Least(S)    == CHOOSE x \in S : \A y \in S : x <= y
Greatest(S) == CHOOSE x \in S : \A y \in S : x >= y

HasBox(cs)      == Enough(cs) # {}
FeasibleBox(cs) == BoxAfter(cs, Least(Enough(cs)))
Relaxed(cs)     == HasBox(cs) /\ Least(Enough(cs)) > 0

\* Mutant of Axis: the last point of the axis is left out.
AxisShort(d, S) ==
    IF d \in Continuous
    THEN {Least(S) + ((Greatest(S) - Least(S)) * i) \div GRID_K : i \in 0..(GRID_K - 1)}
    ELSE S

\* GRID_K points from end to end, rounded to the unit.
Axis(d, S) ==
    IF d \in Continuous
    THEN {Least(S) + ((Greatest(S) - Least(S)) * i) \div (GRID_K - 1) : i \in 0..(GRID_K - 1)}
    ELSE S

\* F, what both sides search: none when the region is empty even after relaxation.
FeasiblePoints(cs) ==
    IF HasBox(cs)
    THEN LET b == FeasibleBox(cs)
         IN  {p \in PointsIn([d \in Dim |-> Axis(d, b[d])]) : CouplingOK(p)}
    ELSE {}

\* The final point against one agent's own constraints, relaxed or not.
HardOK(hard, p) == LET b == Box(hard, DOMAIN hard) IN \A d \in Dim : p[d] \in b[d]
=============================================================================
