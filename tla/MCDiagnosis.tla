--------------------------- MODULE MCDiagnosis ---------------------------
(* An instance of Diagnosis for TLC: two link qualities, windows of two     *)
(* tasks, and measurements on both sides of every objective.               *)
EXTENDS Diagnosis

Measured(ok, over, gross, slow, aborted) ==
    [lat |-> [l \in Level |-> <<ok, over, gross>>[l + 1]], slow |-> slow, aborted |-> aborted]

MCSample == { Measured(10, 0, 0, FALSE, FALSE),    \* fine
              Measured(9, 1, 0, TRUE, FALSE),      \* one late message in ten, slow
              Measured(8, 1, 1, FALSE, FALSE),     \* one of them ten times over
              Measured(0, 0, 0, TRUE, TRUE) }      \* nothing came through

MCBound == [eps |-> 1..20, r_max |-> 2..12, negotiate_timeout_ms |-> {1000, 30000, 60000}]

Knobs(k, v) == [j \in {k} |-> v]
MCAnswer == { [invents |-> FALSE, params |-> Knobs("r_max", 4), warm |-> TRUE],
              [invents |-> FALSE, params |-> Knobs("r_max", 99), warm |-> TRUE],
              [invents |-> FALSE, params |-> Knobs("quorum", 1), warm |-> FALSE],
              [invents |-> TRUE,  params |-> Knobs("eps", 8), warm |-> FALSE] }

OnLossy  == [link |-> "lossy"]
OnBursty == [work |-> "bursty"]

Peers(id, scope, k, v, margin, version) ==
    [id |-> id, scope |-> scope, params |-> Knobs(k, v), warm |-> None,
     margin |-> margin, version |-> version, status |-> "CANDIDATE"]
MCForeign == { Peers(1, OnLossy, "r_max", 6, -2, 1),
               Peers(2, OnLossy, "r_max", 8, -2, 1),
               Peers(3, OnBursty, "r_max", 10, -1, 1) }

MCScopeOrder == <<[link |-> "lossy"], [link |-> "normal"], OnBursty>>
MCMargins    == {-2}
=============================================================================
