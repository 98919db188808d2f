---------------------------- MODULE Diagnosis ----------------------------
(***************************************************************************)
(* One node's way from its tasks to a claim and back: the SLO windows of    *)
(* metrics/telemetry.py, the analyzers of analyzer/rules.py and gemini.py,  *)
(* and the parameters the next task reads, insights/pipeline.active_params. *)
(*                                                                         *)
(* What a task measures, what a model answers, whether a replay improves    *)
(* and what the mesh makes of an insight are chosen freely; Fabric says     *)
(* what the mesh does.                                                     *)
(***************************************************************************)
EXTENDS Integers, SequencesExt

CONSTANTS Link, Workload,  \* values of the two keys of a task's context
          Sample,          \* what a task may measure: [lat, slow, aborted]
          WINDOW,          \* SLO_WINDOW
          Answer,          \* what a model may answer: [invents, params, warm]
          Bound,           \* TUNABLE_BOUNDS
          Foreign,         \* insights of other nodes
          OwnIds, Margins, \* of the node's own: ids, measured margins
          ScopeOrder,      \* the scopes, in the order of their keys
          None,
          MaxTasks, MaxKnown  \* bounds

\* Messages on time, over SLO_MSG_LATENCY_P95_MS, and ten times over it.
Level == 0..2

Context  == [link : Link, work : Workload]
Tunable  == {"eps", "r_max", "negotiate_timeout_ms"}
Statuses == {"CANDIDATE", "VERIFIED", "QUARANTINED"}   \* or revoked, which counts the same
RETRIES  == 1

ASSUME DiagnosisAssumption ==
    /\ \A s \in Sample : /\ s.lat \in [Level -> Nat]      \* messages of each level
                         /\ s.slow \in BOOLEAN /\ s.aborted \in BOOLEAN
    /\ WINDOW \in Nat \ {0}
    /\ DOMAIN Bound = Tunable
    /\ ScopeOrder \in Seq(Range(ScopeOrder))
    /\ \A i \in Foreign :
          i \in [id : Int, scope : Range(ScopeOrder), params : {i.params}, warm : {i.warm},
                margin : Int, version : Int, status : Statuses]
    /\ OwnIds \subseteq Int /\ Margins \subseteq Int
    \* what the rule table sets (Gross, Patient) is within bounds
    /\ 30000 \in Bound["negotiate_timeout_ms"] /\ 8 \in Bound["eps"] /\ 6 \in Bound["r_max"]
    /\ \A a \in Answer : None \notin [params : {a.params}, warm : Nat \cup {None}]

VARIABLES
    past,            \* history: the node's tasks, [ctx, sample]
    window,          \* window[l]: the samples kept for link quality l
    agreed,          \* last_agreed: [link, task], in the order links first settled
    config,          \* what the last task read of the fabric
    known,           \* the insights of the node's fold, in the order it lists them
    pc, incident,    \* of the last task
    attempt, stalls, \* calls of the model; those that ran into the timeout
    wouldDraft,      \* history: the rule table has a claim that replays
    draft            \* what is submitted for the incident

task   == <<past, window, agreed, config, incident>>
asking == <<attempt, stalls>>
vars   == <<task, known, pc, asking, wouldDraft, draft>>

-----------------------------------------------------------------------------
(* SLO windows: p95 is the smallest value at or above 95% of the sample *)

Rank(n) == (95 * n + 99) \div 100

\* What a task sent of the levels L, and the messages of a window, of any tasks.
Sent(s, L)     == UNION {{l} \X (1..s.lat[l]) : l \in L}
Messages(w, L) == UNION {{i} \X Sent(w[i], L) : i \in DOMAIN w}
Count(w, L)    == Cardinality(Messages(w, L))

P95(w)   == IF Messages(w, Level) = {} THEN 0
            ELSE Min({l \in Level : Count(w, 0..l) >= Rank(Count(w, Level))})
Slow(w)  == Cardinality({i \in DOMAIN w : ~w[i].slow}) < Rank(Len(w))
Aborts(w) == Cardinality({i \in DOMAIN w : w[i].aborted})

Incident(slo, gross, l) == [slo |-> slo, gross |-> gross, link |-> l]

\* The first objective breached, in the order they are looked at.
Judge(w, l) ==
    IF Len(w) < WINDOW               THEN None
    ELSE IF P95(w) > 0               THEN Incident("message_latency", P95(w) = 2, l)
    ELSE IF 10 * Aborts(w) > Len(w)  THEN Incident("abort_rate", FALSE, l)
    ELSE IF Slow(w)                  THEN Incident("contract_duration", FALSE, l)
    ELSE None

\* Mutant of Windowed: one window for all link qualities.
WindowedTogether(l, s) ==
    [k \in Link |-> LET w == Append(window[k], s)
                    IN  IF Len(w) > WINDOW THEN Tail(w) ELSE w]

\* A deque of WINDOW tasks for each link quality.
Windowed(l, s) ==
    LET w == Append(window[l], s)
    IN  [window EXCEPT ![l] = IF Len(w) > WINDOW THEN Tail(w) ELSE w]

-----------------------------------------------------------------------------
(* Active parameters *)

Matches(scope, ctx) == \A key \in DOMAIN scope : ctx[key] = scope[key]

\* Mutant of Preferred: equal margins and versions are not told apart.
PreferredNoId(i, j) ==
    \/ i.margin < j.margin
    \/ i.margin = j.margin /\ i.version > j.version

\* The bigger improvement, then the newer version, then the lower id.
Preferred(i, j) ==
    \/ i.margin < j.margin
    \/ i.margin = j.margin /\ i.version > j.version
    \/ i.margin = j.margin /\ i.version = j.version /\ i.id < j.id

Rival(s, ctx, scope) ==
    {n \in DOMAIN s : /\ s[n].status = "VERIFIED" /\ s[n].scope = scope
                      /\ Matches(scope, ctx)}

\* Of each scope the one that no other replaces as they are gone through.
Best(s, ctx, scope) ==
    {n \in Rival(s, ctx, scope) :
        \A m \in Rival(s, ctx, scope) :
            /\ ~Preferred(s[m], s[n])
            /\ m < n => Preferred(s[n], s[m])}

\* Scopes are applied in the order of their keys; the last to set a knob wins.
LastToSet(s, ctx, at) ==
    s[CHOOSE n \in Best(s, ctx, ScopeOrder[Max(at)]) : TRUE]

\* The positions of the scopes whose insight sets knob k, or a warm start.
Setting(s, ctx, k) == {p \in DOMAIN ScopeOrder :
    \E n \in Best(s, ctx, ScopeOrder[p]) : k \in DOMAIN s[n].params}
Warming(s, ctx) == {p \in DOMAIN ScopeOrder :
    \E n \in Best(s, ctx, ScopeOrder[p]) : s[n].warm # None}

Active(s, ctx) ==
    [params |-> [k \in Tunable |-> IF Setting(s, ctx, k) = {} THEN None
                                   ELSE LastToSet(s, ctx, Setting(s, ctx, k)).params[k]],
     warm   |-> IF Warming(s, ctx) = {} THEN None
                ELSE LastToSet(s, ctx, Warming(s, ctx)).warm,
     ids    |-> {s[n].id : n \in UNION {Best(s, ctx, scope) : scope \in Range(ScopeOrder)}}]

-----------------------------------------------------------------------------
(* Tasks *)

\* Mutant of Remembered: a second settlement is kept beside the first.
RememberedTwice(l) == Append(agreed, [link |-> l, task |-> Len(past) + 1])

\* last_agreed: a link already there keeps its place.
Remembered(l) ==
    IF \E n \in DOMAIN agreed : agreed[n].link = l
    THEN [n \in DOMAIN agreed |-> IF agreed[n].link = l
                                  THEN [link |-> l, task |-> Len(past) + 1] ELSE agreed[n]]
    ELSE Append(agreed, [link |-> l, task |-> Len(past) + 1])

\* run_task as the initiating node sees it.
RunTask ==
    /\ pc = "idle" /\ Len(past) < MaxTasks
    /\ \E ctx \in Context, s \in Sample :
          /\ past'     = Append(past, [ctx |-> ctx, sample |-> s])
          /\ config'   = Active(known, ctx)
          /\ agreed'   = IF s.aborted THEN agreed ELSE Remembered(ctx.link)
          /\ window'   = Windowed(ctx.link, s)
          /\ incident' = Judge(window'[ctx.link], ctx.link)
    /\ pc' = IF incident' = None THEN "idle" ELSE "incident"
    /\ draft' = None /\ wouldDraft' = FALSE
    /\ attempt' = 0 /\ stalls' = 0
    /\ UNCHANGED known

-----------------------------------------------------------------------------
(* Analysis *)

Scope(l) == [link |-> l]

HasInsight(l) == \E n \in DOMAIN known : /\ known[n].status \in {"CANDIDATE", "VERIFIED"}
                                         /\ known[n].scope = Scope(l)

\* What is remembered of the link, or of the first link that ever settled.
Settlement(l) ==
    LET here == {n \in DOMAIN agreed : agreed[n].link = l}
    IN  IF agreed = <<>> THEN None ELSE agreed[IF here = {} THEN 1 ELSE Min(here)].task

Claim(params, warm) == [params |-> params, warm |-> warm]
NoParams == [k \in {} |-> None]
Patient  == [k \in {"negotiate_timeout_ms"} |-> 30000]
Gross    == [eps |-> 8, r_max |-> 6, negotiate_timeout_ms |-> 30000]

\* The rule table.
RuleClaim(inc) ==
    LET last == Settlement(inc.link) IN
    CASE inc.slo = "message_latency" /\ inc.gross          -> Claim(Gross, last)
      [] inc.slo = "abort_rate"                            -> Claim(Patient, None)
      [] inc.slo = "contract_duration" /\ last # None      -> Claim(NoParams, last)
      [] OTHER                                             -> None

\* Mutant of Grounded: ranges are left to the guardrail.
GroundedByName(a) == /\ ~a.invents
                     /\ DOMAIN a.params \subseteq Tunable /\ DOMAIN a.params # {}

\* The gate: no invented span, known knobs only, within their bounds.
Grounded(a) == /\ ~a.invents
               /\ DOMAIN a.params \subseteq Tunable /\ DOMAIN a.params # {}
               /\ \A k \in DOMAIN a.params : a.params[k] \in Bound[k]

\* The model says whether to warm start; the point is the node's own.
GroundedClaim(a) == Claim(a.params, IF a.warm THEN Settlement(incident.link) ELSE None)

KnownAlready ==
    /\ pc = "incident" /\ HasInsight(incident.link)
    /\ pc' = "idle"
    /\ UNCHANGED <<task, known, asking, wouldDraft, draft>>

\* Whether the rules' claim would survive its replay is settled by the scenario.
Analyze ==
    /\ pc = "incident" /\ ~HasInsight(incident.link)
    /\ pc' \in {"rules", "model"}
    /\ wouldDraft' \in (IF RuleClaim(incident) = None THEN {FALSE} ELSE BOOLEAN)
    /\ UNCHANGED <<task, known, asking, draft>>

\* No key, or a last call that failed.
NoAnswer ==
    /\ pc = "model"
    /\ \/ attempt = 0 /\ UNCHANGED attempt
       \/ attempt = RETRIES /\ attempt' = attempt + 1
    /\ pc' = "rules"
    /\ UNCHANGED <<task, known, stalls, wouldDraft, draft>>

\* A call that failed on the way, or brought nothing that parses.
Retry ==
    /\ pc = "model" /\ attempt < RETRIES
    /\ attempt' = attempt + 1
    /\ UNCHANGED <<task, known, pc, stalls, wouldDraft, draft>>

\* Unlike other failures, a timeout is not retried.
AfterTimeout == pc' = "rules"

TimedOut ==
    /\ pc = "model"
    /\ attempt' = attempt + 1 /\ stalls' = stalls + 1
    /\ AfterTimeout
    /\ UNCHANGED <<task, known, wouldDraft, draft>>

\* Mutant of Discarded: the node draws a blank.
DiscardedForGood == pc' = "idle"

\* A claim that does not reproduce is discarded for the rules'.
Discarded == pc' = "rules"

Answered ==
    /\ pc = "model"
    /\ attempt' = attempt + 1
    /\ \E a \in Answer :
          \/ /\ Grounded(a)
             /\ draft' = GroundedClaim(a) /\ pc' = "announce"
          \/ /\ Grounded(a)
             /\ Discarded /\ UNCHANGED draft
          \/ /\ ~Grounded(a)
             /\ pc' = "rules" /\ UNCHANGED draft
    /\ UNCHANGED <<task, known, stalls, wouldDraft>>

\* An answer of a shape no clause expects (a list for an object, an object for a
\* span id) raises a TypeError that nothing catches: the run ends.
Raises ==
    /\ pc = "model" /\ pc' = "crashed"
    /\ attempt' = attempt + 1
    /\ UNCHANGED <<task, known, stalls, wouldDraft, draft>>

\* rules.analyze: the rule table, and the node's own replay.
ApplyRules ==
    /\ pc = "rules"
    /\ \/ wouldDraft /\ draft' = RuleClaim(incident) /\ pc' = "announce"
       \/ ~wouldDraft /\ pc' = "idle" /\ UNCHANGED draft
    /\ UNCHANGED <<task, known, asking, wouldDraft>>

Live == {known[n].id : n \in DOMAIN known}

\* announce: denied by the guardrail, or appended to the node's log.
Announce ==
    /\ pc = "announce"
    /\ pc' = "idle"
    /\ \/ UNCHANGED known
       \/ /\ Len(known) < MaxKnown
          /\ \E id \in OwnIds \ Live, margin \in Margins :
                known' = Append(known, [id |-> id, scope |-> Scope(incident.link),
                                        params |-> draft.params, warm |-> draft.warm,
                                        margin |-> margin, version |-> 1,
                                        status |-> "CANDIDATE"])
    /\ UNCHANGED <<task, asking, wouldDraft, draft>>

-----------------------------------------------------------------------------
(* The mesh: what peers send and decide, between this node's tasks.  The    *)
(* locals of the last analysis are gone by then.                           *)

Forget == draft' = None /\ wouldDraft' = FALSE /\ attempt' = 0 /\ stalls' = 0

Learn ==
    /\ pc = "idle" /\ Len(known) < MaxKnown
    /\ \E i \in Foreign : i.id \notin Live /\ known' = Append(known, i)
    /\ Forget
    /\ UNCHANGED <<task, pc>>

Decide ==
    /\ pc = "idle"
    /\ \E n \in DOMAIN known, st \in Statuses \ {"CANDIDATE"} :
          known' = [known EXCEPT ![n].status = st]
    /\ Forget
    /\ UNCHANGED <<task, pc>>

Init ==
    /\ past = <<>> /\ window = [l \in Link |-> <<>>] /\ agreed = <<>>
    /\ config = None /\ known = <<>>
    /\ pc = "idle" /\ incident = None
    /\ attempt = 0 /\ stalls = 0
    /\ wouldDraft = FALSE /\ draft = None

Next == \/ RunTask \/ KnownAlready \/ Analyze
        \/ NoAnswer \/ Retry \/ TimedOut \/ Answered \/ Raises
        \/ ApplyRules \/ Announce
        \/ Learn \/ Decide

Spec == Init /\ [][Next]_vars

-----------------------------------------------------------------------------
(* Properties *)

\* The variables have the types of the objects they stand for: windows never
\* outgrow WINDOW, and a link has one settlement at most, of a task that ran.
TypeOK ==
    /\ \A n \in DOMAIN past : past[n].ctx \in Context /\ past[n].sample \in Sample
    /\ \A l \in Link : Len(window[l]) <= WINDOW /\ Range(window[l]) \subseteq Sample
    /\ \A n \in DOMAIN agreed : agreed[n] \in [link : Link, task : DOMAIN past]
    /\ \A m, n \in DOMAIN agreed : agreed[m].link = agreed[n].link => m = n
    /\ \A n \in DOMAIN known : known[n].status \in Statuses
    /\ pc \in {"idle", "incident", "model", "rules", "announce", "crashed"}
    /\ attempt \in 0..(RETRIES + 1) /\ stalls \in 0..attempt
    /\ wouldDraft \in BOOLEAN

\* An incident is raised when, and only when, the last WINDOW tasks of the same
\* link quality say so: more than one message in twenty over the objective (and
\* gross if that many are ten times over), else more than one abort in ten
\* tasks, else more than one slow task in twenty; and none before there are
\* WINDOW of them, whatever other link qualities measured in between.
Share(num, den, n) == n > 0 /\ den * num > n
Recent(l) ==
    LET all == {n \in DOMAIN past : past[n].ctx.link = l}
    IN  {n \in all : Cardinality({m \in all : m > n}) < WINDOW}
Over(R, from) == Cardinality(UNION {{n} \X Sent(past[n].sample, from..2) : n \in R})
IncidentIffBreach ==
    past # <<>> =>
        LET l == past[Len(past)].ctx.link
            R == Recent(l)
            full    == Cardinality(R) = WINDOW
            latency == Share(Over(R, 1), 20, Over(R, 0))
            gross   == Share(Over(R, 2), 20, Over(R, 0))
            abort   == Share(Cardinality({n \in R : past[n].sample.aborted}), 10, WINDOW)
            slow    == Share(Cardinality({n \in R : past[n].sample.slow}), 20, WINDOW)
        IN  IF ~full \/ ~(latency \/ abort \/ slow) THEN incident = None
            ELSE incident = Incident(IF latency THEN "message_latency"
                                     ELSE IF abort THEN "abort_rate" ELSE "contract_duration",
                                     gross, l)

\* The model may only add: when the rules have a claim that replays, something
\* is submitted, whatever the model answers, unless the run breaks; and the
\* model stalls the run once at most (gemini.analyze, "falls back to rules on
\* ANY rejection").
NeverBlank == /\ pc = "idle" /\ wouldDraft => draft # None
              /\ stalls <= 1

\* What is submitted, whoever thought of it, sets tunables within their bounds
\* and nothing else, and warm-starts from a settlement this node has reached.
ClaimsAreOurs ==
    draft # None =>
        /\ \A k \in DOMAIN draft.params : k \in Tunable /\ draft.params[k] \in Bound[k]
        /\ draft.warm # None => ~past[draft.warm].sample.aborted
        /\ DOMAIN draft.params # {} \/ draft.warm # None

\* Replicas that know the same insights configure a task the same, in whatever
\* order they learned them: that order is the order of their logs.
SameOnEveryReplica ==
    \A order \in {f \in [DOMAIN known -> DOMAIN known] : IsInjective(f)} :
        LET other == [n \in DOMAIN known |-> known[order[n]]]
        IN  \A ctx \in Context : Active(other, ctx) = Active(known, ctx)
=============================================================================
