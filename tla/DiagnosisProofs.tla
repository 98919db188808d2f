------------------------ MODULE DiagnosisProofs ------------------------
(***************************************************************************)
(* Theorems about Diagnosis: a model's answers never cost a claim the rules*)
(* have, what is submitted is within bounds and warm-starts from a point   *)
(* this node settled at, replicas that know the same insights configure a  *)
(* task the same, and an incident is raised when, and only when, the last  *)
(* tasks of its link quality breach an objective.                          *)
(***************************************************************************)
EXTENDS Diagnosis, WellFoundedInduction, FiniteSetTheorems, SequenceTheorems, TLAPS

-----------------------------------------------------------------------------
(* Active parameters do not depend on the order of the insights *)

\* No two insights of a fold have the same id.
Distinct(s) == \A m, n \in DOMAIN s : s[m].id = s[n].id => m = n

Numbered(s) == \A n \in DOMAIN s : /\ s[n].id \in Int /\ s[n].margin \in Int
                                   /\ s[n].version \in Int

\* Of two insights one is preferred, so the order in which rivals are gone
\* through does not matter.
LEMMA BestIsPreferred ==
    ASSUME NEW s, Distinct(s), Numbered(s), DOMAIN s \subseteq Nat, NEW ctx, NEW scope
    PROVE  /\ Best(s, ctx, scope) = {n \in Rival(s, ctx, scope) :
                  \A m \in Rival(s, ctx, scope) : ~Preferred(s[m], s[n])}
           /\ \A m, n \in Best(s, ctx, scope) : m = n
           /\ Best(s, ctx, scope) \subseteq DOMAIN s
<1>1. \A m, n \in DOMAIN s : m = n \/ Preferred(s[m], s[n]) \/ Preferred(s[n], s[m])
  BY DEF Distinct, Numbered, Preferred
<1>2. \A n \in DOMAIN s : ~(n < n)
  OBVIOUS
<1>3. Rival(s, ctx, scope) \subseteq DOMAIN s
  BY DEF Rival
<1>. QED  BY <1>1, <1>2, <1>3 DEF Best

\* The same insights in another order.
Reordered(s, f) == [n \in DOMAIN s |-> s[f[n]]]

LEMMA ReorderedFacts ==
    ASSUME NEW s, Distinct(s), Numbered(s), DOMAIN s \subseteq Nat,
           NEW f \in [DOMAIN s -> DOMAIN s], IsInjective(f),
           \A m \in DOMAIN s : \E n \in DOMAIN s : f[n] = m
    PROVE  /\ DOMAIN Reordered(s, f) = DOMAIN s
           /\ Distinct(Reordered(s, f)) /\ Numbered(Reordered(s, f))
           /\ \A n \in DOMAIN s : Reordered(s, f)[n] = s[f[n]]
           /\ \A ctx, scope : \A n \in DOMAIN s :
                 n \in Best(Reordered(s, f), ctx, scope) <=> f[n] \in Best(s, ctx, scope)
<1>. DEFINE t == Reordered(s, f)
<1>1. DOMAIN t = DOMAIN s /\ \A n \in DOMAIN s : t[n] = s[f[n]] /\ f[n] \in DOMAIN s
  BY DEF Reordered
<1>. HIDE DEF t
<1>2. \A m, n \in DOMAIN s : f[m] = f[n] => m = n
  BY DEF IsInjective
<1>3. Distinct(t) /\ Numbered(t)
  BY <1>1, <1>2 DEF Distinct, Numbered
<1>4. ASSUME NEW ctx, NEW scope, NEW n \in DOMAIN s
      PROVE  n \in Best(t, ctx, scope) <=> f[n] \in Best(s, ctx, scope)
  <2>1. \A m \in DOMAIN s : m \in Rival(t, ctx, scope) <=> f[m] \in Rival(s, ctx, scope)
    BY <1>1 DEF Rival
  <2>2. Rival(t, ctx, scope) \subseteq DOMAIN s /\ Rival(s, ctx, scope) \subseteq DOMAIN s
    BY <1>1 DEF Rival
  <2>3. \A m \in DOMAIN s : Preferred(t[m], t[n]) <=> Preferred(s[f[m]], s[f[n]])
    BY <1>1
  <2>4. (\A m \in Rival(t, ctx, scope) : ~Preferred(t[m], t[n]))
           <=> (\A m \in Rival(s, ctx, scope) : ~Preferred(s[m], s[f[n]]))
    BY <2>1, <2>2, <2>3
  <2>. QED  BY <1>1, <1>3, <2>1, <2>4, BestIsPreferred
<1>. QED  BY <1>1, <1>3, <1>4 DEF t

\* A set of numbers up to k has its greatest element.
LEMMA GreatestIsMember ==
    ASSUME NEW k \in Nat, NEW S, S \subseteq 1..k, S # {}
    PROVE  Max(S) \in S
<1>. DEFINE T == {k - x : x \in S}
<1>1. T \subseteq Nat /\ T # {}
  <2>1. PICK x \in S : TRUE
    OBVIOUS
  <2>2. k - x \in T
    BY <2>1
  <2>3. ASSUME NEW x1 \in S PROVE k - x1 \in Nat
    OBVIOUS
  <2>. QED  BY <2>2, <2>3
<1>2. \E x \in T : \A y \in T : ~(<<y, x>> \in OpToRel(<, Nat))
  <2>. HIDE DEF T
  <2>. QED  BY <1>1, NatLessThanWellFounded, WFMin
<1>3. PICK x \in T : \A y \in T : ~(<<y, x>> \in OpToRel(<, Nat))
  BY <1>2
<1>4. \A y \in T : ~(y < x)
  BY <1>1, <1>3 DEF OpToRel
<1>5. PICK z \in S : x = k - z
  OBVIOUS
<1>6. \A y \in S : z >= y
  <2>1. ASSUME NEW y \in S PROVE z >= y
    <3>1. k - y \in T
      OBVIOUS
    <3>2. ~(k - y < k - z)
      BY <1>4, <1>5, <3>1
    <3>. QED  BY <3>2
  <2>. QED  BY <2>1
<1>. QED  BY <1>5, <1>6 DEF Max

\* Replicas that know the same insights are configured the same.
LEMMA ActiveIgnoresOrder ==
    ASSUME NEW s, Distinct(s), Numbered(s), NEW k \in Nat, DOMAIN s = 1..k,
           NEW f \in [DOMAIN s -> DOMAIN s], IsInjective(f), NEW ctx
    PROVE  Active(Reordered(s, f), ctx) = Active(s, ctx)
<1>. DEFINE t == Reordered(s, f)
<1>. DOMAIN s \subseteq Nat
  OBVIOUS
<1>1. \A m \in DOMAIN s : \E n \in DOMAIN s : f[n] = m
  <2>1. f \in Injection(DOMAIN s, DOMAIN s)
    BY Zenon DEF Injection
  <2>2. IsFiniteSet(DOMAIN s)
    <3>1. 1 \in Int /\ k \in Int
      OBVIOUS
    <3>. QED  BY <3>1, FS_Interval
  <2>3. f \in Surjection(DOMAIN s, DOMAIN s)
    BY <2>1, <2>2, FS_Injection
  <2>. QED  BY <2>3 DEF Surjection
<1>2. /\ DOMAIN t = DOMAIN s /\ Distinct(t) /\ Numbered(t)
      /\ \A n \in DOMAIN s : t[n] = s[f[n]] /\ f[n] \in DOMAIN s
      /\ \A scope : \A n \in DOMAIN s :
            n \in Best(t, ctx, scope) <=> f[n] \in Best(s, ctx, scope)
  <2>1. /\ DOMAIN t = DOMAIN s /\ Distinct(t) /\ Numbered(t)
        /\ \A n \in DOMAIN s : t[n] = s[f[n]]
    BY <1>1, ReorderedFacts
  <2>2. \A c, scope : \A n \in DOMAIN s :
            n \in Best(t, c, scope) <=> f[n] \in Best(s, c, scope)
    BY <1>1, ReorderedFacts
  <2>3. \A n \in DOMAIN s : f[n] \in DOMAIN s
    OBVIOUS
  <2>. QED  BY <2>1, <2>2, <2>3
<1>. HIDE DEF t
<1>3. ASSUME NEW scope
      PROVE  /\ Best(t, ctx, scope) \subseteq DOMAIN s /\ Best(s, ctx, scope) \subseteq DOMAIN s
             /\ \A m, n \in Best(t, ctx, scope) : m = n
             /\ \A m, n \in Best(s, ctx, scope) : m = n
  BY <1>2, BestIsPreferred
\* The best insights are the same.
<1>4. ASSUME NEW scope
      PROVE  /\ \A n \in Best(t, ctx, scope) : \E m \in Best(s, ctx, scope) : t[n] = s[m]
             /\ \A m \in Best(s, ctx, scope) : \E n \in Best(t, ctx, scope) : t[n] = s[m]
  <2>1. ASSUME NEW n \in Best(t, ctx, scope) PROVE \E m \in Best(s, ctx, scope) : t[n] = s[m]
    <3>1. n \in DOMAIN s
      BY <1>3
    <3>. QED  BY <1>2, <3>1
  <2>2. ASSUME NEW m \in Best(s, ctx, scope) PROVE \E n \in Best(t, ctx, scope) : t[n] = s[m]
    <3>1. PICK n \in DOMAIN s : f[n] = m
      BY <1>1, <1>3
    <3>. QED  BY <1>2, <3>1
  <2>. QED  BY <2>1, <2>2
<1>5. ASSUME NEW j PROVE Setting(t, ctx, j) = Setting(s, ctx, j)
  BY <1>4 DEF Setting
<1>6. Warming(t, ctx) = Warming(s, ctx)
  BY <1>4 DEF Warming
<1>7. ASSUME NEW at \in SUBSET DOMAIN ScopeOrder, at # {},
             \A p \in at : Best(s, ctx, ScopeOrder[p]) # {}
      PROVE  LastToSet(t, ctx, at) = LastToSet(s, ctx, at)
  <2>1. Max(at) \in at
    <3>1. /\ DOMAIN ScopeOrder = 1..Len(ScopeOrder) /\ Len(ScopeOrder) \in Nat
      BY DiagnosisAssumption
    <3>. QED  BY <1>7, <3>1, GreatestIsMember
  <2>. DEFINE scope == ScopeOrder[Max(at)]
  <2>2. Best(s, ctx, scope) # {}
    BY <1>7, <2>1
  <2>3. PICK m \in Best(s, ctx, scope), n \in Best(t, ctx, scope) : t[n] = s[m]
    BY <1>4, <2>2
  <2>4. (CHOOSE x \in Best(s, ctx, scope) : TRUE) = m
    BY <1>3, <2>3
  <2>5. (CHOOSE x \in Best(t, ctx, scope) : TRUE) = n
    BY <1>3, <2>3
  <2>. QED  BY <2>3, <2>4, <2>5 DEF LastToSet
<1>8. {t[n].id : n \in UNION {Best(t, ctx, scope) : scope \in Range(ScopeOrder)}}
        = {s[n].id : n \in UNION {Best(s, ctx, scope) : scope \in Range(ScopeOrder)}}
  BY <1>4
<1>9. ASSUME NEW j \in Tunable, Setting(s, ctx, j) # {}
      PROVE  LastToSet(t, ctx, Setting(s, ctx, j)) = LastToSet(s, ctx, Setting(s, ctx, j))
  BY <1>7, <1>9 DEF Setting
<1>10. Warming(s, ctx) # {} =>
          LastToSet(t, ctx, Warming(s, ctx)) = LastToSet(s, ctx, Warming(s, ctx))
  BY <1>7 DEF Warming
<1>11. \A j \in Tunable :
          (IF Setting(t, ctx, j) = {} THEN None
           ELSE LastToSet(t, ctx, Setting(t, ctx, j)).params[j])
            = (IF Setting(s, ctx, j) = {} THEN None
               ELSE LastToSet(s, ctx, Setting(s, ctx, j)).params[j])
  BY <1>5, <1>9
<1>12. (IF Warming(t, ctx) = {} THEN None ELSE LastToSet(t, ctx, Warming(t, ctx)).warm)
          = (IF Warming(s, ctx) = {} THEN None ELSE LastToSet(s, ctx, Warming(s, ctx)).warm)
  BY <1>6, <1>10
<1>13. Active(t, ctx) = Active(s, ctx)
  BY <1>8, <1>11, <1>12 DEF Active
<1>. QED  BY <1>13 DEF t

-----------------------------------------------------------------------------
(* Types *)

Known  == [id     : Int,
           scope  : {i.scope : i \in Foreign} \cup {Scope(l) : l \in Link},
           params : {i.params : i \in Foreign} \cup {a.params : a \in Answer}
                    \cup {NoParams, Patient, Gross},
           warm   : {i.warm : i \in Foreign} \cup Nat \cup {None},
           margin : Int, version : Int, status : Statuses]
Draft  == [params : {a.params : a \in Answer} \cup {NoParams, Patient, Gross},
           warm   : Nat \cup {None}]
Breach == [slo : {"message_latency", "abort_rate", "contract_duration"},
           gross : BOOLEAN, link : Link]

Records ==
    /\ past \in Seq([ctx : Context, sample : Sample])
    /\ window \in [Link -> Seq(Sample)] /\ \A l \in Link : Len(window[l]) <= WINDOW
    /\ agreed \in Seq([link : Link, task : Nat])
    /\ known \in Seq(Known)
    /\ draft \in Draft \cup {None}
    /\ pc # "idle" => incident \in Breach

\* A link's settlement is of a task that ran and did not abort; a link has one.
Settled ==
    /\ \A n \in DOMAIN agreed : /\ agreed[n].task \in DOMAIN past
                                /\ ~past[agreed[n].task].sample.aborted
    /\ \A m, n \in DOMAIN agreed : agreed[m].link = agreed[n].link => m = n

\* How far the analysis of an incident has come.
Progress ==
    /\ pc \in {"idle", "incident", "model", "rules", "announce", "crashed"}
    /\ attempt \in 0..(RETRIES + 1) /\ stalls \in 0..attempt /\ stalls <= 1
    /\ wouldDraft \in BOOLEAN
    /\ pc = "incident" => attempt = 0 /\ stalls = 0 /\ ~wouldDraft
    /\ pc = "model" => attempt <= RETRIES /\ stalls = 0
    /\ pc \in {"model", "rules"} /\ wouldDraft => RuleClaim(incident) # None
    /\ pc = "announce" => draft # None

IInv == Records /\ Settled /\ Progress /\ Distinct(known) /\ NeverBlank /\ ClaimsAreOurs

LEMMA SettlementIsOurs ==
    ASSUME Records, Settled, NEW l, Settlement(l) # None
    PROVE  Settlement(l) \in DOMAIN past /\ ~past[Settlement(l)].sample.aborted
<1>. DEFINE here == {n \in DOMAIN agreed : agreed[n].link = l}
<1>1. agreed # <<>> /\ Settlement(l) = agreed[IF here = {} THEN 1 ELSE Min(here)].task
  BY DEF Settlement
<1>2. CASE here = {}
  <2>1. 1 \in DOMAIN agreed
    BY <1>1 DEF Records
  <2>. QED  BY <1>1, <1>2, <2>1 DEF Settled
<1>3. CASE here # {}
  <2>1. PICK n \in here : TRUE
    BY <1>3
  <2>2. \A m \in here : m = n
    BY <2>1 DEF Settled
  <2>3. n \in Nat
    BY <2>1 DEF Records
  <2>4. Min(here) = n
    BY <2>1, <2>2, <2>3 DEF Min
  <2>. QED  BY <1>1, <1>3, <2>1, <2>4 DEF Settled
<1>. QED  BY <1>2, <1>3

\* What the rule table proposes is within bounds, and does something.
LEMMA RuleClaimIsOurs ==
    ASSUME Records, Settled, incident \in Breach, NEW c, c = RuleClaim(incident), c # None
    PROVE  /\ c \in Draft
           /\ \A k \in DOMAIN c.params : k \in Tunable /\ c.params[k] \in Bound[k]
           /\ c.warm # None => ~past[c.warm].sample.aborted
           /\ DOMAIN c.params # {} \/ c.warm # None
<1>. DEFINE last == Settlement(incident.link)
<1>1. last = None \/ (last \in Nat /\ ~past[last].sample.aborted)
  BY SettlementIsOurs DEF Records
<1>2. \/ c = Claim(Gross, last)
      \/ c = Claim(Patient, None)
      \/ c = Claim(NoParams, last) /\ last # None
  BY DEF RuleClaim
<1>. HIDE DEF last
<1>3. /\ \A k \in DOMAIN Gross : k \in Tunable /\ Gross[k] \in Bound[k]
      /\ \A k \in DOMAIN Patient : k \in Tunable /\ Patient[k] \in Bound[k]
      /\ DOMAIN NoParams = {} /\ DOMAIN Gross # {} /\ DOMAIN Patient # {}
  BY DiagnosisAssumption DEF Gross, Patient, NoParams, Tunable
<1>4. CASE c = Claim(Gross, last)
  BY <1>1, <1>3, <1>4 DEF Claim, Draft
<1>5. CASE c = Claim(Patient, None)
  BY <1>1, <1>3, <1>5 DEF Claim, Draft
<1>6. CASE c = Claim(NoParams, last) /\ last # None
  BY <1>1, <1>3, <1>6 DEF Claim, Draft
<1>. QED  BY <1>2, <1>4, <1>5, <1>6

\* So is what the gate lets through of a model's answer.
LEMMA GroundedIsOurs ==
    ASSUME Records, Settled, NEW a \in Answer, Grounded(a),
           NEW c, c = GroundedClaim(a)
    PROVE  /\ c \in Draft /\ c # None
           /\ \A k \in DOMAIN c.params : k \in Tunable /\ c.params[k] \in Bound[k]
           /\ c.warm # None => ~past[c.warm].sample.aborted
           /\ DOMAIN c.params # {}
<1>. DEFINE w == IF a.warm THEN Settlement(incident.link) ELSE None
<1>1. w = None \/ (w \in Nat /\ ~past[w].sample.aborted)
  BY SettlementIsOurs DEF Records
<1>2. c = [params |-> a.params, warm |-> w]
  BY DEF GroundedClaim, Claim
<1>. HIDE DEF w
<1>3. c # None
  BY <1>1, <1>2, DiagnosisAssumption
<1>. QED  BY <1>1, <1>2, <1>3 DEF Grounded, Draft

-----------------------------------------------------------------------------
(* A task *)

LEMMA TaskKeepsRecords ==
    ASSUME Records, Settled, RunTask
    PROVE  Records' /\ Settled'
<1>1. PICK ctx \in Context, s \in Sample :
         /\ past'     = Append(past, [ctx |-> ctx, sample |-> s])
         /\ agreed'   = IF s.aborted THEN agreed ELSE Remembered(ctx.link)
         /\ window'   = Windowed(ctx.link, s)
         /\ incident' = Judge(window'[ctx.link], ctx.link)
  BY DEF RunTask
<1>. DEFINE l == ctx.link
            new == [link |-> l, task |-> Len(past) + 1]
<1>2. l \in Link
  BY DEF Context
<1>3. /\ past' \in Seq([ctx : Context, sample : Sample]) /\ Len(past) \in Nat
      /\ DOMAIN past \subseteq DOMAIN past' /\ Len(past) + 1 \in DOMAIN past'
      /\ \A n \in DOMAIN past : past'[n] = past[n]
      /\ past'[Len(past) + 1].sample = s
  BY <1>1 DEF Records
<1>4. window' \in [Link -> Seq(Sample)] /\ \A k \in Link : Len(window'[k]) <= WINDOW
  <2>. DEFINE w == Append(window[l], s)
              v == IF Len(w) > WINDOW THEN Tail(w) ELSE w
  <2>1. window' = [window EXCEPT ![l] = v]
    BY <1>1 DEF Windowed
  <2>2. w \in Seq(Sample) /\ Len(w) <= WINDOW + 1 /\ Len(w) \in Nat /\ WINDOW \in Nat
    BY <1>2, DiagnosisAssumption DEF Records
  <2>. HIDE DEF w
  <2>3. v \in Seq(Sample) /\ Len(v) <= WINDOW
    BY <2>2
  <2>. QED  BY <1>2, <2>1, <2>3 DEF Records
<1>6. ASSUME ~s.aborted
      PROVE  /\ agreed' \in Seq([link : Link, task : Nat])
             /\ \A n \in DOMAIN agreed' :
                   \/ n \in DOMAIN agreed /\ agreed'[n] = agreed[n]
                   \/ agreed'[n] = new
             /\ \A n, m \in DOMAIN agreed' : agreed'[m].link = agreed'[n].link => m = n
  <2>1. agreed' = Remembered(l) /\ new \in [link : Link, task : Nat]
    BY <1>1, <1>2, <1>3, <1>6
  <2>2. CASE \E n \in DOMAIN agreed : agreed[n].link = l
    <3>1. agreed' = [n \in DOMAIN agreed |-> IF agreed[n].link = l THEN new ELSE agreed[n]]
      BY <2>1, <2>2 DEF Remembered
    <3>2. \A n \in DOMAIN agreed : agreed'[n].link = agreed[n].link
      BY <3>1
    <3>3. agreed' \in Seq([link : Link, task : Nat])
      <4>1. DOMAIN agreed = 1..Len(agreed) /\ Len(agreed) \in Nat
        BY DEF Records
      <4>2. \A n \in 1..Len(agreed) : agreed'[n] \in [link : Link, task : Nat]
        <5>1. \A n \in DOMAIN agreed : agreed[n] \in [link : Link, task : Nat]
          <6>1. agreed \in Seq([link : Link, task : Nat])
            BY DEF Records
          <6>. QED  BY <4>1, <6>1, ElementOfSeq
        <5>. HIDE DEF new
        <5>. QED  BY <2>1, <3>1, <4>1, <5>1
      <4>3. agreed' \in [1..Len(agreed) -> [link : Link, task : Nat]]
        BY <3>1, <4>1, <4>2
      <4>. QED  BY <4>1, <4>3, SeqDef
    <3>. QED  BY <3>1, <3>2, <3>3 DEF Settled
  <2>3. CASE ~\E n \in DOMAIN agreed : agreed[n].link = l
    <3>1. agreed' = Append(agreed, new)
      BY <2>1, <2>3 DEF Remembered
    <3>2. /\ agreed' \in Seq([link : Link, task : Nat])
          /\ DOMAIN agreed' = DOMAIN agreed \cup {Len(agreed) + 1}
          /\ \A n \in DOMAIN agreed : agreed'[n] = agreed[n]
          /\ agreed'[Len(agreed) + 1] = new
      BY <2>1, <3>1 DEF Records
    <3>. QED  BY <2>3, <3>2 DEF Settled
  <2>. QED  BY <2>2, <2>3
<1>7. agreed' \in Seq([link : Link, task : Nat]) /\ Settled'
  <2>1. CASE s.aborted
    BY <1>1, <1>3, <2>1 DEF Settled, Records
  <2>2. CASE ~s.aborted
    BY <1>3, <1>6, <2>2 DEF Settled
  <2>. QED  BY <2>1, <2>2
<1>8. incident' = None \/ incident' \in Breach
  <2>. DEFINE w == window'[l]
  <2>1. incident' \in {None, Incident("message_latency", P95(w) = 2, l),
                      Incident("abort_rate", FALSE, l),
                      Incident("contract_duration", FALSE, l)}
    BY <1>1 DEF Judge
  <2>2. Incident("message_latency", P95(w) = 2, l) \in Breach
    <3>. DEFINE gross == P95(w) = 2
    <3>1. gross \in BOOLEAN
      BY Zenon
    <3>. HIDE DEF gross
    <3>2. Incident("message_latency", gross, l) \in Breach
      BY <1>2, <3>1, Zenon DEF Incident, Breach
    <3>. QED  BY <3>2, Zenon DEF gross
  <2>3. Incident("abort_rate", FALSE, l) \in Breach
    BY <1>2, Zenon DEF Incident, Breach
  <2>4. Incident("contract_duration", FALSE, l) \in Breach
    BY <1>2, Zenon DEF Incident, Breach
  <2>. QED  BY <2>1, <2>2, <2>3, <2>4, Zenon
<1>9. Records'
  BY <1>3, <1>4, <1>7, <1>8 DEF RunTask, Records
<1>. QED  BY <1>7, <1>9

-----------------------------------------------------------------------------
(* The other steps *)

\* An analysis changes neither the node's tasks nor what it settled at.
LEMMA RecordsStep == IInv /\ [Next]_vars => Records' /\ Settled'
<1>. SUFFICES ASSUME IInv, [Next]_vars PROVE Records' /\ Settled'
  OBVIOUS
<1>. Records /\ Settled
  BY DEF IInv
<1>1. ASSUME UNCHANGED <<task, known>>, draft' \in Draft \cup {None},
             pc' # "idle" => pc # "idle"
      PROVE  Records' /\ Settled'
  BY <1>1 DEF Records, Settled, task
<1>2. CASE UNCHANGED vars
  BY <1>1, <1>2 DEF vars, Records
<1>3. CASE RunTask
  BY <1>3, TaskKeepsRecords
<1>4. CASE KnownAlready \/ Analyze \/ NoAnswer \/ Retry \/ TimedOut \/ Raises
  <2>1. UNCHANGED <<task, known, draft>> /\ pc # "idle"
    BY <1>4 DEF KnownAlready, Analyze, NoAnswer, Retry, TimedOut, Raises
  <2>. QED  BY <1>1, <2>1 DEF Records
<1>5. CASE Answered
  <2>1. PICK a \in Answer : (Grounded(a) /\ draft' = GroundedClaim(a)) \/ draft' = draft
    BY <1>5 DEF Answered
  <2>2. draft' \in Draft \cup {None}
    BY <2>1, GroundedIsOurs DEF Records
  <2>. QED  BY <1>1, <1>5, <2>2 DEF Answered
<1>6. CASE ApplyRules
  <2>1. draft' \in Draft \cup {None}
    <3>1. incident \in Breach
      BY <1>6 DEF ApplyRules, Records
    <3>. QED  BY <1>6, <3>1, RuleClaimIsOurs DEF ApplyRules, Records, IInv, Progress
  <2>. QED  BY <1>1, <1>6, <2>1 DEF ApplyRules
<1>7. CASE Announce
  <2>1. /\ UNCHANGED <<past, window, agreed, incident, draft>> /\ pc' = "idle"
    BY <1>7 DEF Announce, task
  <2>2. known' \in Seq(Known)
    <3>1. CASE known' = known
      BY <3>1 DEF Records
    <3>2. CASE known' # known
      <4>1. PICK id \in OwnIds \ Live, margin \in Margins :
               known' = Append(known, [id |-> id, scope |-> Scope(incident.link),
                                       params |-> draft.params, warm |-> draft.warm,
                                       margin |-> margin, version |-> 1,
                                       status |-> "CANDIDATE"])
        BY <1>7, <3>2 DEF Announce
      <4>2. draft \in Draft /\ incident.link \in Link
        BY <1>7 DEF Announce, Records, IInv, Progress, Breach
      <4>3. [id |-> id, scope |-> Scope(incident.link),
             params |-> draft.params, warm |-> draft.warm,
             margin |-> margin, version |-> 1, status |-> "CANDIDATE"] \in Known
        BY <4>2, DiagnosisAssumption DEF Known, Draft, Statuses
      <4>. QED  BY <4>1, <4>3 DEF Records
    <3>. QED  BY <3>1, <3>2
  <2>. QED  BY <2>1, <2>2 DEF Records, Settled
<1>8. CASE Learn
  <2>1. PICK i \in Foreign : known' = Append(known, i)
    BY <1>8 DEF Learn
  <2>2. i \in Known
    BY DiagnosisAssumption DEF Known
  <2>3. known' \in Seq(Known)
    BY <2>1, <2>2 DEF Records
  <2>. QED  BY <1>8, <2>3 DEF Learn, Forget, Records, Settled, task
<1>9. CASE Decide
  <2>1. PICK n \in DOMAIN known, st \in Statuses : known' = [known EXCEPT ![n].status = st]
    BY <1>9 DEF Decide
  <2>2. [known[n] EXCEPT !.status = st] \in Known
    <3>1. known[n] \in Known
      BY DEF Records
    <3>. QED  BY <3>1 DEF Known
  <2>3. known' \in Seq(Known)
    BY <2>1, <2>2 DEF Records
  <2>. QED  BY <1>9, <2>3 DEF Decide, Forget, Records, Settled, task
<1>. QED  BY <1>2, <1>3, <1>4, <1>5, <1>6, <1>7, <1>8, <1>9 DEF Next

\* What a node learns or announces is new to it; a verdict changes no id.
LEMMA DistinctStep == IInv /\ [Next]_vars => Distinct(known)'
<1>. SUFFICES ASSUME IInv, [Next]_vars PROVE Distinct(known)'
  OBVIOUS
<1>. known \in Seq(Known) /\ Distinct(known)
  BY DEF IInv, Records
<1>1. ASSUME NEW i, i.id \notin Live, known' = Append(known, i) PROVE Distinct(known)'
  <2>1. /\ DOMAIN known' = DOMAIN known \cup {Len(known) + 1}
        /\ \A n \in DOMAIN known : known'[n] = known[n]
        /\ known'[Len(known) + 1] = i
    BY <1>1
  <2>2. \A n \in DOMAIN known : known[n].id # i.id
    BY <1>1 DEF Live
  <2>. QED  BY <2>1, <2>2 DEF Distinct
<1>2. CASE Announce
  BY <1>1, <1>2 DEF Announce, Distinct
<1>3. CASE Learn
  BY <1>1, <1>3 DEF Learn
<1>4. CASE Decide
  <2>1. PICK n \in DOMAIN known, st \in Statuses : known' = [known EXCEPT ![n].status = st]
    BY <1>4 DEF Decide
  <2>2. known[n] \in Known
    OBVIOUS
  <2>3. DOMAIN known' = DOMAIN known /\ \A m \in DOMAIN known : known'[m].id = known[m].id
    BY <2>1, <2>2 DEF Known
  <2>. QED  BY <2>3 DEF Distinct
<1>5. CASE ~Announce /\ ~Learn /\ ~Decide
  <2>1. known' = known
    BY <1>5 DEF Next, RunTask, KnownAlready, Analyze, NoAnswer, Retry, TimedOut, Answered,
                Raises, ApplyRules, vars
  <2>. QED  BY <2>1 DEF Distinct
<1>. QED  BY <1>2, <1>3, <1>4, <1>5

\* The analysis goes from the model to the rules and never back, and stalls
\* at most once on the way.
LEMMA ProgressStep == IInv /\ [Next]_vars => Progress' /\ NeverBlank' /\ ClaimsAreOurs'
<1>. SUFFICES ASSUME IInv, [Next]_vars PROVE Progress' /\ NeverBlank' /\ ClaimsAreOurs'
  OBVIOUS
<1>. Records /\ Settled /\ Progress /\ NeverBlank /\ ClaimsAreOurs
  BY DEF IInv
<1>. RETRIES = 1
  BY DEF RETRIES
<1>1. ASSUME UNCHANGED <<past, draft>> PROVE ClaimsAreOurs'
  BY <1>1 DEF ClaimsAreOurs
<1>2. ASSUME UNCHANGED task PROVE RuleClaim(incident)' = RuleClaim(incident)
  BY <1>2 DEF task, RuleClaim, Settlement, Claim
<1>3. CASE UNCHANGED vars
  BY <1>1, <1>2, <1>3 DEF vars, task, asking, Progress, NeverBlank
<1>4. CASE RunTask
  <2>1. /\ pc' \in {"idle", "incident"} /\ draft' = None /\ wouldDraft' = FALSE
        /\ attempt' = 0 /\ stalls' = 0
    BY <1>4 DEF RunTask
  <2>2. wouldDraft' \in BOOLEAN
    BY <2>1, Zenon
  <2>. QED  BY <2>1, <2>2 DEF Progress, NeverBlank, ClaimsAreOurs
<1>5. CASE KnownAlready
  BY <1>1, <1>5 DEF KnownAlready, task, asking, Progress, NeverBlank
<1>6. CASE Analyze
  <2>1. /\ pc = "incident" /\ pc' \in {"rules", "model"} /\ wouldDraft' \in BOOLEAN
        /\ wouldDraft' => RuleClaim(incident) # None
        /\ UNCHANGED <<task, attempt, stalls, draft>>
    BY <1>6 DEF Analyze, asking
  <2>2. ClaimsAreOurs' /\ RuleClaim(incident)' = RuleClaim(incident)
    BY <1>1, <1>2, <2>1 DEF task
  <2>. QED  BY <2>1, <2>2 DEF Progress, NeverBlank
<1>7. CASE NoAnswer \/ Retry \/ TimedOut
  <2>1. /\ pc = "model" /\ pc' \in {"model", "rules"} /\ UNCHANGED <<task, draft, wouldDraft>>
        /\ attempt' \in {attempt, attempt + 1} /\ stalls' \in {stalls, stalls + 1}
        /\ pc' = "model" => attempt' <= RETRIES /\ stalls' = stalls
        /\ stalls' # stalls => attempt' = attempt + 1
    BY <1>7 DEF NoAnswer, Retry, TimedOut, AfterTimeout, Progress
  <2>2. ClaimsAreOurs' /\ RuleClaim(incident)' = RuleClaim(incident)
    BY <1>1, <1>2, <2>1 DEF task
  <2>. QED  BY <2>1, <2>2 DEF Progress, NeverBlank
<1>8. CASE Answered
  <2>1. PICK a \in Answer :
           \/ Grounded(a) /\ draft' = GroundedClaim(a) /\ pc' = "announce"
           \/ pc' = "rules" /\ draft' = draft
    BY <1>8 DEF Answered, Discarded
  <2>2. /\ pc = "model" /\ attempt' = attempt + 1 /\ UNCHANGED <<task, stalls, wouldDraft>>
    BY <1>8 DEF Answered
  <2>3. RuleClaim(incident)' = RuleClaim(incident) /\ past' = past
    BY <1>2, <2>2 DEF task
  <2>4. CASE Grounded(a) /\ draft' = GroundedClaim(a) /\ pc' = "announce"
    <3>1. ClaimsAreOurs' /\ draft' # None
      BY <2>3, <2>4, GroundedIsOurs DEF ClaimsAreOurs
    <3>. QED  BY <2>2, <2>4, <3>1 DEF Progress, NeverBlank
  <2>5. CASE pc' = "rules" /\ draft' = draft
    BY <1>1, <2>2, <2>3, <2>5 DEF Progress, NeverBlank
  <2>. QED  BY <2>1, <2>4, <2>5
<1>9. CASE Raises
  BY <1>1, <1>9 DEF Raises, task, Progress, NeverBlank
<1>10. CASE ApplyRules
  <2>1. UNCHANGED <<past, attempt, stalls, wouldDraft>> /\ pc = "rules" /\ incident \in Breach
    BY <1>10 DEF ApplyRules, task, asking, Records
  <2>2. CASE wouldDraft /\ draft' = RuleClaim(incident) /\ pc' = "announce"
    <3>1. draft' # None
      BY <2>1, <2>2 DEF Progress
    <3>2. ClaimsAreOurs'
      BY <2>1, <2>2, <3>1, RuleClaimIsOurs DEF ClaimsAreOurs
    <3>. QED  BY <2>1, <2>2, <3>1, <3>2 DEF Progress, NeverBlank
  <2>3. CASE ~wouldDraft /\ pc' = "idle" /\ draft' = draft
    BY <1>1, <2>1, <2>3 DEF Progress, NeverBlank
  <2>. QED  BY <1>10, <2>2, <2>3 DEF ApplyRules
<1>11. CASE Announce
  BY <1>1, <1>11 DEF Announce, task, asking, Progress, NeverBlank
<1>12. CASE Learn \/ Decide
  <2>1. /\ pc = "idle" /\ pc' = "idle" /\ draft' = None /\ wouldDraft' = FALSE
        /\ attempt' = 0 /\ stalls' = 0
    BY <1>12 DEF Learn, Decide, Forget
  <2>2. wouldDraft' \in BOOLEAN
    BY <2>1, Zenon
  <2>. QED  BY <2>1, <2>2 DEF Progress, NeverBlank, ClaimsAreOurs
<1>. QED  BY <1>3, <1>4, <1>5, <1>6, <1>7, <1>8, <1>9, <1>10, <1>11, <1>12 DEF Next

-----------------------------------------------------------------------------
(* The theorems *)

LEMMA InitIInv == Init => IInv
<1>. SUFFICES ASSUME Init PROVE IInv
  OBVIOUS
<1>1. \A S : <<>> \in Seq(S)
  OBVIOUS
<1>2. Records
  <2>1. \A l \in Link : window[l] = <<>> /\ Len(window[l]) <= WINDOW
    BY DiagnosisAssumption DEF Init
  <2>. QED  BY <1>1, <2>1 DEF Init, Records
<1>3. Settled /\ Distinct(known)
  BY DEF Init, Settled, Distinct
<1>4. Progress
  <2>1. wouldDraft \in BOOLEAN
    BY Zenon DEF Init
  <2>. QED  BY <2>1 DEF Init, Progress, RETRIES
<1>5. NeverBlank /\ ClaimsAreOurs
  BY DEF Init, NeverBlank, ClaimsAreOurs
<1>. QED  BY <1>2, <1>3, <1>4, <1>5 DEF IInv

\* IInv holds in every reachable state.
THEOREM Inductive == Spec => []IInv
<1>1. IInv /\ [Next]_vars => IInv'
  BY RecordsStep, DistinctStep, ProgressStep DEF IInv
<1>. QED  BY <1>1, InitIInv, PTL DEF Spec

\* The variables keep their types, windows their bound, and a link its one
\* settlement.
THEOREM TypeCorrect == Spec => []TypeOK
<1>1. IInv => TypeOK
  <2>. SUFFICES ASSUME IInv PROVE TypeOK
    OBVIOUS
  <2>1. \A n \in DOMAIN past : past[n].ctx \in Context /\ past[n].sample \in Sample
    <3>1. past \in Seq([ctx : Context, sample : Sample])
      BY DEF IInv, Records
    <3>2. \A n \in DOMAIN past : past[n] \in [ctx : Context, sample : Sample]
      <4>1. DOMAIN past = 1..Len(past)
        BY <3>1
      <4>. QED  BY <3>1, <4>1, ElementOfSeq, Zenon
    <3>. QED  BY <3>2
  <2>2. \A l \in Link : Len(window[l]) <= WINDOW /\ Range(window[l]) \subseteq Sample
    <3>1. \A l \in Link : window[l] \in Seq(Sample)
      BY DEF IInv, Records
    <3>2. \A l \in Link : \A i \in DOMAIN window[l] : window[l][i] \in Sample
      BY <3>1
    <3>. QED  BY <3>2 DEF IInv, Records, Range
  <2>3. \A n \in DOMAIN agreed : agreed[n] \in [link : Link, task : DOMAIN past]
    <3>1. agreed \in Seq([link : Link, task : Nat])
      BY DEF IInv, Records
    <3>2. \A n \in DOMAIN agreed : agreed[n] \in [link : Link, task : Nat]
      <4>1. DOMAIN agreed = 1..Len(agreed)
        BY <3>1
      <4>. QED  BY <3>1, <4>1, ElementOfSeq, Zenon
    <3>. QED  BY <3>2 DEF IInv, Settled
  <2>4. \A n \in DOMAIN known : known[n].status \in Statuses
    <3>1. \A n \in DOMAIN known : known[n] \in Known
      BY DEF IInv, Records
    <3>. QED  BY <3>1 DEF Known
  <2>. QED  BY <2>1, <2>2, <2>3, <2>4 DEF IInv, Settled, Progress, TypeOK
<1>. QED  BY <1>1, Inductive, PTL

\* The model may only add: whatever it answers, and however often it fails to,
\* a claim that the rules have and that replays is submitted.
THEOREM ModelOnlyAdds == Spec => []NeverBlank
<1>1. IInv => NeverBlank
  BY DEF IInv
<1>. QED  BY <1>1, Inductive, PTL

\* Whoever thought of it, a claim stays within the bounds and warm-starts from
\* a point this node has settled at.
THEOREM ClaimsAreGrounded == Spec => []ClaimsAreOurs
<1>1. IInv => ClaimsAreOurs
  BY DEF IInv
<1>. QED  BY <1>1, Inductive, PTL

\* Replicas that know the same insights configure a task the same, whatever
\* the order in which they learned them, for every number of insights.
THEOREM ReplicasAgree == Spec => []SameOnEveryReplica
<1>1. IInv => SameOnEveryReplica
  <2>. SUFFICES ASSUME IInv,
                       NEW order \in [DOMAIN known -> DOMAIN known], IsInjective(order),
                       NEW ctx \in Context
                PROVE  Active(Reordered(known, order), ctx) = Active(known, ctx)
    BY DEF SameOnEveryReplica, Reordered
  <2>1. /\ known \in Seq(Known) /\ Distinct(known)
        /\ DOMAIN known = 1..Len(known) /\ Len(known) \in Nat
    BY DEF IInv, Records
  <2>2. \A n \in DOMAIN known : known[n] \in Known
    BY <2>1
  <2>3. Numbered(known)
    BY <2>2 DEF Numbered, Known
  <2>. QED  BY <2>1, <2>3, ActiveIgnoresOrder
<1>. QED  BY <1>1, Inductive, PTL

-----------------------------------------------------------------------------
(* Percentiles are counts *)

\* The smallest value that at least 95% reach is over a level if, and only if,
\* more than one in twenty is.
LEMMA RankCounts ==
    ASSUME NEW n \in Nat, n > 0, NEW c \in 0..n
    PROVE  /\ n - c < Rank(n) <=> 20 * c > n
           /\ n >= Rank(n)
  BY DEF Rank

\* A sample names finitely many messages at the levels one asks for.
LEMMA SentIsFinite ==
    ASSUME NEW s \in Sample, NEW L \in SUBSET Level
    PROVE  IsFiniteSet(Sent(s, L))
<1>. DEFINE Of(l) == {l} \X (1..s.lat[l])
            F == [l \in L |-> Of(l)]
            parts == {Of(l) : l \in L}
<1>1. ASSUME NEW l \in L PROVE IsFiniteSet(Of(l))
  <2>1. 1 \in Int /\ s.lat[l] \in Int
    BY DiagnosisAssumption
  <2>. QED  BY <2>1, FS_Interval, FS_Singleton, FS_Product
<1>2. IsFiniteSet(L)
  <2>1. 0 \in Int /\ 2 \in Int
    OBVIOUS
  <2>. QED  BY <2>1, FS_Interval, FS_Subset DEF Level
<1>3. F \in Surjection(L, parts)
  <2>. HIDE DEF Of
  <2>. QED  BY DEF Surjection
<1>. HIDE DEF Of, F
<1>4. \A t \in parts : IsFiniteSet(t)
  BY <1>1
<1>5. IsFiniteSet(UNION parts)
  <2>. HIDE DEF parts
  <2>. QED  BY <1>2, <1>3, <1>4, FS_Surjection, FS_UNION
<1>. QED  BY <1>5 DEF Of, Sent

\* So does a window of samples.
LEMMA MessagesAreFinite ==
    ASSUME NEW w \in Seq(Sample), NEW L \in SUBSET Level
    PROVE  IsFiniteSet(Messages(w, L)) /\ Count(w, L) \in Nat
<1>. DEFINE Of(i) == {i} \X Sent(w[i], L)
            F == [i \in DOMAIN w |-> Of(i)]
            parts == {Of(i) : i \in DOMAIN w}
<1>1. ASSUME NEW i \in DOMAIN w PROVE IsFiniteSet(Of(i))
  <2>1. w[i] \in Sample
    OBVIOUS
  <2>. QED  BY <2>1, SentIsFinite, FS_Singleton, FS_Product
<1>2. IsFiniteSet(DOMAIN w)
  <2>1. DOMAIN w = 1..Len(w) /\ Len(w) \in Int /\ 1 \in Int
    OBVIOUS
  <2>. QED  BY <2>1, FS_Interval
<1>3. F \in Surjection(DOMAIN w, parts)
  <2>. HIDE DEF Of
  <2>. QED  BY DEF Surjection
<1>. HIDE DEF Of, F
<1>4. \A t \in parts : IsFiniteSet(t)
  BY <1>1
<1>5. IsFiniteSet(UNION parts)
  <2>. HIDE DEF parts
  <2>. QED  BY <1>2, <1>3, <1>4, FS_Surjection, FS_UNION
<1>. QED  BY <1>5, FS_CardinalityType DEF Of, Messages, Count

\* Level by level, the messages of a window.
LEMMA CountFacts ==
    ASSUME NEW w \in Seq(Sample)
    PROVE  /\ \A L \in SUBSET Level : IsFiniteSet(Messages(w, L)) /\ Count(w, L) \in Nat
           /\ Count(w, 0..0) = Count(w, Level) - Count(w, 1..2)
           /\ Count(w, 0..1) = Count(w, Level) - Count(w, 2..2)
           /\ Count(w, 2..2) <= Count(w, 1..2) /\ Count(w, 1..2) <= Count(w, Level)
<1>1. ASSUME NEW L \in SUBSET Level
      PROVE  IsFiniteSet(Messages(w, L)) /\ Count(w, L) \in Nat
  BY MessagesAreFinite
<1>2. ASSUME NEW L \in SUBSET Level, NEW K \in SUBSET Level, L \cap K = {}, L \cup K = Level
      PROVE  /\ Count(w, L) = Count(w, Level) - Count(w, K)
             /\ Count(w, K) <= Count(w, Level)
  <2>1. Messages(w, L) \cap Messages(w, K) = {}
    BY <1>2 DEF Messages, Sent
  <2>2. Messages(w, L) \cup Messages(w, K) = Messages(w, Level)
    BY <1>2 DEF Messages, Sent
  <2>3. Count(w, Level) = Count(w, L) + Count(w, K) - Cardinality({})
    BY <1>1, <2>1, <2>2, FS_Union DEF Count
  <2>4. Count(w, L) \in Nat /\ Count(w, K) \in Nat /\ Cardinality({}) = 0
    BY <1>1, FS_EmptySet
  <2>. QED  BY <2>3, <2>4
<1>3. /\ 0..0 \in SUBSET Level /\ 1..2 \in SUBSET Level /\ 0..1 \in SUBSET Level
      /\ 2..2 \in SUBSET Level /\ Level \in SUBSET Level
  BY DEF Level
<1>4. /\ Count(w, 0..0) = Count(w, Level) - Count(w, 1..2)
      /\ Count(w, 1..2) <= Count(w, Level)
  <2>1. (0..0) \cap (1..2) = {} /\ (0..0) \cup (1..2) = Level
    BY DEF Level
  <2>. QED  BY <1>2, <1>3, <2>1
<1>5. Count(w, 0..1) = Count(w, Level) - Count(w, 2..2)
  <2>1. (0..1) \cap (2..2) = {} /\ (0..1) \cup (2..2) = Level
    BY DEF Level
  <2>. QED  BY <1>2, <1>3, <2>1
<1>6. Count(w, 2..2) <= Count(w, 1..2)
  <2>1. Messages(w, 2..2) \subseteq Messages(w, 1..2)
    BY DEF Messages, Sent
  <2>. QED  BY <1>1, <1>3, <2>1, FS_Subset DEF Count
<1>. QED  BY <1>1, <1>4, <1>5, <1>6

\* The least element of a set of numbers is the one nothing is below.
LEMMA MinIs ==
    ASSUME NEW S, S \subseteq Int, NEW m \in S, \A y \in S : m <= y
    PROVE  Min(S) = m
<1>1. \A x \in S : (\A y \in S : x <= y) => x = m
  OBVIOUS
<1>. QED  BY <1>1 DEF Min

\* The percentile of a window is a level, and which one is a matter of shares.
LEMMA PercentileIsShare ==
    ASSUME NEW w \in Seq(Sample)
    PROVE  /\ P95(w) > 0 <=> Share(Count(w, 1..2), 20, Count(w, Level))
           /\ P95(w) = 2 <=> Share(Count(w, 2..2), 20, Count(w, Level))
           /\ P95(w) = 2 => P95(w) > 0
<1>. DEFINE n == Count(w, Level)
            a == Count(w, 1..2)
            b == Count(w, 2..2)
<1>1. /\ n \in Nat /\ a \in Nat /\ b \in Nat /\ b <= a /\ a <= n
      /\ Count(w, 0..0) = n - a /\ Count(w, 0..1) = n - b
  <2>1. 1..2 \in SUBSET Level /\ 2..2 \in SUBSET Level /\ Level \in SUBSET Level
    BY DEF Level
  <2>. QED  BY <2>1, CountFacts
<1>2. Messages(w, Level) = {} <=> n = 0
  <2>1. IsFiniteSet(Messages(w, Level))
    BY CountFacts
  <2>. QED  BY <2>1, FS_EmptySet DEF Count
<1>3. CASE n = 0
  <2>1. P95(w) = 0
    BY <1>2, <1>3 DEF P95
  <2>2. a = 0 /\ b = 0
    BY <1>1, <1>3
  <2>. HIDE DEF n, a, b
  <2>. QED  BY <1>3, <2>1 DEF Share, n, a, b
<1>4. CASE n > 0
  <2>. DEFINE S == {l \in Level : Count(w, 0..l) >= Rank(n)}
  <2>1. P95(w) = Min(S)
    BY <1>2, <1>4 DEF P95
  <2>2. /\ n - a < Rank(n) <=> 20 * a > n
        /\ n - b < Rank(n) <=> 20 * b > n
        /\ n >= Rank(n) /\ Rank(n) \in Int
    <3>1. a \in 0..n /\ b \in 0..n
      BY <1>1
    <3>2. Rank(n) \in Int
      BY <1>1 DEF Rank
    <3>. HIDE DEF n, a, b
    <3>. QED  BY <1>1, <1>4, <3>1, <3>2, RankCounts
  <2>3. /\ 0 \in S <=> ~(20 * a > n)
        /\ 1 \in S <=> ~(20 * b > n)
        /\ 2 \in S
        /\ S \subseteq {0, 1, 2}
    <3>1. Level = {0, 1, 2} /\ 0..2 = Level
      BY DEF Level
    <3>. HIDE DEF n, a, b
    <3>. QED  BY <1>1, <2>2, <3>1 DEF n
  <2>. HIDE DEF S, n, a, b
  <2>4. CASE 0 \in S
    <3>1. Min(S) = 0
      <4>1. S \subseteq Int /\ 0 \in S /\ \A y \in S : 0 <= y
        BY <2>3, <2>4
      <4>. QED  BY <4>1, MinIs
    <3>. QED  BY <1>1, <2>1, <2>3, <2>4, <3>1 DEF Share, n, a, b
  <2>5. CASE 0 \notin S /\ 1 \in S
    <3>1. Min(S) = 1
      <4>1. S \subseteq Int /\ 1 \in S /\ \A y \in S : 1 <= y
        BY <2>3, <2>5
      <4>. QED  BY <4>1, MinIs
    <3>. QED  BY <1>1, <1>4, <2>1, <2>3, <2>5, <3>1 DEF Share, n, a, b
  <2>6. CASE 0 \notin S /\ 1 \notin S
    <3>1. Min(S) = 2
      <4>1. S \subseteq Int /\ 2 \in S /\ \A y \in S : 2 <= y
        BY <2>3, <2>6
      <4>. QED  BY <4>1, MinIs
    <3>. QED  BY <1>1, <1>4, <2>1, <2>3, <2>6, <3>1 DEF Share, n, a, b
  <2>. QED  BY <2>4, <2>5, <2>6
<1>. QED  BY <1>1, <1>3, <1>4

\* More than one task in twenty was slow.
LEMMA SlowIsShare ==
    ASSUME NEW w \in Seq(Sample), Len(w) > 0
    PROVE  /\ Slow(w) <=> Share(Cardinality({i \in DOMAIN w : w[i].slow}), 20, Len(w))
           /\ Aborts(w) \in Nat
<1>. DEFINE S == {i \in DOMAIN w : w[i].slow}
            Q == {i \in DOMAIN w : ~w[i].slow}
<1>1. IsFiniteSet(DOMAIN w) /\ Cardinality(DOMAIN w) = Len(w) /\ Len(w) \in Nat
  <2>1. DOMAIN w = 1..Len(w) /\ Len(w) \in Int /\ 1 \in Int /\ Len(w) \in Nat
    OBVIOUS
  <2>. QED  BY <2>1, FS_Interval
<1>2. /\ IsFiniteSet(S) /\ Cardinality(S) \in Nat /\ Cardinality(S) <= Len(w)
      /\ IsFiniteSet(Q) /\ Cardinality(Q) = Len(w) - Cardinality(S)
  <2>1. S \in SUBSET DOMAIN w /\ Q = (DOMAIN w) \ S /\ (DOMAIN w) \cap S = S
    OBVIOUS
  <2>. HIDE DEF S, Q
  <2>2. IsFiniteSet(S) /\ Cardinality(S) <= Len(w)
    BY <1>1, <2>1, FS_Subset
  <2>3. IsFiniteSet(Q) /\ Cardinality(Q) = Len(w) - Cardinality(S)
    <3>1. IsFiniteSet((DOMAIN w) \ S)
      BY <1>1, <2>1, FS_Subset
    <3>2. Cardinality((DOMAIN w) \ S) = Cardinality(DOMAIN w) - Cardinality((DOMAIN w) \cap S)
      BY <1>1, FS_Difference
    <3>. QED  BY <1>1, <2>1, <3>1, <3>2
  <2>. QED  BY <2>2, <2>3, FS_CardinalityType
<1>3. Slow(w) <=> Cardinality(Q) < Rank(Len(w))
  BY DEF Slow
<1>4. Aborts(w) \in Nat
  <2>1. {i \in DOMAIN w : w[i].aborted} \in SUBSET DOMAIN w
    OBVIOUS
  <2>. QED  BY <1>1, <2>1, FS_Subset, FS_CardinalityType DEF Aborts
<1>5. Slow(w) <=> 20 * Cardinality(S) > Len(w)
  <2>1. Cardinality(S) \in 0..Len(w)
    BY <1>1, <1>2
  <2>. HIDE DEF S, Q
  <2>. QED  BY <1>1, <1>2, <1>3, <2>1, RankCounts
<1>. QED  BY <1>4, <1>5 DEF Share

-----------------------------------------------------------------------------
(* A window holds the last tasks of its link quality *)

\* Positions of past, in order, and what was measured there.
Mirrors(w, f) == \A i \in DOMAIN w : /\ w[i] = past[f[i]].sample
                                     /\ \A j \in DOMAIN w : i < j => f[i] < f[j]

\* The window of a link quality holds what its last WINDOW tasks measured, in
\* order, and none of any other link quality.
WindowIsRecent ==
    \A l \in Link : \E f \in Bijection(DOMAIN window[l], Recent(l)) : Mirrors(window[l], f)

\* A one-to-one correspondence keeps the count.
LEMMA BijectionCounts ==
    ASSUME NEW S, NEW T, IsFiniteSet(S), NEW f \in [S -> T],
           \A x, y \in S : f[x] = f[y] => x = y,
           \A z \in T : \E x \in S : f[x] = z
    PROVE  f \in Bijection(S, T) /\ IsFiniteSet(T) /\ Cardinality(T) = Cardinality(S)
<1>1. f \in Bijection(S, T)
  BY DEF Bijection, Injection, Surjection, IsInjective
<1>. QED  BY <1>1, FS_Bijection DEF ExistsBijection

\* So the shares of a window are those of these tasks.
LEMMA MirrorCounts ==
    ASSUME NEW w \in Seq(Sample), NEW R, NEW f \in Bijection(DOMAIN w, R), Mirrors(w, f)
    PROVE  /\ IsFiniteSet(R) /\ Cardinality(R) = Len(w)
           /\ \A k \in Level : Over(R, k) = Count(w, k..2)
           /\ Cardinality({n \in R : past[n].sample.aborted}) = Aborts(w)
           /\ Cardinality({n \in R : past[n].sample.slow})
                 = Cardinality({i \in DOMAIN w : w[i].slow})
<1>1. /\ f \in [DOMAIN w -> R]
      /\ \A x, y \in DOMAIN w : f[x] = f[y] => x = y
      /\ \A z \in R : \E x \in DOMAIN w : f[x] = z
      /\ \A i \in DOMAIN w : w[i] = past[f[i]].sample
  BY DEF Bijection, Injection, Surjection, IsInjective, Mirrors
<1>2. IsFiniteSet(DOMAIN w) /\ Cardinality(DOMAIN w) = Len(w)
  <2>1. DOMAIN w = 1..Len(w) /\ Len(w) \in Int /\ 1 \in Int /\ Len(w) \in Nat
    OBVIOUS
  <2>. QED  BY <2>1, FS_Interval
<1>3. IsFiniteSet(R) /\ Cardinality(R) = Len(w)
  BY <1>1, <1>2, BijectionCounts
<1>4. ASSUME NEW D \in SUBSET DOMAIN w, NEW T \in SUBSET R,
             \A i \in DOMAIN w : i \in D <=> f[i] \in T
      PROVE  Cardinality(T) = Cardinality(D)
  <2>. DEFINE g == [i \in D |-> f[i]]
  <2>1. g \in [D -> T] /\ \A i \in D : g[i] = f[i]
    BY <1>1, <1>4
  <2>. HIDE DEF g
  <2>2. IsFiniteSet(D)
    BY <1>2, FS_Subset
  <2>3. \A x, y \in D : g[x] = g[y] => x = y
    BY <1>1, <2>1
  <2>4. \A z \in T : \E x \in D : g[x] = z
    BY <1>1, <1>4, <2>1
  <2>. QED  BY <2>1, <2>2, <2>3, <2>4, BijectionCounts
<1>5. Cardinality({n \in R : past[n].sample.aborted}) = Aborts(w)
  <2>. DEFINE D == {i \in DOMAIN w : w[i].aborted}
              T == {n \in R : past[n].sample.aborted}
  <2>1. D \in SUBSET DOMAIN w /\ T \in SUBSET R /\ \A i \in DOMAIN w : i \in D <=> f[i] \in T
    BY <1>1
  <2>. HIDE DEF D, T
  <2>2. Cardinality(T) = Cardinality(D)
    BY <1>4, <2>1
  <2>. QED  BY <2>2 DEF D, T, Aborts
<1>6. Cardinality({n \in R : past[n].sample.slow})
         = Cardinality({i \in DOMAIN w : w[i].slow})
  <2>. DEFINE D == {i \in DOMAIN w : w[i].slow}
              T == {n \in R : past[n].sample.slow}
  <2>1. D \in SUBSET DOMAIN w /\ T \in SUBSET R /\ \A i \in DOMAIN w : i \in D <=> f[i] \in T
    BY <1>1
  <2>. HIDE DEF D, T
  <2>2. Cardinality(T) = Cardinality(D)
    BY <1>4, <2>1
  <2>. QED  BY <2>2 DEF D, T
<1>7. ASSUME NEW k \in Level PROVE Over(R, k) = Count(w, k..2)
  <2>. DEFINE M == Messages(w, k..2)
              N == UNION {{n} \X Sent(past[n].sample, k..2) : n \in R}
              g == [m \in M |-> <<f[m[1]], m[2]>>]
  <2>1. \A m : m \in M <=> /\ m = <<m[1], m[2]>> /\ m[1] \in DOMAIN w
                            /\ m[2] \in Sent(w[m[1]], k..2)
    BY DEF Messages
  <2>2. \A m : m \in N <=> /\ m = <<m[1], m[2]>> /\ m[1] \in R
                            /\ m[2] \in Sent(past[m[1]].sample, k..2)
    OBVIOUS
  <2>3. IsFiniteSet(M)
    <3>1. k..2 \in SUBSET Level
      BY DEF Level
    <3>. QED  BY <3>1, MessagesAreFinite
  <2>4. \A m \in M : g[m] = <<f[m[1]], m[2]>> /\ DOMAIN g = M
    OBVIOUS
  <2>. HIDE DEF M, N
  <2>5. g \in [M -> N]
    <3>1. \A m \in M : <<f[m[1]], m[2]>> \in N
      <4>1. ASSUME NEW m \in M PROVE <<f[m[1]], m[2]>> \in N
        <5>1. m[1] \in DOMAIN w /\ m[2] \in Sent(w[m[1]], k..2)
          BY <2>1
        <5>2. f[m[1]] \in R /\ w[m[1]] = past[f[m[1]]].sample
          BY <1>1, <5>1
        <5>. QED  BY <2>2, <5>1, <5>2
      <4>. QED  BY <4>1
    <3>. QED  BY <3>1
  <2>. HIDE DEF g
  <2>6. ASSUME NEW x \in M, NEW y \in M, g[x] = g[y] PROVE x = y
    <3>1. f[x[1]] = f[y[1]] /\ x[2] = y[2]
      BY <2>4, <2>6
    <3>2. x[1] \in DOMAIN w /\ y[1] \in DOMAIN w /\ x = <<x[1], x[2]>> /\ y = <<y[1], y[2]>>
      BY <2>1
    <3>. QED  BY <1>1, <3>1, <3>2
  <2>7. ASSUME NEW z \in N PROVE \E x \in M : g[x] = z
    <3>1. z = <<z[1], z[2]>> /\ z[1] \in R /\ z[2] \in Sent(past[z[1]].sample, k..2)
      BY <2>2
    <3>2. PICK i \in DOMAIN w : f[i] = z[1]
      BY <1>1, <3>1
    <3>3. w[i] = past[z[1]].sample
      BY <1>1, <3>2
    <3>4. <<i, z[2]>> \in M
      BY <2>1, <3>1, <3>2, <3>3
    <3>. QED  BY <2>4, <3>1, <3>2, <3>4
  <2>8. Cardinality(N) = Cardinality(M)
    BY <2>3, <2>5, <2>6, <2>7, BijectionCounts
  <2>. QED  BY <2>8 DEF M, N, Over, Count
<1>. QED  BY <1>3, <1>5, <1>6, <1>7

\* The tasks of a link quality, and how many came after the n-th task.
All(l)      == {n \in DOMAIN past : past[n].ctx.link = l}
Newer(l, n) == {m \in All(l) : m > n}

\* A window full or not, the tasks it mirrors are the last ones of their kind.
LEMMA RecentFacts ==
    ASSUME Records, NEW l \in Link
    PROVE  /\ IsFiniteSet(All(l))
           /\ \A n \in DOMAIN past : IsFiniteSet(Newer(l, n)) /\ Cardinality(Newer(l, n)) \in Nat
           /\ Recent(l) = {n \in All(l) : Cardinality(Newer(l, n)) < WINDOW}
           /\ \A n \in Recent(l) : Newer(l, n) = {m \in Recent(l) : m > n}
           /\ \A n \in Recent(l) : Newer(l, n) \subseteq Recent(l) \ {n}
<1>1. DOMAIN past = 1..Len(past) /\ Len(past) \in Nat
  BY DEF Records
<1>2. IsFiniteSet(All(l))
  <2>1. IsFiniteSet(1..Len(past)) /\ All(l) \in SUBSET (1..Len(past))
    BY <1>1, FS_Interval DEF All
  <2>. QED  BY <2>1, FS_Subset
<1>3. ASSUME NEW n \in DOMAIN past
      PROVE  IsFiniteSet(Newer(l, n)) /\ Cardinality(Newer(l, n)) \in Nat
  <2>1. Newer(l, n) \in SUBSET All(l)
    BY DEF Newer
  <2>. QED  BY <1>2, <2>1, FS_Subset, FS_CardinalityType
<1>4. Recent(l) = {n \in All(l) : Cardinality(Newer(l, n)) < WINDOW}
  BY DEF Recent, All, Newer
<1>5. ASSUME NEW n \in Recent(l), NEW m \in Newer(l, n) PROVE m \in Recent(l) /\ m > n
  <2>1. n \in DOMAIN past /\ m \in DOMAIN past /\ m \in All(l) /\ m > n
    BY <1>4 DEF Newer, All
  <2>2. Newer(l, m) \in SUBSET Newer(l, n)
    BY <1>1, <2>1 DEF Newer, All
  <2>3. Cardinality(Newer(l, m)) <= Cardinality(Newer(l, n))
    BY <1>3, <2>1, <2>2, FS_Subset
  <2>4. Cardinality(Newer(l, n)) < WINDOW
    BY <1>4
  <2>5. Cardinality(Newer(l, m)) < WINDOW
    BY <1>3, <2>1, <2>3, <2>4, DiagnosisAssumption
  <2>. QED  BY <1>4, <2>1, <2>5
<1>6. \A n \in Recent(l) : n \in Nat /\ Recent(l) \subseteq All(l)
  BY <1>1, <1>4 DEF All
<1>7. \A n \in Recent(l) : Newer(l, n) = {m \in Recent(l) : m > n}
  <2>1. ASSUME NEW n \in Recent(l), NEW m \in Recent(l), m > n PROVE m \in Newer(l, n)
    BY <1>6, <2>1 DEF Newer
  <2>. QED  BY <1>5, <2>1 DEF Newer
<1>8. \A n \in Recent(l) : Newer(l, n) \subseteq Recent(l) \ {n}
  BY <1>5, <1>6
<1>. QED  BY <1>2, <1>3, <1>4, <1>7, <1>8

\* The task just run is the newest of its link quality; it makes every other
\* one older by one, and leaves those of the other link qualities alone.
LEMMA RecentNext ==
    ASSUME Records, NEW ctx \in Context, NEW s \in Sample, NEW l \in Link, l = ctx.link,
           past' = Append(past, [ctx |-> ctx, sample |-> s])
    PROVE  LET N == Len(past) + 1 IN
           /\ N \notin Recent(l)
           /\ Recent(l)' = {N} \cup {n \in All(l) : Cardinality(Newer(l, n)) + 1 < WINDOW}
           /\ \A k \in Link \ {l} : Recent(k)' = Recent(k)
           /\ \A n \in DOMAIN past : past'[n] = past[n] /\ n < N /\ n \in Nat
           /\ past'[N].sample = s
<1>. DEFINE N == Len(past) + 1
<1>1. /\ DOMAIN past = 1..Len(past) /\ Len(past) \in Nat
      /\ past \in Seq([ctx : Context, sample : Sample])
  BY DEF Records
<1>2. /\ DOMAIN past' = DOMAIN past \cup {N} /\ N \notin DOMAIN past
      /\ \A n \in DOMAIN past : past'[n] = past[n] /\ n < N /\ n \in Nat
      /\ past'[N] = [ctx |-> ctx, sample |-> s]
      /\ N \in Nat
  BY <1>1
<1>. HIDE DEF N
<1>4. ASSUME NEW k \in Link, k # l PROVE Recent(k)' = Recent(k)
  <2>1. All(k)' = All(k)
    BY <1>2, <1>4 DEF All
  <2>. QED  BY <2>1 DEF All, Recent
<1>5. All(l)' = All(l) \cup {N}
  BY <1>2 DEF All
<1>6. N \notin All(l) /\ \A n \in All(l) : n \in DOMAIN past
  BY <1>2 DEF All
<1>7. /\ {m \in All(l)' : m > N} = {}
      /\ \A n \in All(l) : {m \in All(l)' : m > n} = Newer(l, n) \cup {N}
  <2>1. \A n \in All(l) : n < N /\ n \in Nat /\ ~(n > N) /\ N > n
    BY <1>2, <1>6
  <2>2. ~(N > N)
    BY <1>2
  <2>. QED  BY <1>5, <2>1, <2>2 DEF Newer
<1>8. ASSUME NEW n \in All(l)
      PROVE  Cardinality({m \in All(l)' : m > n}) = Cardinality(Newer(l, n)) + 1
  <2>1. N \notin Newer(l, n) /\ IsFiniteSet(Newer(l, n))
    BY <1>6, RecentFacts DEF Newer
  <2>. QED  BY <1>7, <2>1, FS_AddElement
<1>9. Recent(l)' = {n \in All(l)' : Cardinality({m \in All(l)' : m > n}) < WINDOW}
  BY DEF Recent, All
<1>10. Recent(l)' = {N} \cup {n \in All(l) : Cardinality(Newer(l, n)) + 1 < WINDOW}
  <2>1. Cardinality({m \in All(l)' : m > N}) < WINDOW
    <3>1. Cardinality({}) = 0 /\ 0 < WINDOW
      BY FS_EmptySet, DiagnosisAssumption
    <3>. QED  BY <1>7, <3>1
  <2>. QED  BY <1>5, <1>8, <1>9, <2>1
<1>11. N \notin Recent(l)
  BY <1>6, RecentFacts
<1>. QED  BY <1>2, <1>4, <1>10, <1>11 DEF N

\* A window that takes in the task just run still mirrors the last tasks.
LEMMA WindowNext ==
    ASSUME Records, WindowIsRecent, NEW ctx \in Context, NEW s \in Sample,
           NEW l \in Link, l = ctx.link,
           past' = Append(past, [ctx |-> ctx, sample |-> s]),
           window' = Windowed(l, s), window'[l] \in Seq(Sample)
    PROVE  \E g \in Bijection(DOMAIN window'[l], Recent(l)') : Mirrors(window[l], g)'
<1>1. PICK N \in Nat : N = Len(past) + 1
  BY DEF Records
<1>2. /\ N \notin Recent(l)
      /\ Recent(l)' = {N} \cup {n \in All(l) : Cardinality(Newer(l, n)) + 1 < WINDOW}
      /\ \A n \in DOMAIN past : past'[n] = past[n] /\ n < N /\ n \in Nat
      /\ past'[N].sample = s
  BY <1>1, RecentNext
<1>3. PICK f \in Bijection(DOMAIN window[l], Recent(l)) : Mirrors(window[l], f)
  BY DEF WindowIsRecent
<1>. DEFINE w == window[l]
            k == Len(window[l])
<1>4. /\ w \in Seq(Sample) /\ DOMAIN w = 1..k /\ k \in Nat /\ k <= WINDOW
      /\ f \in [1..k -> Recent(l)]
      /\ \A z \in Recent(l) : \E x \in 1..k : f[x] = z
      /\ \A i \in 1..k : w[i] = past[f[i]].sample /\ \A j \in 1..k : i < j => f[i] < f[j]
      /\ WINDOW \in Nat /\ WINDOW > 0
  <2>1. w \in Seq(Sample) /\ k <= WINDOW /\ WINDOW \in Nat /\ WINDOW > 0
    BY DiagnosisAssumption DEF Records
  <2>2. DOMAIN w = 1..k /\ k \in Nat
    BY <2>1
  <2>3. /\ f \in [DOMAIN w -> Recent(l)]
        /\ \A z \in Recent(l) : \E x \in DOMAIN w : f[x] = z
    BY <1>3 DEF Bijection, Injection, Surjection
  <2>4. \A i \in DOMAIN w : /\ w[i] = past[f[i]].sample
                            /\ \A j \in DOMAIN w : i < j => f[i] < f[j]
    BY <1>3 DEF Mirrors
  <2>. HIDE DEF w, k
  <2>. QED  BY <2>1, <2>2, <2>3, <2>4
<1>5. IsFiniteSet(Recent(l)) /\ Cardinality(Recent(l)) = k
  BY <1>3, <1>4, MirrorCounts
<1>6. /\ Recent(l) \subseteq All(l) /\ All(l) \subseteq DOMAIN past
      /\ \A n \in Recent(l) : n \in Nat /\ n < N
  <2>1. Recent(l) \subseteq All(l) /\ All(l) \subseteq DOMAIN past
    BY DEF Recent, All
  <2>. QED  BY <1>2, <2>1
<1>7. ASSUME NEW n \in Recent(l)
      PROVE  /\ IsFiniteSet(Recent(l) \ {n}) /\ Cardinality(Recent(l) \ {n}) = k - 1
             /\ IsFiniteSet(Newer(l, n)) /\ Cardinality(Newer(l, n)) \in Nat
             /\ Newer(l, n) \subseteq Recent(l) \ {n}
             /\ Newer(l, n) = {m \in Recent(l) : m > n}
             /\ Cardinality(Newer(l, n)) <= k - 1
  <2>1. IsFiniteSet(Recent(l) \ {n}) /\ Cardinality(Recent(l) \ {n}) = k - 1
    BY <1>5, FS_RemoveElement
  <2>2. /\ Newer(l, n) \subseteq Recent(l) \ {n}
        /\ Newer(l, n) = {m \in Recent(l) : m > n}
        /\ IsFiniteSet(Newer(l, n)) /\ Cardinality(Newer(l, n)) \in Nat
    BY <1>6, RecentFacts
  <2>. QED  BY <2>1, <2>2, FS_Subset
<1>8. \A n \in All(l) : Cardinality(Newer(l, n)) + 1 < WINDOW => n \in Recent(l)
  <2>1. ASSUME NEW n \in All(l), Cardinality(Newer(l, n)) + 1 < WINDOW PROVE n \in Recent(l)
    <3>1. Cardinality(Newer(l, n)) \in Nat
      BY <1>6, RecentFacts
    <3>2. Cardinality(Newer(l, n)) < WINDOW
      BY <1>4, <2>1, <3>1
    <3>. QED  BY <3>2, RecentFacts
  <2>. QED  BY <2>1
<1>9. window'[l] = IF Len(Append(w, s)) > WINDOW THEN Tail(Append(w, s)) ELSE Append(w, s)
  BY DEF Windowed, Records
<1>. HIDE DEF w, k
\* There was room: all tasks of the kind are in the window.
<1>10. CASE k < WINDOW
  <2>1. Recent(l)' = Recent(l) \cup {N}
    <3>1. ASSUME NEW n \in Recent(l) PROVE Cardinality(Newer(l, n)) + 1 < WINDOW
      <4>1. Cardinality(Newer(l, n)) \in Nat /\ Cardinality(Newer(l, n)) <= k - 1
        BY <1>7
      <4>. QED  BY <1>4, <1>10, <4>1
    <3>. QED  BY <1>2, <1>6, <1>8, <3>1
  <2>2. window'[l] = Append(w, s)
    BY <1>4, <1>9, <1>10
  <2>3. /\ DOMAIN window'[l] = 1..(k + 1)
        /\ \A i \in 1..k : window'[l][i] = w[i]
        /\ window'[l][k + 1] = s
    BY <1>4, <2>2 DEF k, w
  <2>0. PICK g : g = [i \in 1..(k + 1) |-> IF i = k + 1 THEN N ELSE f[i]]
    OBVIOUS
  <2>4. /\ g \in [1..(k + 1) -> Recent(l)'] /\ g[k + 1] = N
        /\ \A i \in 1..k : g[i] = f[i]
    BY <1>4, <2>0, <2>1
  <2>5. \A x, y \in 1..(k + 1) : x < y => g[x] < g[y]
    <3>1. \A y \in 1..(k + 1) : y \in 1..k \/ y = k + 1
      BY <1>4
    <3>2. \A x \in 1..k : g[x] < N
      BY <1>4, <1>6, <2>4
    <3>3. \A x, y \in 1..k : x < y => g[x] < g[y]
      BY <1>4, <2>4
    <3>4. \A x \in 1..(k + 1) : x < k + 1 => x \in 1..k
      BY <1>4
    <3>5. \A x \in 1..k : ~(k + 1 < x)
      BY <1>4
    <3>. QED  BY <1>4, <2>4, <3>1, <3>2, <3>3, <3>4, <3>5
  <2>6. \A z \in Recent(l)' : \E x \in 1..(k + 1) : g[x] = z
    <3>1. ASSUME NEW z \in Recent(l)' PROVE \E x \in 1..(k + 1) : g[x] = z
      <4>1. CASE z = N
        BY <1>4, <2>4, <4>1
      <4>2. CASE z \in Recent(l)
        <5>1. PICK x \in 1..k : f[x] = z
          BY <1>4, <4>2
        <5>2. x \in 1..(k + 1) /\ g[x] = z
          BY <1>4, <2>4, <5>1
        <5>. QED  BY <5>2
      <4>. QED  BY <2>1, <4>1, <4>2
    <3>. QED  BY <3>1
  <2>7. \A i \in 1..(k + 1) : window'[l][i] = past'[g[i]].sample
    <3>1. ASSUME NEW i \in 1..k PROVE window'[l][i] = past'[g[i]].sample
      <4>1. f[i] \in DOMAIN past
        BY <1>4, <1>6
      <4>. QED  BY <1>2, <1>4, <2>3, <2>4, <4>1
    <3>2. \A y \in 1..(k + 1) : y \in 1..k \/ y = k + 1
      BY <1>4
    <3>. QED  BY <1>2, <2>3, <2>4, <3>1, <3>2
  <2>8. \A x, y \in 1..(k + 1) : g[x] = g[y] => x = y
    <3>1. \A x \in 1..(k + 1) : g[x] \in Nat
      BY <1>6, <2>1, <2>4
    <3>2. \A x, y \in 1..(k + 1) : x < y \/ y < x \/ x = y
      BY <1>4
    <3>. QED  BY <2>5, <3>1, <3>2
  <2>9. g \in Bijection(DOMAIN window'[l], Recent(l)')
    BY <2>3, <2>4, <2>6, <2>8 DEF Bijection, Injection, Surjection, IsInjective
  <2>10. Mirrors(window[l], g)'
    BY <2>3, <2>5, <2>7 DEF Mirrors
  <2>. QED  BY <2>9, <2>10
\* There was none: the oldest one leaves the window.
<1>11. CASE k = WINDOW
  <2>1. f[1] \in Recent(l) /\ 1 \in 1..k
    BY <1>4, <1>11
  <2>2. \A n \in Recent(l) : n # f[1] => n > f[1]
    <3>1. ASSUME NEW n \in Recent(l), n # f[1] PROVE n > f[1]
      <4>1. PICK x \in 1..k : f[x] = n
        BY <1>4
      <4>2. 1 < x
        BY <1>4, <2>1, <3>1, <4>1
      <4>3. f[1] < f[x]
        BY <1>4, <2>1, <4>2
      <4>4. f[1] \in Nat /\ n \in Nat
        BY <1>6, <2>1
      <4>. QED  BY <4>1, <4>3, <4>4
    <3>. QED  BY <3>1
  <2>3. Recent(l)' = (Recent(l) \ {f[1]}) \cup {N}
    <3>1. Cardinality(Newer(l, f[1])) = k - 1
      <4>1. Newer(l, f[1]) = Recent(l) \ {f[1]}
        BY <1>7, <2>1, <2>2
      <4>. QED  BY <1>7, <2>1, <4>1
    <3>2. ASSUME NEW n \in Recent(l), n # f[1] PROVE Cardinality(Newer(l, n)) + 1 < WINDOW
      <4>1. Newer(l, n) \subseteq Newer(l, f[1]) /\ n \in Newer(l, f[1]) /\ n \notin Newer(l, n)
        <5>1. n > f[1] /\ f[1] \in Nat /\ n \in Nat
          BY <1>6, <2>1, <2>2, <3>2
        <5>2. \A m \in Recent(l) : m > n => m > f[1]
          BY <1>6, <5>1
        <5>3. /\ Newer(l, n) = {m \in Recent(l) : m > n}
              /\ Newer(l, f[1]) = {m \in Recent(l) : m > f[1]}
          BY <1>7, <2>1
        <5>4. ~(n > n)
          BY <5>1
        <5>. QED  BY <5>1, <5>2, <5>3, <5>4
      <4>2. Newer(l, n) \in SUBSET (Newer(l, f[1]) \ {n})
        BY <4>1
      <4>3. /\ IsFiniteSet(Newer(l, f[1]) \ {n})
            /\ Cardinality(Newer(l, f[1]) \ {n}) = k - 2
        <5>1. /\ IsFiniteSet(Newer(l, f[1]) \ {n})
              /\ Cardinality(Newer(l, f[1]) \ {n}) = Cardinality(Newer(l, f[1])) - 1
          <6>1. IsFiniteSet(Newer(l, f[1])) /\ n \in Newer(l, f[1])
            BY <1>7, <2>1, <4>1
          <6>. QED  BY <6>1, FS_RemoveElement
        <5>. QED  BY <1>4, <3>1, <5>1
      <4>4. Cardinality(Newer(l, n)) <= k - 2
        BY <4>2, <4>3, FS_Subset
      <4>5. Cardinality(Newer(l, n)) \in Nat
        BY <1>7
      <4>. QED  BY <1>4, <1>11, <4>4, <4>5
    <3>3. ~(Cardinality(Newer(l, f[1])) + 1 < WINDOW)
      BY <1>4, <1>11, <3>1
    <3>. QED  BY <1>2, <1>6, <1>8, <3>2, <3>3
  <2>4. window'[l] = Tail(Append(w, s))
    BY <1>4, <1>9, <1>11
  <2>5. /\ DOMAIN window'[l] = 1..k
        /\ \A i \in 1..k : i < k => window'[l][i] = w[i + 1] /\ i + 1 \in 1..k
        /\ window'[l][k] = s
    BY <1>4, <1>11, <2>4 DEF k, w
  <2>0. PICK g : g = [i \in 1..k |-> IF i = k THEN N ELSE f[i + 1]]
    OBVIOUS
  <2>6. /\ g \in [1..k -> Recent(l)'] /\ g[k] = N
        /\ \A i \in 1..k : i < k => g[i] = f[i + 1]
    <3>1. ASSUME NEW i \in 1..k, i # k PROVE i + 1 \in 1..k /\ i + 1 > 1
      BY <1>4, <3>1
    <3>2. ASSUME NEW i \in 1..k, i # k PROVE f[i + 1] \in Recent(l)'
      <4>1. f[1] < f[i + 1] /\ f[i + 1] \in Recent(l)
        BY <1>4, <2>1, <3>1, <3>2
      <4>2. f[1] # f[i + 1]
        BY <1>6, <2>1, <4>1
      <4>. QED  BY <2>3, <4>1, <4>2
    <3>3. N \in Recent(l)'
      BY <2>3
    <3>4. k \in 1..k
      BY <1>4, <1>11
    <3>5. \A i \in 1..k : i < k => i # k
      BY <1>4
    <3>. QED  BY <2>0, <3>2, <3>3, <3>4, <3>5
  <2>7. \A x, y \in 1..k : x < y => g[x] < g[y]
    <3>1. ASSUME NEW x \in 1..k, NEW y \in 1..k, x < y PROVE g[x] < g[y]
      <4>1. x < k /\ x + 1 \in 1..k /\ g[x] = f[x + 1] /\ f[x + 1] \in Recent(l)
        BY <1>4, <2>6, <3>1
      <4>2. CASE y = k
        BY <1>6, <2>6, <4>1, <4>2
      <4>3. CASE y < k
        <5>1. y + 1 \in 1..k /\ x + 1 < y + 1 /\ g[y] = f[y + 1]
          BY <1>4, <2>6, <3>1, <4>3
        <5>. QED  BY <1>4, <4>1, <5>1
      <4>. QED  BY <1>4, <4>2, <4>3
    <3>. QED  BY <3>1
  <2>8. \A z \in Recent(l)' : \E x \in 1..k : g[x] = z
    <3>1. ASSUME NEW z \in Recent(l)' PROVE \E x \in 1..k : g[x] = z
      <4>1. CASE z = N
        <5>1. k \in 1..k
          BY <1>4, <1>11
        <5>. QED  BY <2>6, <4>1, <5>1
      <4>2. CASE z \in Recent(l) /\ z # f[1]
        <5>1. PICK x \in 1..k : f[x] = z
          BY <1>4, <4>2
        <5>2. x # 1
          BY <4>2, <5>1
        <5>3. x - 1 \in 1..k /\ x - 1 < k /\ (x - 1) + 1 = x
          BY <1>4, <5>2
        <5>4. g[x - 1] = z
          BY <2>6, <5>1, <5>3
        <5>. QED  BY <5>3, <5>4
      <4>. QED  BY <2>3, <4>1, <4>2
    <3>. QED  BY <3>1
  <2>9. \A i \in 1..k : window'[l][i] = past'[g[i]].sample
    <3>1. ASSUME NEW i \in 1..k, i < k PROVE window'[l][i] = past'[g[i]].sample
      <4>1. /\ g[i] = f[i + 1] /\ window'[l][i] = w[i + 1] /\ i + 1 \in 1..k
            /\ f[i + 1] \in DOMAIN past
        BY <1>4, <1>6, <2>5, <2>6, <3>1
      <4>. QED  BY <1>2, <1>4, <4>1
    <3>2. \A i \in 1..k : i < k \/ i = k
      BY <1>4
    <3>. QED  BY <1>2, <2>5, <2>6, <3>1, <3>2
  <2>10. \A x, y \in 1..k : g[x] = g[y] => x = y
    <3>1. \A x \in 1..k : g[x] \in Nat
      BY <1>6, <2>3, <2>6
    <3>2. \A x, y \in 1..k : x < y \/ y < x \/ x = y
      BY <1>4
    <3>. QED  BY <2>7, <3>1, <3>2
  <2>11. g \in Bijection(DOMAIN window'[l], Recent(l)')
    BY <2>5, <2>6, <2>8, <2>10 DEF Bijection, Injection, Surjection, IsInjective
  <2>12. Mirrors(window[l], g)'
    BY <2>5, <2>7, <2>9 DEF Mirrors
  <2>. QED  BY <2>11, <2>12
<1>. QED  BY <1>4, <1>10, <1>11

\* What the last task raised is the verdict on the window it left.
Judged ==
    past # <<>> => LET l == past[Len(past)].ctx.link IN incident = Judge(window[l], l)

\* Every step keeps each window the mirror of its tasks, and the incident its
\* verdict.
LEMMA WindowsStep ==
    IInv /\ WindowIsRecent /\ [Next]_vars => WindowIsRecent' /\ (Judged => Judged')
<1>. SUFFICES ASSUME IInv, WindowIsRecent, [Next]_vars
              PROVE  WindowIsRecent' /\ (Judged => Judged')
  OBVIOUS
<1>1. CASE RunTask
  <2>1. PICK ctx \in Context, s \in Sample :
           /\ past'     = Append(past, [ctx |-> ctx, sample |-> s])
           /\ window'   = Windowed(ctx.link, s)
           /\ incident' = Judge(window'[ctx.link], ctx.link)
    BY <1>1 DEF RunTask
  <2>2. PICK l \in Link : l = ctx.link
    BY DEF Context
  <2>3. Records /\ window' \in [Link -> Seq(Sample)]
    BY RecordsStep DEF IInv, Records
  <2>4. \E g \in Bijection(DOMAIN window'[l], Recent(l)') : Mirrors(window[l], g)'
    <3>1. window'[l] \in Seq(Sample)
      BY <2>3
    <3>. QED  BY <2>1, <2>2, <2>3, <3>1, WindowNext
  <2>5. ASSUME NEW k \in Link, k # l
        PROVE  \E g \in Bijection(DOMAIN window'[k], Recent(k)') : Mirrors(window[k], g)'
    <3>1. window'[k] = window[k]
      BY <2>1, <2>2, <2>5 DEF Windowed, IInv, Records
    <3>2. /\ Recent(k)' = Recent(k)
          /\ \A n \in DOMAIN past : past'[n] = past[n]
      BY <2>1, <2>2, <2>3, <2>5, RecentNext
    <3>3. PICK g \in Bijection(DOMAIN window[k], Recent(k)) : Mirrors(window[k], g)
      BY DEF WindowIsRecent
    <3>4. \A i \in DOMAIN window[k] : g[i] \in DOMAIN past
      <4>1. g \in [DOMAIN window[k] -> Recent(k)]
        BY <3>3 DEF Bijection, Injection
      <4>2. Recent(k) \subseteq DOMAIN past
        BY DEF Recent
      <4>. QED  BY <4>1, <4>2
    <3>5. Mirrors(window[k], g)'
      BY <3>1, <3>2, <3>3, <3>4 DEF Mirrors
    <3>. QED  BY <3>1, <3>2, <3>3, <3>5
  <2>6. WindowIsRecent'
    BY <2>4, <2>5 DEF WindowIsRecent
  <2>7. Judged'
    <3>1. Len(past') = Len(past) + 1 /\ past'[Len(past')] = [ctx |-> ctx, sample |-> s]
      BY <2>1, <2>3 DEF Records
    <3>. QED  BY <2>1, <3>1 DEF Judged
  <2>. QED  BY <2>6, <2>7
<1>2. CASE ~RunTask
  <2>1. UNCHANGED task
    BY <1>2 DEF Next, KnownAlready, Analyze, NoAnswer, Retry, TimedOut, Answered, Raises,
                ApplyRules, Announce, Learn, Decide, vars
  <2>2. \A l : Recent(l)' = Recent(l)
    BY <2>1 DEF Recent, task
  <2>3. WindowIsRecent'
    BY <2>1, <2>2 DEF WindowIsRecent, Mirrors, task
  <2>4. ASSUME Judged PROVE Judged'
    BY <2>1, <2>4 DEF Judged, task
  <2>. QED  BY <2>3, <2>4
<1>. QED  BY <1>1, <1>2

\* What a window is judged to be is a matter of shares of the tasks it mirrors.
LEMMA VerdictIsDeserved == IInv /\ WindowIsRecent /\ Judged => IncidentIffBreach
<1>. SUFFICES ASSUME IInv, WindowIsRecent, Judged, past # <<>> PROVE IncidentIffBreach
  BY DEF IncidentIffBreach
<1>1. PICK l \in Link : l = past[Len(past)].ctx.link
  <2>1. past \in Seq([ctx : Context, sample : Sample])
    BY DEF IInv, Records
  <2>2. Len(past) \in DOMAIN past
    <3>1. DOMAIN past = 1..Len(past) /\ Len(past) \in Nat /\ Len(past) # 0
      BY <2>1
    <3>. QED  BY <3>1
  <2>3. past[Len(past)] \in [ctx : Context, sample : Sample]
    <3>1. Len(past) \in 1..Len(past)
      BY <2>1, <2>2
    <3>. QED  BY <2>1, <3>1, ElementOfSeq
  <2>. QED  BY <2>3 DEF Context
<1>. DEFINE R == Recent(l)
            w == window[l]
<1>2. PICK f \in Bijection(DOMAIN w, R) : Mirrors(w, f)
  BY DEF WindowIsRecent
<1>3. w \in Seq(Sample) /\ Len(w) \in Nat /\ Len(w) <= WINDOW /\ WINDOW \in Nat /\ WINDOW > 0
  BY DiagnosisAssumption DEF IInv, Records
<1>4. incident = Judge(w, l)
  BY <1>1 DEF Judged
<1>. HIDE DEF w, R
<1>5. /\ Cardinality(R) = Len(w)
      /\ Over(R, 0) = Count(w, Level) /\ Over(R, 1) = Count(w, 1..2) /\ Over(R, 2) = Count(w, 2..2)
      /\ Cardinality({n \in R : past[n].sample.aborted}) = Aborts(w)
      /\ Cardinality({n \in R : past[n].sample.slow}) = Cardinality({i \in DOMAIN w : w[i].slow})
  <2>1. 0 \in Level /\ 1 \in Level /\ 2 \in Level /\ 0..2 = Level
    BY DEF Level
  <2>2. \A k \in Level : Over(R, k) = Count(w, k..2)
    BY <1>2, <1>3, MirrorCounts
  <2>3. Over(R, 0) = Count(w, Level)
    BY <2>1, <2>2
  <2>. QED  BY <1>2, <1>3, <2>1, <2>2, <2>3, MirrorCounts
<1>. DEFINE latency == Share(Over(R, 1), 20, Over(R, 0))
            gross   == Share(Over(R, 2), 20, Over(R, 0))
            abort   == Share(Cardinality({n \in R : past[n].sample.aborted}), 10, WINDOW)
            slow    == Share(Cardinality({n \in R : past[n].sample.slow}), 20, WINDOW)
<1>6. (P95(w) > 0 <=> latency) /\ (P95(w) = 2 <=> gross) /\ (P95(w) = 2 => P95(w) > 0)
  BY <1>3, <1>5, PercentileIsShare
<1>7. ASSUME Len(w) = WINDOW
      PROVE  (10 * Aborts(w) > Len(w) <=> abort) /\ (Slow(w) <=> slow)
  <2>1. Slow(w) <=> Share(Cardinality({i \in DOMAIN w : w[i].slow}), 20, Len(w))
    BY <1>3, <1>7, SlowIsShare
  <2>2. Slow(w) <=> slow
    BY <1>5, <1>7, <2>1
  <2>3. 10 * Aborts(w) > Len(w) <=> abort
    BY <1>3, <1>5, <1>7 DEF Share
  <2>. QED  BY <2>2, <2>3
<1>8. IF Cardinality(R) # WINDOW \/ ~(latency \/ abort \/ slow) THEN incident = None
      ELSE incident = Incident(IF latency THEN "message_latency"
                               ELSE IF abort THEN "abort_rate" ELSE "contract_duration",
                               gross, l)
  <2>. HIDE DEF latency, gross, abort, slow
  <2>1. CASE Len(w) < WINDOW
    BY <1>3, <1>4, <1>5, <2>1 DEF Judge
  <2>2. CASE Len(w) = WINDOW
    <3>1. ~(Len(w) < WINDOW)
      BY <1>3, <2>2
    <3>2. CASE latency
      <4>1. incident = Incident("message_latency", P95(w) = 2, l)
        BY <1>4, <1>6, <3>1, <3>2 DEF Judge
      <4>2. (P95(w) = 2) = gross
        <5>1. gross \in BOOLEAN /\ (P95(w) = 2) \in BOOLEAN
          BY Zenon DEF gross, Share
        <5>. QED  BY <1>6, <5>1, Zenon
      <4>. QED  BY <1>5, <2>2, <3>2, <4>1, <4>2
    <3>3. CASE ~latency /\ abort
      <4>1. incident = Incident("abort_rate", FALSE, l)
        BY <1>4, <1>6, <1>7, <2>2, <3>1, <3>3 DEF Judge
      <4>2. gross = FALSE
        BY <1>6, <3>3
      <4>. QED  BY <1>5, <2>2, <3>3, <4>1, <4>2
    <3>4. CASE ~latency /\ ~abort /\ slow
      <4>1. incident = Incident("contract_duration", FALSE, l)
        BY <1>4, <1>6, <1>7, <2>2, <3>1, <3>4 DEF Judge
      <4>2. gross = FALSE
        BY <1>6, <3>4
      <4>. QED  BY <1>5, <2>2, <3>4, <4>1, <4>2
    <3>5. CASE ~latency /\ ~abort /\ ~slow
      BY <1>4, <1>6, <1>7, <2>2, <3>1, <3>5 DEF Judge
    <3>. QED  BY <3>2, <3>3, <3>4, <3>5
  <2>. QED  BY <1>3, <2>1, <2>2
<1>. QED  BY <1>1, <1>8 DEF IncidentIffBreach, R

\* An incident is raised when, and only when, the last tasks of the same link
\* quality breach an objective, for every size of the window, every number of
\* tasks and link qualities, and whatever the tasks measure.
THEOREM IncidentsAreBreaches == Spec => []IncidentIffBreach
<1>1. Init => WindowIsRecent /\ Judged
  <2>. SUFFICES ASSUME Init PROVE WindowIsRecent /\ Judged
    OBVIOUS
  <2>1. ASSUME NEW l \in Link
        PROVE  \E f \in Bijection(DOMAIN window[l], Recent(l)) : Mirrors(window[l], f)
    <3>1. window[l] = <<>> /\ DOMAIN window[l] = {} /\ Recent(l) = {}
      BY <2>1 DEF Init, Recent
    <3>. DEFINE f == [i \in {} |-> i]
    <3>2. f \in Bijection(DOMAIN window[l], Recent(l)) /\ Mirrors(window[l], f)
      BY <3>1 DEF Bijection, Injection, Surjection, IsInjective, Mirrors
    <3>. QED  BY <3>2
  <2>. QED  BY <2>1 DEF Init, WindowIsRecent, Judged
<1>2. IInv /\ WindowIsRecent /\ Judged /\ [Next]_vars => WindowIsRecent' /\ Judged'
  BY WindowsStep
<1>. QED  BY <1>1, <1>2, Inductive, VerdictIsDeserved, PTL DEF Spec

=============================================================================
