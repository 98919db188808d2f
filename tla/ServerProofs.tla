------------------------- MODULE ServerProofs -------------------------
(***************************************************************************)
(* Theorems about Server: no tab misses what the buffer holds, the buffer   *)
(* tells one run's story, a press pays for a task, no worker waits for an   *)
(* Event that nobody can set, and every step of a worker takes its run      *)
(* nearer its end, for every number of runs, tasks, tabs and chaos threads  *)
(* and every size of the buffer.                                            *)
(***************************************************************************)
EXTENDS Server, TLAPS

-----------------------------------------------------------------------------
(* The buffer *)

\* The buffer's cut keeps an end of what it cuts.
LEMMA KeptFacts ==
    ASSUME NEW s \in Seq(Message)
    PROVE  /\ Kept(s) \in Seq(Message) /\ Len(Kept(s)) <= HISTORY
           /\ \E d \in Nat : \A i \in DOMAIN Kept(s) :
                 i + d \in DOMAIN s /\ Kept(s)[i] = s[i + d]
<1>. HISTORY \in Nat \ {0}
  BY ServerAssumption
<1>1. CASE Len(s) <= HISTORY
  <2>1. Kept(s) = s
    BY <1>1 DEF Kept
  <2>2. \A i \in DOMAIN s : i + 0 \in DOMAIN s /\ s[i] = s[i + 0]
    OBVIOUS
  <2>. QED  BY <1>1, <2>1, <2>2
<1>2. CASE Len(s) > HISTORY
  <2>. DEFINE d == Len(s) - HISTORY
  <2>1. Kept(s) = SubSeq(s, d + 1, Len(s)) /\ d \in Nat
    BY <1>2 DEF Kept
  <2>2. /\ SubSeq(s, d + 1, Len(s)) \in Seq(Message)
        /\ Len(SubSeq(s, d + 1, Len(s))) = HISTORY
        /\ \A i \in 1..HISTORY : /\ SubSeq(s, d + 1, Len(s))[i] = s[i + d]
                                 /\ i + d \in 1..Len(s)
    BY <1>2
  <2>3. DOMAIN Kept(s) = 1..HISTORY /\ DOMAIN s = 1..Len(s)
    BY <2>1, <2>2
  <2>. HIDE DEF d
  <2>4. \A i \in DOMAIN Kept(s) : i + d \in DOMAIN s /\ Kept(s)[i] = s[i + d]
    BY <2>1, <2>2, <2>3
  <2>5. \E k \in Nat : \A i \in DOMAIN Kept(s) : i + k \in DOMAIN s /\ Kept(s)[i] = s[i + k]
    BY <2>1, <2>4, Zenon
  <2>6. Kept(s) \in Seq(Message) /\ Len(Kept(s)) <= HISTORY
    BY <2>1, <2>2
  <2>. QED  BY <2>5, <2>6, Zenon
<1>. QED  BY <1>1, <1>2

\* What the buffer holds after a message was published: that message last.
LEMMA Published ==
    ASSUME NEW h \in Seq(Message), NEW m \in Message
    PROVE  /\ Kept(Append(h, m)) \in Seq(Message)
           /\ Len(Kept(Append(h, m))) <= HISTORY
           /\ \E d \in Nat : \A i \in DOMAIN Kept(Append(h, m)) :
                 \/ i + d \in DOMAIN h /\ Kept(Append(h, m))[i] = h[i + d]
                 \/ i + d = Len(h) + 1 /\ Kept(Append(h, m))[i] = m
<1>1. Append(h, m) \in Seq(Message)
  OBVIOUS
<1>2. PICK d \in Nat : \A i \in DOMAIN Kept(Append(h, m)) :
         i + d \in DOMAIN Append(h, m) /\ Kept(Append(h, m))[i] = Append(h, m)[i + d]
  BY <1>1, KeptFacts
<1>3. \A j \in DOMAIN Append(h, m) :
         \/ j \in DOMAIN h /\ Append(h, m)[j] = h[j]
         \/ j = Len(h) + 1 /\ Append(h, m)[j] = m
  OBVIOUS
<1>. QED  BY <1>1, <1>2, <1>3, KeptFacts

-----------------------------------------------------------------------------
(* The invariant *)

Active(r) == pc[r] \notin {"new", "idle", "done"}

\* The worker that is at work is that of the last run, and so is the gate.
OneWorker ==
    /\ \A r \in Run : r > run => pc[r] = "new"
    /\ \A r \in Run : Active(r) => r = run /\ running
    /\ step \in {None, run} /\ loop \in {None, run}
    /\ \A t \in ChaosThread : chaosPc[t] = "report" => target[t] # None

\* A publication keeps the types.
LEMMA PublishType ==
    ASSUME TypeOK, NEW p \in Publisher, NEW m \in Message, Publish(p, m)
    PROVE  /\ history' \in Seq(Message) /\ Len(history') <= HISTORY
           /\ out' \in [Publisher -> Message \cup {NoMsg}]
           /\ due' \in [Tab -> SUBSET Message]
           /\ UNCHANGED <<opened, clients, replay>>
<1>1. history' \in Seq(Message) /\ Len(history') <= HISTORY
  BY Published DEF Publish, TypeOK
<1>2. due' \in [Tab -> SUBSET Message]
  BY DEF Publish, TypeOK
<1>. QED  BY <1>1, <1>2 DEF Publish, TypeOK

\* /step?all first drops the gate and then sets the Event.
LEMMA FinishSteps ==
    /\ Finish => Free /\ step # None /\ loop' = step /\ step' = None /\ flag' = flag
    /\ FinishSet => loop # None /\ loop' = None /\ step' = step
                    /\ flag' = [flag EXCEPT ![loop] = TRUE]
<1>1. /\ FinishDoes(1, step) => step' = None /\ flag' = flag
      /\ FinishDoes(2, loop) => step' = step /\ flag' = [flag EXCEPT ![loop] = TRUE]
  BY SMT DEF FinishDoes
<1>. QED  BY <1>1 DEF Finish, FinishSet, Free

\* Saying something keeps the types.
LEMMA SaysType ==
    ASSUME TypeOK, OneWorker, NEW r \in Run, NEW from, NEW kind \in WorkerKinds,
           NEW to \in {"run_start", "gate", "wait", "run_end", "keep", "final", "done"},
           Says(r, from, kind, to)
    PROVE  /\ history' \in Seq(Message) /\ Len(history') <= HISTORY
           /\ out' \in [Publisher -> Message \cup {NoMsg}]
           /\ due' \in [Tab -> SUBSET Message]
           /\ UNCHANGED <<opened, clients, replay>>
           /\ pc' \in [Run -> {"new", "baseline", "run_start", "gate", "wait", "rearm",
                               "expired", "task", "report", "run_end", "keep", "final",
                               "idle", "done"}]
           /\ UNCHANGED <<cast, flag, loop, chaos, q, pump, counts>>
<1>. DEFINE m == [by |-> r, run |-> r, kind |-> kind, idx |-> idx[r]]
<1>1. m \in Message /\ r \in Publisher /\ Publish(r, m)
  BY DEF Says, TypeOK, Message, Publisher
<1>. HIDE DEF m
<1>2. pc' \in [Run -> {"new", "baseline", "run_start", "gate", "wait", "rearm",
                      "expired", "task", "report", "run_end", "keep", "final",
                      "idle", "done"}]
  BY DEF Says, TypeOK
<1>. QED  BY <1>1, <1>2, PublishType DEF Says

\* A worker's step keeps the types.
LEMMA WorkerType ==
    ASSUME TypeOK, OneWorker, NEW r \in Run, WorkerStep(r)
    PROVE  TypeOK'
<1>. Runs \in Nat /\ Run = 1..Runs /\ None = 0
  BY ServerAssumption DEF Run, None
<1>1. CASE Baseline(r)
  <2>1. Says(r, "baseline", "baseline", "run_start")
    BY <1>1 DEF Baseline
  <2>. QED  BY <1>1, <2>1, SaysType DEF Baseline, Says, TypeOK, WorkerKinds, state, chaos, pump, counts
<1>2. CASE RunStart(r)
  <2>1. Says(r, "run_start", "run_start", "gate")
    BY <1>2 DEF RunStart
  <2>. QED  BY <1>2, <2>1, SaysType DEF RunStart, Says, TypeOK, WorkerKinds, state, chaos, pump, counts
<1>3. CASE GateOpen(r)
  BY <1>3 DEF GateOpen, Goes, TypeOK, chaos, tabs, pump
<1>4. CASE Await(r)
  <2>1. Says(r, "gate", "awaiting_step", "wait")
    BY <1>4 DEF Await
  <2>2. step = r
    BY <1>4 DEF Await, Says, OneWorker, Active
  <2>. QED  BY <1>4, <2>1, <2>2, SaysType DEF Await, Says, TypeOK, WorkerKinds, state, chaos, pump, counts
<1>5. CASE Released(r)
  BY <1>5 DEF Released, Goes, TypeOK, chaos, tabs, pump
<1>6. CASE Rearm(r)
  BY <1>6 DEF Rearm, Cleared, Goes, TypeOK, chaos, tabs, pump
<1>7. CASE Expire(r)
  BY <1>7 DEF Expire, Goes, TypeOK, chaos, tabs, pump
<1>8. CASE Ungate(r)
  BY <1>8 DEF Ungate, Goes, TypeOK, chaos, tabs, pump
<1>9. CASE RunTask(r)
  <2>1. rows' \subseteq Nat
    <3>1. rows \subseteq Nat /\ idx[r] \in Nat
      BY DEF TypeOK
    <3>2. rows' = rows \cup {idx[r]}
      BY <1>9 DEF RunTask
    <3>. QED  BY <3>1, <3>2
  <2>2. pc' = [pc EXCEPT ![r] = "report"]
    BY <1>9 DEF RunTask, Goes
  <2>. QED  BY <1>9, <2>1, <2>2 DEF RunTask, Goes, TypeOK, chaos, tabs, pump
<1>10. CASE Report(r)
  <2>1. CASE Says(r, "report", "task", "gate") /\ idx' = [idx EXCEPT ![r] = @ + 1]
             /\ UNCHANGED <<cast, state, held>>
    <3>1. idx' \in [Run -> Nat]
      BY <2>1 DEF TypeOK
    <3>. QED  BY <2>1, <3>1, SaysType DEF Says, TypeOK, WorkerKinds, state, chaos, pump, counts
  <2>2. CASE Says(r, "report", "task", "run_end") /\ UNCHANGED <<cast, state, idx, held>>
    BY <2>2, SaysType DEF Says, TypeOK, WorkerKinds, state, chaos, pump, counts
  <2>. QED  BY <1>10, <2>1, <2>2 DEF Report
<1>11. CASE RunEnd(r)
  <2>1. Says(r, "run_end", "run_end", "keep")
    BY <1>11 DEF RunEnd
  <2>. QED  BY <1>11, <2>1, SaysType DEF RunEnd, Says, TypeOK, WorkerKinds, state, chaos, pump, counts
<1>12. CASE Keep(r)
  BY <1>12 DEF Keep, Goes, TypeOK, chaos, tabs, pump
<1>13. CASE Crash(r)
  <2>1. PICK place : Says(r, place, "error", "final")
    BY <1>13 DEF Crash
  <2>. QED  BY <1>13, <2>1, SaysType DEF Crash, Says, TypeOK, WorkerKinds, state, chaos, pump, counts
<1>14. CASE Final(r)
  BY <1>14 DEF Final, TypeOK, chaos, tabs, pump, counts
<1>15. CASE Idle(r)
  <2>1. Says(r, "idle", "idle", "done")
    BY <1>15 DEF Idle
  <2>2. /\ idx' \in [Run -> Nat] /\ held' \in [Run -> 0..Runs]
        /\ pc' = [pc EXCEPT ![r] = "done"]
        /\ \A x \in Run \ {r} : held'[x] = held[x]
    BY <1>15 DEF Idle, Says, TypeOK
  <2>. QED  BY <1>15, <2>1, <2>2, SaysType DEF Idle, Says, TypeOK, WorkerKinds, state, chaos, pump, counts
<1>. QED  BY <1>1, <1>2, <1>3, <1>4, <1>5, <1>6, <1>7, <1>8, <1>9, <1>10, <1>11, <1>12,
             <1>13, <1>14, <1>15 DEF WorkerStep

LEMMA TypeStep == TypeOK /\ OneWorker /\ [Next]_vars => TypeOK'
<1>. SUFFICES ASSUME TypeOK, OneWorker, [Next]_vars PROVE TypeOK'
  OBVIOUS
<1>. Runs \in Nat /\ Run = 1..Runs /\ None = 0 /\ run \in 0..Runs
  BY ServerAssumption DEF Run, None, TypeOK
<1>1. CASE UNCHANGED vars
  BY <1>1 DEF vars, state, worker, chaos, tabs, pump, counts, TypeOK
<1>2. ASSUME NEW p \in Publisher, Put(p) PROVE TypeOK'
  <2>1. out[p] \in Message
    BY <1>2 DEF Put, TypeOK
  <2>2. q' \in Seq(Message) /\ out' \in [Publisher -> Message \cup {NoMsg}]
    BY <1>2, <2>1 DEF Put, TypeOK
  <2>. QED  BY <1>2, <2>2 DEF Put, TypeOK, state, worker, chaos, tabs, pump, counts
<1>3. CASE PumpTake
  <2>1. q' \in Seq(Message) /\ sending' \in Message
    BY <1>3 DEF PumpTake, TypeOK
  <2>. QED  BY <1>3, <2>1 DEF PumpTake, TypeOK, state, worker, chaos, tabs, counts
<1>4. CASE PumpSend
  BY <1>4 DEF PumpSend, Gets, TypeOK, state, worker, chaos, counts
<1>5. CASE PumpDone
  BY <1>5 DEF PumpDone, TypeOK, state, worker, chaos, tabs, counts
<1>6. ASSUME NEW c \in Tab, Connect(c) PROVE TypeOK'
  <2>1. \A i \in DOMAIN history : history[i] \in Message
    BY DEF TypeOK
  <2>2. Range(history) \subseteq Message
    BY <2>1 DEF Range
  <2>. QED  BY <1>6, <2>2 DEF Connect, Joins, TypeOK, state, worker, chaos, pump, counts
<1>7. ASSUME NEW c \in Tab, Replay(c) PROVE TypeOK'
  <2>1. Tail(replay[c]) \in Seq(Message)
    BY <1>7 DEF Replay, TypeOK
  <2>. QED  BY <1>7, <2>1 DEF Replay, Gets, TypeOK, state, worker, chaos, pump, counts
<1>8. ASSUME NEW c \in Tab, Disconnect(c) PROVE TypeOK'
  <2>1. <<>> \in Seq(Message)
    OBVIOUS
  <2>. QED  BY <1>8, <2>1 DEF Disconnect, TypeOK, state, worker, chaos, counts
<1>9. ASSUME NEW stepped \in BOOLEAN, Start(stepped) PROVE TypeOK'
  <2>1. run' \in Run /\ history' = <<>> /\ <<>> \in Seq(Message) /\ Len(<<>>) <= HISTORY
    BY <1>9, ServerAssumption DEF Start, MayStart
  <2>2. pc' = [pc EXCEPT ![run'] = "baseline"] /\ step' \in 0..Runs
    BY <1>9, <2>1 DEF Start
  <2>. QED  BY <1>9, <2>1, <2>2 DEF Start, TypeOK, chaos, pump
<1>10. CASE Press
  BY <1>10 DEF Press, Pressed, TypeOK, state, worker, chaos, tabs, pump
<1>11. CASE Finish
  <2>1. flag' = flag /\ loop' \in 0..Runs /\ step' \in 0..Runs
    BY <1>11, FinishSteps DEF TypeOK
  <2>. QED  BY <1>11, <2>1 DEF Finish, Pressed, TypeOK, worker, chaos, tabs, pump
<1>12. CASE FinishSet
  <2>1. flag' \in [Run -> BOOLEAN] /\ loop' \in 0..Runs /\ step' = step
    <3>1. flag \in [Run -> BOOLEAN]
      BY DEF TypeOK
    <3>2. \A e : [flag EXCEPT ![e] = TRUE] \in [Run -> BOOLEAN]
      BY <3>1
    <3>. QED  BY <1>12, <3>2, FinishSteps
  <2>. QED  BY <1>12, <2>1 DEF FinishSet, TypeOK, worker, chaos, tabs, pump, counts
<1>13. ASSUME NEW t \in ChaosThread, Chaos(t) PROVE TypeOK'
  BY <1>13 DEF Chaos, TypeOK, state, worker, tabs, pump, counts
<1>14. ASSUME NEW t \in ChaosThread, ChaosStep(t) PROVE TypeOK'
  <2>1. PICK kind \in ChaosKinds : ChaosSays(t, "report", kind, "done")
    BY <1>14 DEF ChaosStep
  <2>. DEFINE m == [by |-> t, run |-> target[t], kind |-> kind, idx |-> 0]
  <2>2. m \in Message /\ t \in Publisher /\ Publish(t, m)
    BY <2>1 DEF ChaosSays, TypeOK, OneWorker, Message, Publisher
  <2>. HIDE DEF m
  <2>3. chaosPc' \in [ChaosThread -> {"new", "report", "done"}]
    BY <2>1 DEF ChaosSays, TypeOK
  <2>. QED  BY <2>1, <2>2, <2>3, PublishType
            DEF ChaosSays, TypeOK, state, worker, pump, counts
<1>15. ASSUME NEW r \in Run, WorkerStep(r) PROVE TypeOK'
  BY <1>15, WorkerType
<1>. QED  BY <1>1, <1>2, <1>3, <1>4, <1>5, <1>6, <1>7, <1>8, <1>9, <1>10, <1>11, <1>12,
             <1>13, <1>14, <1>15 DEF Next

-----------------------------------------------------------------------------
(* One worker at a time *)

\* What all steps of a worker have in common.
LEMMA WorkerKeeps ==
    ASSUME TypeOK, NEW r \in Run, WorkerStep(r)
    PROVE  /\ UNCHANGED <<run, loop, chaosPc, target, sending, sendTo, q, pressed,
                         opened, clients, replay>>
           /\ \A x \in Run \ {r} : pc'[x] = pc[x]
           /\ pc[r] \notin {"new", "done"} /\ pc'[r] # "new" /\ (Active(r)' => Active(r))
           /\ running' = running \/ (Active(r) /\ ~Active(r)')
           /\ step' \in {step, None}
           /\ held'[r] = held[r] \/ pc'[r] \in {"wait", "done"}
           /\ pc'[r] = "wait" => step # None /\ UNCHANGED <<step, flag>>
<1>1. CASE Baseline(r) \/ RunStart(r) \/ Await(r) \/ RunEnd(r) \/ Crash(r)
  BY <1>1 DEF Baseline, RunStart, Await, RunEnd, Crash, Says, Publish, TypeOK, Active, state,
              chaos, pump, counts
<1>2. CASE Report(r)
  BY <1>2 DEF Report, Says, Publish, TypeOK, Active, state, chaos, pump, counts
<1>3. CASE Idle(r)
  BY <1>3 DEF Idle, Says, Publish, TypeOK, Active, state, chaos, pump, counts
<1>4. CASE GateOpen(r) \/ Released(r) \/ Rearm(r) \/ Expire(r) \/ Ungate(r) \/ RunTask(r)
           \/ Keep(r)
  BY <1>4 DEF GateOpen, Released, Rearm, Cleared, Expire, Ungate, RunTask, Keep, Goes,
              TypeOK, Active, chaos, tabs, pump
<1>5. CASE Final(r)
  BY <1>5 DEF Final, TypeOK, Active, chaos, tabs, pump, counts
<1>. QED  BY <1>1, <1>2, <1>3, <1>4, <1>5 DEF WorkerStep

LEMMA OneWorkerStep == TypeOK /\ OneWorker /\ [Next]_vars => OneWorker'
<1>. SUFFICES ASSUME TypeOK, OneWorker, [Next]_vars PROVE OneWorker'
  OBVIOUS
<1>. Runs \in Nat /\ Run = 1..Runs /\ None = 0 /\ run \in 0..Runs
  BY ServerAssumption DEF Run, None, TypeOK
<1>1. CASE UNCHANGED vars
  BY <1>1 DEF vars, state, worker, chaos, OneWorker, Active
<1>2. CASE (\E p \in Publisher : Put(p)) \/ PumpTake \/ PumpSend \/ PumpDone
  BY <1>2 DEF Put, PumpTake, PumpSend, PumpDone, state, worker, chaos, OneWorker, Active
<1>3. CASE \E c \in Tab : Connect(c) \/ Replay(c) \/ Disconnect(c)
  BY <1>3 DEF Connect, Replay, Disconnect, state, worker, chaos, OneWorker, Active
<1>4. ASSUME NEW stepped \in BOOLEAN, Start(stepped) PROVE OneWorker'
  <2>1. /\ ~running /\ running' /\ run' = run + 1 /\ step' \in {None, run'}
        /\ loop = None /\ UNCHANGED <<loop, chaosPc, target>>
        /\ pc' = [pc EXCEPT ![run'] = "baseline"]
    BY <1>4 DEF Start, MayStart, Free, chaos
  <2>. QED  BY <2>1 DEF OneWorker, Active, TypeOK
<1>5. CASE Press \/ Finish \/ FinishSet
  <2>1. /\ UNCHANGED <<run, running, pc, chaosPc, target>>
        /\ step' \in {step, None} /\ loop' \in {loop, step, None}
    BY <1>5, FinishSteps DEF Press, Finish, FinishSet, state, worker, chaos
  <2>. QED  BY <2>1 DEF OneWorker, Active
<1>6. ASSUME NEW t \in ChaosThread, Chaos(t) \/ ChaosStep(t) PROVE OneWorker'
  <2>1. UNCHANGED <<run, running, pc, step, loop>>
    BY <1>6 DEF Chaos, ChaosStep, ChaosSays, state, worker
  <2>2. \A u \in ChaosThread : chaosPc'[u] = "report" => target'[u] # None
    BY <1>6 DEF Chaos, ChaosStep, ChaosSays, TypeOK, OneWorker
  <2>. QED  BY <2>1, <2>2 DEF OneWorker, Active
<1>7. ASSUME NEW r \in Run, WorkerStep(r) PROVE OneWorker'
  BY <1>7, WorkerKeeps DEF OneWorker, Active
<1>. QED  BY <1>1, <1>2, <1>3, <1>4, <1>5, <1>6, <1>7 DEF Next

-----------------------------------------------------------------------------
(* The gate *)

\* The Event is set, and the worker does not hold what it is about to clear.
Armed == run # 0 /\ flag[run] /\ pc[run] # "rearm"

\* A press that has let no task through yet is in the Event or on its way
\* there; two of them may have become one.
Account == released + (IF Armed THEN 1 ELSE 0) + (IF loop # None THEN 1 ELSE 0) <= pressed

\* A press adds at most one to what is in the Event.
LEMMA AccountStep == TypeOK /\ OneWorker /\ Account /\ [Next]_vars => Account'
<1>. SUFFICES ASSUME TypeOK, OneWorker, Account, [Next]_vars PROVE Account'
  OBVIOUS
<1>. Runs \in Nat /\ Run = 1..Runs /\ None = 0 /\ run \in 0..Runs
  BY ServerAssumption DEF Run, None, TypeOK
<1>. pressed \in Nat /\ released \in Nat
  BY DEF TypeOK
<1>1. CASE UNCHANGED vars
  BY <1>1 DEF vars, state, worker, counts, Account, Armed
<1>2. CASE (\E p \in Publisher : Put(p)) \/ PumpTake \/ PumpSend \/ PumpDone
  BY <1>2 DEF Put, PumpTake, PumpSend, PumpDone, state, worker, counts, Account, Armed
<1>3. CASE \E c \in Tab : Connect(c) \/ Replay(c) \/ Disconnect(c)
  BY <1>3 DEF Connect, Replay, Disconnect, state, worker, counts, Account, Armed
<1>4. ASSUME NEW stepped \in BOOLEAN, Start(stepped) PROVE Account'
  <2>1. /\ run' \in Run /\ flag' = [r \in Run |-> FALSE] /\ loop' = None
        /\ pressed' = 0 /\ released' = 0
    BY <1>4 DEF Start, MayStart, Free
  <2>. QED  BY <2>1 DEF Account, Armed
<1>5. CASE Press
  <2>1. pressed' = pressed + 1 /\ UNCHANGED <<released, loop, run, pc>> /\ step = run
    BY <1>5 DEF Press, Pressed, state, worker, OneWorker
  <2>. QED  BY <2>1 DEF Account, Armed
<1>6. CASE Finish
  <2>1. /\ pressed' = pressed + 1 /\ UNCHANGED <<released, flag, run, pc>> /\ loop = None
    BY <1>6, FinishSteps DEF Finish, Pressed, Free, worker
  <2>. QED  BY <2>1 DEF Account, Armed
<1>7. CASE FinishSet
  <2>1. /\ UNCHANGED <<pressed, released, run, pc>> /\ loop # None /\ loop' = None
    BY <1>7, FinishSteps DEF FinishSet, worker, counts
  <2>. QED  BY <2>1 DEF Account, Armed
<1>8. ASSUME NEW t \in ChaosThread, Chaos(t) \/ ChaosStep(t) PROVE Account'
  BY <1>8 DEF Chaos, ChaosStep, ChaosSays, state, worker, counts, Account, Armed
<1>9. ASSUME NEW r \in Run, WorkerStep(r) PROVE Account'
  <2>1. UNCHANGED <<run, loop, pressed>> /\ \A x \in Run \ {r} : pc'[x] = pc[x]
    BY <1>9, WorkerKeeps
  <2>2. CASE Released(r)
    <3>1. /\ r = run /\ held[r] = r /\ flag[r] /\ pc[r] = "wait"
          /\ released' = released + 1 /\ pc'[r] = "rearm" /\ flag' = flag
      BY <2>2 DEF Released, Goes, OneWorker, Active, TypeOK
    <3>. QED  BY <2>1, <3>1 DEF Account, Armed
  <2>3. CASE Rearm(r)
    <3>1. /\ r = run /\ held[r] = r /\ released' = released /\ flag' = [flag EXCEPT ![r] = FALSE]
      BY <2>3 DEF Rearm, Cleared, Goes, OneWorker, Active, TypeOK
    <3>2. ~flag'[r]
      BY <3>1 DEF TypeOK
    <3>. QED  BY <2>1, <3>1, <3>2 DEF Account, Armed
  <2>4. CASE ~Released(r) /\ ~Rearm(r)
    <3>1. UNCHANGED <<released, flag>> /\ pc[r] # "rearm"
      BY <1>9, <2>4 DEF WorkerStep, Baseline, RunStart, GateOpen, Await, Expire, Ungate,
         RunTask, Report, RunEnd, Keep, Crash, Final, Idle, Says, Goes, state, counts
    <3>. QED  BY <2>1, <3>1 DEF Account, Armed
  <2>. QED  BY <2>2, <2>3, <2>4
<1>. QED  BY <1>1, <1>2, <1>3, <1>4, <1>5, <1>6, <1>7, <1>8, <1>9 DEF Next

\* Who waits is the worker of the last run, and the Event it holds is that run's.
LEMMA StrandedStep ==
    ASSUME TypeOK, TypeOK', OneWorker, OneWorker', NeverStranded, [Next]_vars
    PROVE  NeverStranded'
<1>. SUFFICES ASSUME NEW w \in Run, pc'[w] = "wait", ~flag'[w]
              PROVE  step' = w \/ loop' = w
  BY DEF NeverStranded, TypeOK
<1>. Runs \in Nat /\ Run = 1..Runs /\ None = 0 /\ run \in 0..Runs
  BY ServerAssumption DEF Run, None, TypeOK
<1>. w = run'
  BY DEF OneWorker, Active
<1>. DEFINE Before == pc[w] = "wait" /\ ~flag[w]
<1>1. ASSUME Before PROVE step = w \/ loop = w
  BY <1>1 DEF NeverStranded, TypeOK
<1>2. ASSUME UNCHANGED <<pc, flag, step, loop>> PROVE step' = w \/ loop' = w
  BY <1>1, <1>2
<1>3. ASSUME UNCHANGED vars \/ (\E p \in Publisher : Put(p)) \/ PumpTake \/ PumpSend \/ PumpDone
             \/ (\E c \in Tab : Connect(c) \/ Replay(c) \/ Disconnect(c))
             \/ (\E t \in ChaosThread : Chaos(t) \/ ChaosStep(t))
      PROVE  UNCHANGED <<pc, flag, step, loop>>
  BY <1>3 DEF vars, Put, PumpTake, PumpSend, PumpDone, Connect, Replay, Disconnect, Chaos,
              ChaosStep, ChaosSays, state, worker
<1>4. ASSUME NEW stepped \in BOOLEAN, Start(stepped) PROVE FALSE
  <2>1. pc'[w] = "baseline"
    BY <1>4 DEF Start, TypeOK
  <2>. QED  BY <2>1
<1>5. CASE Press
  BY <1>1, <1>5 DEF Press, state, worker, TypeOK
<1>6. CASE Finish
  <2>1. pc' = pc /\ flag' = flag /\ loop = None /\ loop' = step
    BY <1>6, FinishSteps DEF Finish, Free, worker
  <2>. QED  BY <1>1, <2>1
<1>7. CASE FinishSet
  <2>1. /\ pc' = pc /\ step' = step /\ loop # None /\ run' = run
        /\ flag' = [flag EXCEPT ![loop] = TRUE]
    BY <1>7, FinishSteps DEF FinishSet, worker
  <2>2. loop = w /\ flag'[w]
    BY <2>1 DEF OneWorker, TypeOK
  <2>. QED  BY <2>2
<1>8. ASSUME NEW r \in Run, WorkerStep(r) PROVE step' = w \/ loop' = w
  <2>1. r = w => step = w /\ step' = step
    BY <1>8, WorkerKeeps DEF OneWorker
  <2>2. r # w => ~Active(r) /\ Before
    <3>1. r # w => pc[w] = "wait" /\ run' = run
      BY <1>8, WorkerKeeps
    <3>2. r # w => ~Active(r)
      BY <3>1 DEF OneWorker, Active
    <3>3. ~Active(r) => flag' = flag
      BY <1>8 DEF WorkerStep, Baseline, RunStart, GateOpen, Await, Released, Rearm, Expire,
         Ungate, RunTask, Report, RunEnd, Keep, Crash, Final, Idle, Says, Goes, Active
    <3>. QED  BY <3>1, <3>2, <3>3
  <2>3. ~Active(r) => UNCHANGED <<step, loop>>
    BY <1>8 DEF WorkerStep, Baseline, RunStart, GateOpen, Await, Released, Rearm, Expire,
       Ungate, RunTask, Report, RunEnd, Keep, Crash, Final, Idle, Says, Goes, Active, state
  <2>. QED  BY <1>1, <2>1, <2>2, <2>3
<1>. QED  BY <1>2, <1>3, <1>4, <1>5, <1>6, <1>7, <1>8 DEF Next

-----------------------------------------------------------------------------
(* The tabs *)

\* The pump copies all tabs there are, and keeps nobody's message to itself.
TabsInv ==
    /\ clients = opened
    /\ sending = NoMsg => sendTo = {}
    /\ CatchesUp

LEMMA RangeOfAppend ==
    ASSUME NEW S, NEW s \in Seq(S), NEW m \in S
    PROVE  Range(Append(s, m)) = Range(s) \cup {m}
<1>1. /\ DOMAIN Append(s, m) = 1..(Len(s) + 1) /\ DOMAIN s = 1..Len(s) /\ Len(s) \in Nat
      /\ Append(s, m)[Len(s) + 1] = m
      /\ \A i \in 1..Len(s) : Append(s, m)[i] = s[i]
  OBVIOUS
<1>2. \A i \in 1..(Len(s) + 1) : i \in 1..Len(s) \/ i = Len(s) + 1
  BY <1>1
<1>3. \A i \in 1..Len(s) : i \in 1..(Len(s) + 1)
  BY <1>1
<1>4. Len(s) + 1 \in 1..(Len(s) + 1)
  BY <1>1
<1>. QED  BY <1>1, <1>2, <1>3, <1>4, Zenon DEF Range

LEMMA RangeOfTail ==
    ASSUME NEW S, NEW s \in Seq(S), s # <<>>
    PROVE  Range(s) \subseteq Range(Tail(s)) \cup {Head(s)}
<1>1. ASSUME NEW i \in DOMAIN s, i # 1
      PROVE  i - 1 \in DOMAIN Tail(s) /\ Tail(s)[i - 1] = s[i]
  BY <1>1
<1>2. s[1] = Head(s)
  OBVIOUS
<1>. QED  BY <1>1, <1>2, Zenon DEF Range

\* A publication goes into its publisher's hands when it goes into the buffer.
LEMMA PublishTabs ==
    ASSUME TypeOK, TabsInv, NEW p \in Publisher, NEW m \in Message, out[p] = NoMsg,
           Publish(p, m), UNCHANGED <<q, sending, sendTo>>
    PROVE  TabsInv'
<1>1. UNCHANGED <<opened, clients, replay>> /\ out' = [out EXCEPT ![p] = m]
  BY DEF Publish
<1>2. ASSUME NEW x \in Range(out), x # NoMsg PROVE x \in Range(out')
  <2>1. PICK u \in Publisher : out[u] = x
    BY <1>2 DEF Range, TypeOK
  <2>2. u # p /\ out'[u] = x /\ u \in DOMAIN out'
    BY <1>1, <1>2, <2>1 DEF TypeOK
  <2>. QED  BY <2>2, Zenon DEF Range
<1>3. m \in Range(out')
  <2>1. p \in DOMAIN out' /\ out'[p] = m
    BY <1>1 DEF TypeOK
  <2>. QED  BY <2>1, Zenon DEF Range
<1>4. ASSUME NEW c \in opened, NEW x \in due'[c] PROVE x \in OnItsWay(c)'
  <2>1. c \in Tab /\ due'[c] \subseteq due[c] \cup {m}
    BY DEF Publish, TypeOK
  <2>2. CASE x = m
    BY <1>3, <2>2 DEF OnItsWay
  <2>3. CASE x \in due[c]
    <3>1. x \in OnItsWay(c) /\ x # NoMsg
      BY <2>1, <2>3, NoMsgAssumption DEF TabsInv, CatchesUp, TypeOK
    <3>. QED  BY <1>1, <1>2, <3>1 DEF OnItsWay
  <2>. QED  BY <2>1, <2>2, <2>3
<1>. QED  BY <1>1, <1>4 DEF TabsInv, CatchesUp

\* Whatever moves a message moves it on.
LEMMA TabsStep == TypeOK /\ OneWorker /\ TabsInv /\ [Next]_vars => TabsInv'
<1>. SUFFICES ASSUME TypeOK, OneWorker, TabsInv, [Next]_vars PROVE TabsInv'
  OBVIOUS
<1>1. ASSUME UNCHANGED <<out, q, tabs, pump>> PROVE TabsInv'
  BY <1>1 DEF tabs, pump, TabsInv, CatchesUp, OnItsWay
<1>2. ASSUME NEW p \in Publisher, Put(p) PROVE TabsInv'
  <2>1. /\ Range(q') = Range(q) \cup {out[p]} /\ out' = [out EXCEPT ![p] = NoMsg]
        /\ UNCHANGED <<tabs, pump>>
    <3>1. out[p] \in Message /\ q \in Seq(Message) /\ q' = Append(q, out[p])
      BY <1>2 DEF Put, TypeOK
    <3>2. Range(q') = Range(q) \cup {out[p]}
      BY <3>1, RangeOfAppend
    <3>. QED  BY <1>2, <3>2 DEF Put
  <2>2. ASSUME NEW x \in Range(out) PROVE x \in Range(out') \cup Range(q')
    <3>1. PICK u \in Publisher : out[u] = x
      BY DEF Range, TypeOK
    <3>2. CASE u = p
      BY <2>1, <3>1, <3>2
    <3>3. CASE u # p
      <4>1. u \in DOMAIN out' /\ out'[u] = x
        BY <2>1, <3>1, <3>3 DEF TypeOK
      <4>. QED  BY <4>1, Zenon DEF Range
    <3>. QED  BY <3>2, <3>3
  <2>3. Range(q) \subseteq Range(q')
    BY <2>1
  <2>. QED  BY <2>1, <2>2, <2>3 DEF tabs, pump, TabsInv, CatchesUp, OnItsWay
<1>3. CASE PumpTake
  <2>1. /\ sending = NoMsg /\ sendTo' = clients /\ UNCHANGED <<out, tabs>>
        /\ Range(q) \subseteq Range(q') \cup {sending'}
    BY <1>3, RangeOfTail DEF PumpTake, TypeOK
  <2>2. sending' # NoMsg
    BY <1>3, NoMsgAssumption DEF PumpTake, TypeOK
  <2>. QED  BY <2>1, <2>2 DEF tabs, TabsInv, CatchesUp, OnItsWay
<1>4. CASE PumpSend
  <2>1. PICK c \in sendTo : sendTo' = sendTo \ {c} /\ Gets(c, sending)
    BY <1>4 DEF PumpSend
  <2>2. UNCHANGED <<out, q, opened, clients, replay, sending>> /\ sending # NoMsg
    BY <1>4, <2>1 DEF PumpSend, TabsInv
  <2>3. \A b \in Tab : due'[b] = IF b = c THEN due[b] \ {sending} ELSE due[b]
    BY <2>1 DEF Gets, TypeOK
  <2>4. ASSUME NEW b \in opened, NEW x \in due'[b] PROVE x \in OnItsWay(b)'
    <3>1. b \in Tab /\ x \in due[b] /\ (b = c => x # sending)
      BY <2>3 DEF TypeOK
    <3>2. x \in OnItsWay(b)
      BY <3>1 DEF TabsInv, CatchesUp
    <3>. QED  BY <2>1, <2>2, <3>1, <3>2 DEF OnItsWay
  <2>. QED  BY <2>2, <2>4 DEF TabsInv, CatchesUp
<1>5. CASE PumpDone
  BY <1>5 DEF PumpDone, tabs, TabsInv, CatchesUp, OnItsWay
<1>6. ASSUME NEW c \in Tab, Connect(c) PROVE TabsInv'
  <2>1. /\ opened' = opened \cup {c} /\ clients' = clients \cup {c}
        /\ UNCHANGED <<out, q, pump>>
        /\ \A b \in Tab : /\ replay'[b] = IF b = c THEN history ELSE replay[b]
                          /\ due'[b] = IF b = c THEN Range(history) ELSE due[b]
    BY <1>6 DEF Connect, Joins, TypeOK
  <2>. QED  BY <2>1 DEF pump, TabsInv, CatchesUp, OnItsWay, TypeOK
<1>7. ASSUME NEW c \in Tab, Replay(c) PROVE TabsInv'
  <2>1. Range(replay[c]) \subseteq Range(Tail(replay[c])) \cup {Head(replay[c])}
    BY <1>7, RangeOfTail DEF Replay, TypeOK
  <2>2. /\ UNCHANGED <<out, q, opened, clients, pump>>
        /\ \A b \in Tab :
              /\ replay'[b] = IF b = c THEN Tail(replay[c]) ELSE replay[b]
              /\ due'[b] = IF b = c THEN due[c] \ {Head(replay[c])} ELSE due[b]
    BY <1>7 DEF Replay, Gets, TypeOK
  <2>3. ASSUME NEW b \in opened, NEW x \in due'[b] PROVE x \in OnItsWay(b)'
    <3>1. b \in Tab /\ x \in due[b] /\ (b = c => x # Head(replay[c]))
      BY <2>2 DEF TypeOK
    <3>2. x \in OnItsWay(b)
      BY <3>1 DEF TabsInv, CatchesUp
    <3>. QED  BY <2>1, <2>2, <3>1, <3>2 DEF OnItsWay, pump
  <2>. QED  BY <2>2, <2>3 DEF pump, TabsInv, CatchesUp
<1>8. ASSUME NEW c \in Tab, Disconnect(c) PROVE TabsInv'
  <2>1. /\ opened' = opened \ {c} /\ clients' = clients \ {c} /\ sendTo' = sendTo \ {c}
        /\ UNCHANGED <<out, q, sending>>
        /\ \A b \in Tab \ {c} : replay'[b] = replay[b] /\ due'[b] = due[b]
    BY <1>8 DEF Disconnect, TypeOK
  <2>. QED  BY <2>1 DEF TabsInv, CatchesUp, OnItsWay, TypeOK
<1>9. ASSUME NEW stepped \in BOOLEAN, Start(stepped) PROVE TabsInv'
  <2>1. /\ due' = [c \in Tab |-> {}] /\ UNCHANGED <<opened, clients, pump>>
    BY <1>9 DEF Start
  <2>. QED  BY <2>1 DEF pump, TabsInv, CatchesUp, TypeOK
<1>10. CASE Press \/ Finish \/ FinishSet
  BY <1>1, <1>10 DEF Press, Finish, FinishSet
<1>11. ASSUME NEW t \in ChaosThread, Chaos(t) \/ ChaosStep(t) PROVE TabsInv'
  <2>1. CASE Chaos(t)
    BY <1>1, <2>1 DEF Chaos
  <2>2. ASSUME NEW kind \in ChaosKinds, ChaosSays(t, "report", kind, "done") PROVE TabsInv'
    <3>. DEFINE m == [by |-> t, run |-> target[t], kind |-> kind, idx |-> 0]
    <3>1. m \in Message /\ t \in Publisher
      BY <2>2, ServerAssumption DEF ChaosSays, TypeOK, OneWorker, Message, Publisher, Run, None
    <3>2. Publish(t, m) /\ out[t] = NoMsg /\ UNCHANGED <<q, sending, sendTo>>
      BY <2>2 DEF ChaosSays, pump
    <3>. QED  BY <3>1, <3>2, PublishTabs
  <2>. QED  BY <1>11, <2>1, <2>2 DEF ChaosStep
<1>12. ASSUME NEW r \in Run, WorkerStep(r) PROVE TabsInv'
  <2>1. ASSUME NEW from, NEW kind \in WorkerKinds, NEW to, Says(r, from, kind, to)
        PROVE  TabsInv'
    <3>. DEFINE m == [by |-> r, run |-> r, kind |-> kind, idx |-> idx[r]]
    <3>1. m \in Message /\ r \in Publisher
      BY DEF TypeOK, Message, Publisher
    <3>2. Publish(r, m) /\ out[r] = NoMsg /\ UNCHANGED <<q, sending, sendTo>>
      BY <2>1 DEF Says, pump
    <3>. QED  BY <3>1, <3>2, PublishTabs
  <2>2. \/ UNCHANGED <<out, q, tabs, pump>>
        \/ \E from, to : \E kind \in WorkerKinds : Says(r, from, kind, to)
    BY <1>12, Zenon DEF WorkerStep, Baseline, RunStart, GateOpen, Await, Released, Rearm, Expire,
       Ungate, RunTask, Report, RunEnd, Keep, Crash, Final, Idle, Goes, WorkerKinds
  <2>. QED  BY <1>1, <2>1, <2>2
<1>. QED  BY <1>1, <1>2, <1>3, <1>4, <1>5, <1>6, <1>7, <1>8, <1>9, <1>10, <1>11, <1>12
          DEF Next, vars

-----------------------------------------------------------------------------
(* The story the buffer tells *)

\* Where the last run's worker stands in its story.
Place ==
    run # 0 =>
       /\ pc[run] \in {"baseline", "run_start"} =>
             \A i \in DOMAIN history : history[i].kind # "task"
       /\ pc[run] \in {"gate", "wait", "rearm", "expired", "task", "report"} =>
             \A i \in DOMAIN history :
                history[i].kind = "task" => history[i].idx < idx[run]
       /\ pc[run] = "report" => idx[run] \in rows

StoryInv == HistoryIsOfThisRun /\ Place

\* A message of this run, or one that may come late, continues the story if
\* it tells of no task, or of the next one.
LEMMA PublishStory ==
    ASSUME TypeOK, HistoryIsOfThisRun, NEW p, NEW m \in Message, Publish(p, m),
           m.run = run \/ m.kind = "idle" \/ m.by \in ChaosThread,
           m.kind = "task" => /\ m.idx \in rows
                              /\ \A i \in DOMAIN history :
                                    history[i].kind = "task" => history[i].idx < m.idx,
           UNCHANGED <<run, rows>>
    PROVE  /\ HistoryIsOfThisRun'
           /\ \A i \in DOMAIN history' :
                 history'[i] = m \/ \E j \in DOMAIN history : history'[i] = history[j]
<1>1. history' = Kept(Append(history, m)) /\ history \in Seq(Message)
  BY DEF Publish, TypeOK
<1>2. PICK d \in Nat : \A i \in DOMAIN history' :
         \/ i + d \in DOMAIN history /\ history'[i] = history[i + d]
         \/ i + d = Len(history) + 1 /\ history'[i] = m
  <2>. DEFINE h == Kept(Append(history, m))
  <2>1. \E d \in Nat : \A i \in DOMAIN h :
           \/ i + d \in DOMAIN history /\ h[i] = history[i + d]
           \/ i + d = Len(history) + 1 /\ h[i] = m
    BY <1>1, Published
  <2>2. history' = h
    BY <1>1
  <2>. HIDE DEF h
  <2>. QED  BY <2>1, <2>2
<1>3. DOMAIN history = 1..Len(history) /\ Len(history) \in Nat /\ DOMAIN history' = 1..Len(history')
      /\ Len(history') \in Nat
  BY <1>1, Published
<1>4. \A i \in DOMAIN history' :
         history'[i] = m \/ \E j \in DOMAIN history : history'[i] = history[j]
  BY <1>2
<1>5. ASSUME NEW i \in DOMAIN history', history'[i].run # run'
      PROVE  history'[i].kind = "idle" \/ history'[i].by \in ChaosThread
  BY <1>4, <1>5 DEF HistoryIsOfThisRun
<1>6. ASSUME NEW i \in DOMAIN history', history'[i].kind = "task"
      PROVE  history'[i].idx \in rows'
  BY <1>4, <1>6 DEF HistoryIsOfThisRun
<1>7. ASSUME NEW i \in DOMAIN history', NEW j \in 1..(i - 1),
             history'[i].kind = "task", history'[j].kind = "task"
      PROVE  history'[j].idx < history'[i].idx
  <2>1. j \in DOMAIN history' /\ i \in Nat /\ j \in Nat /\ j < i
    BY <1>3
  <2>2. j + d \in DOMAIN history /\ history'[j] = history[j + d]
    BY <1>2, <1>3, <2>1
  <2>3. CASE i + d \in DOMAIN history /\ history'[i] = history[i + d]
    BY <1>3, <1>7, <2>1, <2>2, <2>3 DEF HistoryIsOfThisRun
  <2>4. CASE history'[i] = m
    BY <1>7, <2>2, <2>4
  <2>. QED  BY <1>2, <2>3, <2>4
<1>. QED  BY <1>4, <1>5, <1>6, <1>7 DEF HistoryIsOfThisRun

\* What tells of no task leaves the worker's place as it is.
LEMMA PublishPlace ==
    ASSUME TypeOK, StoryInv, NEW p, NEW m \in Message, Publish(p, m), m.kind # "task",
           m.run = run \/ m.kind = "idle" \/ m.by \in ChaosThread,
           UNCHANGED <<run, rows>>,
           run # 0 => /\ pc'[run] = pc[run] \/ pc'[run] \in {"run_start", "wait", "keep",
                                                        "final", "idle", "done"}
                      /\ pc'[run] = "run_start" => pc[run] \in {"baseline", "run_start"}
                      /\ pc'[run] = "wait" => pc[run] \in {"gate", "wait"}
                      /\ idx'[run] = idx[run] \/ pc'[run] = "done"
    PROVE  StoryInv'
<1>1. /\ HistoryIsOfThisRun'
      /\ \A i \in DOMAIN history' :
            history'[i] = m \/ \E j \in DOMAIN history : history'[i] = history[j]
  BY PublishStory DEF StoryInv
<1>2. Place'
  BY <1>1 DEF StoryInv, Place
<1>. QED  BY <1>1, <1>2 DEF StoryInv

LEMMA StoryStep == TypeOK /\ OneWorker /\ StoryInv /\ [Next]_vars => StoryInv'
<1>. SUFFICES ASSUME TypeOK, OneWorker, StoryInv, [Next]_vars PROVE StoryInv'
  OBVIOUS
<1>. Runs \in Nat /\ Run = 1..Runs /\ None = 0 /\ run \in 0..Runs
  BY ServerAssumption DEF Run, None, TypeOK
<1>1. ASSUME UNCHANGED <<history, rows, run, pc, idx>> PROVE StoryInv'
  BY <1>1 DEF StoryInv, HistoryIsOfThisRun, Place
<1>2. ASSUME \/ UNCHANGED vars \/ (\E p \in Publisher : Put(p))
             \/ PumpTake \/ PumpSend \/ PumpDone
             \/ (\E c \in Tab : Connect(c) \/ Replay(c) \/ Disconnect(c))
             \/ Press \/ Finish \/ FinishSet
             \/ (\E t \in ChaosThread : Chaos(t))
      PROVE  UNCHANGED <<history, rows, run, pc, idx>>
  BY <1>2 DEF vars, Put, PumpTake, PumpSend, PumpDone, Connect, Replay, Disconnect, Press,
              Finish, FinishSet, Chaos, state, worker
<1>3. ASSUME NEW stepped \in BOOLEAN, Start(stepped) PROVE StoryInv'
  <2>1. history' = <<>> /\ pc'[run'] = "baseline"
    BY <1>3 DEF Start, MayStart, TypeOK
  <2>. QED  BY <2>1 DEF StoryInv, HistoryIsOfThisRun, Place
<1>4. ASSUME NEW t \in ChaosThread, ChaosStep(t) PROVE StoryInv'
  <2>1. PICK kind \in ChaosKinds : ChaosSays(t, "report", kind, "done")
    BY <1>4 DEF ChaosStep
  <2>. DEFINE m == [by |-> t, run |-> target[t], kind |-> kind, idx |-> 0]
  <2>2. m \in Message /\ m.kind # "task" /\ m.by \in ChaosThread
    BY <2>1 DEF ChaosSays, TypeOK, OneWorker, Message, Publisher, ChaosKinds
  <2>3. Publish(t, m) /\ UNCHANGED <<run, rows, pc, idx>>
    BY <2>1 DEF ChaosSays, state, worker
  <2>. HIDE DEF m
  <2>4. pc'[run] = pc[run] /\ idx'[run] = idx[run]
    BY <2>3
  <2>. QED  BY <2>2, <2>3, <2>4, PublishPlace
<1>5. ASSUME NEW r \in Run, WorkerStep(r) PROVE StoryInv'
  <2>1. Active(r) => r = run
    BY DEF OneWorker
  <2>. DEFINE m(kind) == [by |-> r, run |-> r, kind |-> kind, idx |-> idx[r]]
  <2>2. \A kind \in WorkerKinds : m(kind) \in Message /\ m(kind).kind = kind
                                 /\ m(kind).run = r /\ m(kind).idx = idx[r]
    BY DEF Message, Publisher, TypeOK
  <2>3. \A from, kind, to : Says(r, from, kind, to) =>
           /\ Publish(r, m(kind)) /\ pc[r] = from /\ pc'[r] = to
           /\ \A x \in Run \ {r} : pc'[x] = pc[x]
    BY DEF Says, TypeOK
  <2>. HIDE DEF m
  <2>4. CASE Baseline(r) \/ Await(r) \/ RunEnd(r) \/ Crash(r)
    <3>1. ASSUME NEW from, NEW kind \in WorkerKinds \ {"task"},
                 NEW to \in {"run_start", "wait", "keep", "final"},
                 Says(r, from, kind, to), from # "idle", UNCHANGED <<run, rows, idx>>,
                 to = "run_start" => from = "baseline",
                 to = "wait" => from = "gate"
          PROVE  StoryInv'
      <4>1. /\ Publish(r, m(kind)) /\ pc[r] = from /\ pc'[r] = to
            /\ \A x \in Run \ {r} : pc'[x] = pc[x]
        BY <2>3, <3>1
      <4>2. m(kind) \in Message /\ m(kind).kind # "task" /\ m(kind).run = r
        BY <2>2, <3>1
      <4>3. r = run
        BY <2>1, <2>4 DEF Baseline, Await, RunEnd, Crash, Says, Active
      <4>. QED  BY <3>1, <4>1, <4>2, <4>3, PublishPlace
    <3>2. {"baseline", "awaiting_step", "run_end", "error"} \subseteq WorkerKinds \ {"task"}
      BY DEF WorkerKinds
    <3>3. CASE Baseline(r)
      BY <3>1, <3>2, <3>3 DEF Baseline, state
    <3>4. CASE Await(r)
      BY <3>1, <3>2, <3>4 DEF Await, state
    <3>5. CASE RunEnd(r)
      BY <3>1, <3>2, <3>5 DEF RunEnd, state
    <3>6. CASE Crash(r)
      <4>1. PICK place \in {"baseline", "task"} : Says(r, place, "error", "final")
        BY <3>6 DEF Crash
      <4>2. UNCHANGED <<run, rows, idx>>
        BY <3>6 DEF Crash, state
      <4>. QED  BY <3>1, <3>2, <4>1, <4>2
    <3>. QED  BY <2>4, <3>3, <3>4, <3>5, <3>6
  <2>5. CASE RunStart(r)
    <3>1. /\ Says(r, "run_start", "run_start", "gate") /\ UNCHANGED <<run, rows>>
          /\ r = run /\ "run_start" \in WorkerKinds
      BY <2>1, <2>5 DEF RunStart, Says, state, WorkerKinds, Active
    <3>2. /\ Publish(r, m("run_start")) /\ pc[run] = "run_start" /\ pc'[run] = "gate"
          /\ m("run_start") \in Message /\ m("run_start").kind = "run_start"
          /\ m("run_start").run = run
      BY <2>2, <2>3, <3>1
    <3>3. /\ HistoryIsOfThisRun'
          /\ \A i \in DOMAIN history' : history'[i] = m("run_start")
                                      \/ \E j \in DOMAIN history : history'[i] = history[j]
      BY <3>1, <3>2, PublishStory DEF StoryInv
    <3>4. \A j \in DOMAIN history : history[j].kind # "task"
      BY <3>1, <3>2 DEF StoryInv, Place
    <3>. QED  BY <3>1, <3>2, <3>3, <3>4 DEF StoryInv, Place
  <2>6. CASE Report(r)
    <3>1. /\ pc[r] = "report" /\ UNCHANGED <<run, rows>> /\ r = run /\ "task" \in WorkerKinds
          /\ \/ Says(r, "report", "task", "gate") /\ idx' = [idx EXCEPT ![r] = @ + 1]
             \/ Says(r, "report", "task", "run_end")
      BY <2>1, <2>6 DEF Report, Says, state, WorkerKinds, Active
    <3>2. /\ Publish(r, m("task"))
          /\ m("task") \in Message /\ m("task").run = run /\ m("task").idx = idx[run]
      BY <2>2, <2>3, <3>1
    <3>3. /\ idx[run] \in rows /\ idx[run] \in Nat
          /\ \A j \in DOMAIN history : history[j].kind = "task" => history[j].idx < idx[run]
      BY <3>1 DEF StoryInv, Place, TypeOK
    <3>4. /\ HistoryIsOfThisRun'
          /\ \A i \in DOMAIN history' : history'[i] = m("task")
                                      \/ \E j \in DOMAIN history : history'[i] = history[j]
      BY <3>1, <3>2, <3>3, PublishStory DEF StoryInv
    <3>5. CASE pc'[r] = "run_end"
      BY <3>1, <3>4, <3>5 DEF StoryInv, Place
    <3>6. CASE pc'[r] = "gate" /\ idx' = [idx EXCEPT ![r] = @ + 1]
      <4>1. idx'[run] = idx[run] + 1
        BY <3>1, <3>6 DEF TypeOK
      <4>2. \A j \in DOMAIN history : history[j].idx \in Nat
        <5>1. history \in Seq(Message)
          BY DEF TypeOK
        <5>2. \A j \in DOMAIN history : history[j] \in Message
          BY <5>1
        <5>. QED  BY <5>2 DEF Message
      <4>3. ASSUME NEW i \in DOMAIN history', history'[i].kind = "task"
            PROVE  history'[i].idx < idx'[run]
        BY <3>2, <3>3, <3>4, <4>1, <4>2, <4>3
      <4>. QED  BY <3>1, <3>4, <3>6, <4>3 DEF StoryInv, Place
    <3>. QED  BY <2>3, <3>1, <3>5, <3>6
  <2>7. CASE Idle(r)
    <3>1. /\ Says(r, "idle", "idle", "done") /\ UNCHANGED <<run, rows>> /\ "idle" \in WorkerKinds
          /\ \A x \in Run \ {r} : idx'[x] = idx[x]
      BY <2>7 DEF Idle, state, WorkerKinds, TypeOK
    <3>. QED  BY <2>2, <2>3, <3>1, PublishPlace
  <2>8. CASE RunTask(r)
    <3>1. /\ r = run /\ pc[run] = "task" /\ pc'[run] = "report" /\ rows' = rows \cup {idx[run]}
          /\ UNCHANGED <<run, history, idx>>
      BY <2>1, <2>8 DEF RunTask, Goes, Active, TypeOK
    <3>. QED  BY <3>1 DEF StoryInv, HistoryIsOfThisRun, Place
  <2>9. CASE GateOpen(r) \/ Released(r) \/ Rearm(r) \/ Expire(r) \/ Ungate(r) \/ Keep(r)
             \/ Final(r)
    <3>1. /\ UNCHANGED <<run, history, idx, rows>> /\ r = run
          /\ pc'[run] \in {"task", "rearm", "expired", "final", "idle"}
          /\ pc'[run] \in {"task", "rearm", "expired"} =>
                pc[run] \in {"gate", "wait", "rearm", "expired"}
      BY <2>1, <2>9 DEF GateOpen, Released, Rearm, Expire, Ungate, Keep, Final, Goes, Active,
                        TypeOK
    <3>. QED  BY <3>1 DEF StoryInv, HistoryIsOfThisRun, Place
  <2>. QED  BY <1>5, <2>4, <2>5, <2>6, <2>7, <2>8, <2>9 DEF WorkerStep
<1>. QED  BY <1>1, <1>2, <1>3, <1>4, <1>5 DEF Next

-----------------------------------------------------------------------------
(* The theorems *)

IInv == TypeOK /\ OneWorker /\ Account /\ NeverStranded /\ TabsInv /\ StoryInv

LEMMA InitIInv == Init => IInv
<1>. SUFFICES ASSUME Init PROVE IInv
  OBVIOUS
<1>. Runs \in Nat /\ Run = 1..Runs /\ None = 0
  BY ServerAssumption DEF Run, None
<1>1. TypeOK
  <2>1. <<>> \in Seq(Message) /\ Len(<<>>) <= HISTORY
    BY ServerAssumption
  <2>2. /\ history \in Seq(Message) /\ Len(history) <= HISTORY /\ q \in Seq(Message)
        /\ replay \in [Tab -> Seq(Message)] /\ due \in [Tab -> SUBSET Message]
    BY <2>1 DEF Init
  <2>3. /\ flag \in [Run -> BOOLEAN] /\ idx \in [Run -> Nat] /\ held \in [Run -> 0..Runs]
        /\ target \in [ChaosThread -> 0..Runs] /\ out \in [Publisher -> Message \cup {NoMsg}]
    BY DEF Init
  <2>4. /\ pc = [r \in Run |-> "new"] /\ chaosPc = [t \in ChaosThread |-> "new"]
        /\ opened = {} /\ clients = {} /\ sendTo = {} /\ rows = {} /\ sending = NoMsg
        /\ running = FALSE /\ cast \in Casts /\ pressed = 0 /\ released = 0
        /\ mesh = 0 /\ step = 0 /\ run = 0 /\ loop = 0
    BY DEF Init
  <2>5. /\ pc \in [Run -> {"new", "baseline", "run_start", "gate", "wait", "rearm", "expired",
                          "task", "report", "run_end", "keep", "final", "idle", "done"}]
        /\ chaosPc \in [ChaosThread -> {"new", "report", "done"}]
        /\ \A r \in Run : pc[r] \in {"wait", "rearm"} => held[r] = r
    BY <2>4
  <2>6. /\ cast \in Casts /\ running \in BOOLEAN /\ rows \subseteq Nat
        /\ mesh \in 0..Runs /\ step \in 0..Runs /\ run \in 0..Runs /\ loop \in 0..Runs
        /\ opened \subseteq Tab /\ clients \subseteq opened /\ sendTo \subseteq clients
        /\ sending \in Message \cup {NoMsg} /\ pressed \in Nat /\ released \in Nat
    <3>1. running \in BOOLEAN
      BY <2>4, Zenon
    <3>2. /\ rows \subseteq Nat
          /\ mesh \in 0..Runs /\ step \in 0..Runs /\ run \in 0..Runs /\ loop \in 0..Runs
          /\ pressed \in Nat /\ released \in Nat
      BY <2>4
    <3>3. /\ opened \subseteq Tab /\ clients \subseteq opened /\ sendTo \subseteq clients
          /\ sending \in Message \cup {NoMsg}
      BY <2>4
    <3>. QED  BY <2>4, <3>1, <3>2, <3>3
  <2>. HIDE DEF Run, None
  <2>. QED  BY <2>2, <2>3, <2>5, <2>6, Zenon DEF TypeOK
<1>2. OneWorker /\ Account /\ NeverStranded
  BY DEF Init, OneWorker, Active, Account, Armed, NeverStranded
<1>3. TabsInv
  BY DEF Init, TabsInv, CatchesUp
<1>4. StoryInv
  BY DEF Init, StoryInv, HistoryIsOfThisRun, Place
<1>. QED  BY <1>1, <1>2, <1>3, <1>4 DEF IInv

\* IInv holds in every reachable state.
THEOREM Inductive == Spec => []IInv
<1>1. IInv /\ [Next]_vars => IInv'
  BY TypeStep, OneWorkerStep, AccountStep, StrandedStep, TabsStep, StoryStep DEF IInv
<1>. QED  BY <1>1, InitIInv, PTL DEF Spec

\* The variables of the server keep their types.
THEOREM TypeCorrect == Spec => []TypeOK
<1>1. IInv => TypeOK
  BY DEF IInv
<1>. QED  BY <1>1, Inductive, PTL

\* A connected tab misses nothing the buffer holds, however its connection, its
\* replay, the pump and the publishing threads interleave.
THEOREM TabsCatchUp == Spec => []CatchesUp
<1>1. IInv => CatchesUp
  BY DEF IInv, TabsInv
<1>. QED  BY <1>1, Inductive, PTL

\* The buffer tells one run's story, in order, each task with its row on file.
THEOREM OneStory == Spec => []HistoryIsOfThisRun
<1>1. IInv => HistoryIsOfThisRun
  BY DEF IInv, StoryInv
<1>. QED  BY <1>1, Inductive, PTL

\* No task passes the gate without a press of its own.
THEOREM PressesPay == Spec => []PressPays
<1>1. IInv => PressPays
  <2>1. released \in Nat /\ pressed \in Nat /\ Account => released <= pressed
    BY DEF Account
  <2>. QED  BY <2>1 DEF IInv, TypeOK, PressPays
<1>. QED  BY <1>1, Inductive, PTL

\* A worker never waits for an Event that no request can set any more.
THEOREM NobodyIsStranded == Spec => []NeverStranded
<1>1. IInv => NeverStranded
  BY DEF IInv
<1>. QED  BY <1>1, Inductive, PTL

-----------------------------------------------------------------------------
(* A run runs out of steps *)

\* A worker goes through its places in this order, once for every task.
Ahead(place) == CASE place \in {"new", "done"}         -> 0
                  [] place = "idle"                    -> 1
                  [] place = "final"                   -> 2
                  [] place = "keep"                    -> 3
                  [] place = "run_end"                 -> 4
                  [] place = "report"                  -> 5
                  [] place = "task"                    -> 6
                  [] place \in {"rearm", "expired"}    -> 7
                  [] place = "wait"                    -> 8
                  [] place = "gate"                    -> 9
                  [] place = "run_start"               -> 10
                  [] place = "baseline"                -> 11

AtTask(r) == pc[r] \in {"gate", "wait", "rearm", "expired", "task", "report"}

TasksAhead(r) == IF AtTask(r) THEN Tasks[r] - idx[r]
                 ELSE IF pc[r] \in {"baseline", "run_start"} THEN Tasks[r] ELSE 0

\* What worker r has still to do, counted in its own steps.
StepsLeft(r) == 5 * TasksAhead(r) + Ahead(pc[r])

\* A worker counts its tasks from one to the last.
TasksInv == \A r \in Run : AtTask(r) => idx[r] \in 1..Tasks[r]

\* A run that is in progress has its worker at work.
AtWork == running => run \in Run /\ Active(run)

\* Where a worker's step leads.
Move(r) == CASE pc[r] = "baseline"             -> pc'[r] \in {"run_start", "final"}
             [] pc[r] = "run_start"            -> pc'[r] = "gate"
             [] pc[r] = "gate"                 -> pc'[r] \in {"wait", "task"}
             [] pc[r] = "wait"                 -> pc'[r] \in {"rearm", "expired"}
             [] pc[r] \in {"rearm", "expired"} -> pc'[r] = "task"
             [] pc[r] = "task"                 -> pc'[r] \in {"report", "final"}
             [] pc[r] = "report"               -> pc'[r] \in {"gate", "run_end"}
             [] pc[r] = "run_end"              -> pc'[r] = "keep"
             [] pc[r] = "keep"                 -> pc'[r] = "final"
             [] pc[r] = "final"                -> pc'[r] = "idle"
             [] pc[r] = "idle"                 -> pc'[r] = "done"
             [] OTHER                          -> FALSE

\* The task it is at: the first, the next, or the same.
Turn(r) == CASE pc[r] = "run_start"                    -> idx'[r] = 1
             [] pc[r] = "report" /\ pc'[r] = "gate"     -> /\ idx[r] < Tasks[r]
                                                         /\ idx'[r] = idx[r] + 1
             [] pc[r] = "idle"                         -> TRUE
             [] OTHER                                  -> idx'[r] = idx[r]

LEMMA WorkerMoves ==
    ASSUME TypeOK, NEW r \in Run, WorkerStep(r)
    PROVE  /\ Move(r) /\ Turn(r)
           /\ \A x \in Run \ {r} : UNCHANGED <<pc[x], idx[x]>>
           /\ running' # running => pc[r] = "final" /\ running' = FALSE
           /\ run' = run
<1>. DOMAIN pc = Run /\ DOMAIN idx = Run
  BY DEF TypeOK
<1>1. CASE Baseline(r) \/ Await(r) \/ RunEnd(r) \/ Crash(r)
  BY <1>1 DEF Baseline, Await, RunEnd, Crash, Says, state, Move, Turn
<1>2. CASE RunStart(r)
  BY <1>2 DEF RunStart, Says, state, Move, Turn
<1>3. CASE Report(r)
  BY <1>3 DEF Report, Says, state, Move, Turn
<1>4. CASE Idle(r)
  BY <1>4 DEF Idle, Says, state, Move, Turn
<1>5. CASE GateOpen(r) \/ Released(r) \/ Rearm(r) \/ Expire(r) \/ Ungate(r) \/ RunTask(r)
           \/ Keep(r)
  BY <1>5 DEF GateOpen, Released, Rearm, Expire, Ungate, RunTask, Keep, Goes, Move, Turn
<1>6. CASE Final(r)
  BY <1>6 DEF Final, Move, Turn
<1>. QED  BY <1>1, <1>2, <1>3, <1>4, <1>5, <1>6 DEF WorkerStep

\* A step of a worker brings it nearer the end of its run.
LEMMA WorkFalls ==
    ASSUME TypeOK, TypeOK', TasksInv, NEW r \in Run, WorkerStep(r)
    PROVE  /\ AtTask(r)' => idx'[r] \in 1..Tasks[r]
           /\ StepsLeft(r)' < StepsLeft(r)
<1>1. Tasks[r] \in Nat \ {0} /\ idx[r] \in Nat /\ idx'[r] \in Nat
  BY ServerAssumption DEF TypeOK, Run
<1>2. Move(r) /\ Turn(r) /\ (AtTask(r) => idx[r] \in 1..Tasks[r])
  BY WorkerMoves DEF TasksInv
<1>3. CASE pc[r] \in {"baseline", "run_start"}
  BY <1>1, <1>2, <1>3 DEF Move, Turn, AtTask, StepsLeft, TasksAhead, Ahead
<1>4. CASE pc[r] \in {"gate", "wait", "rearm", "expired"}
  BY <1>1, <1>2, <1>4 DEF Move, Turn, AtTask, StepsLeft, TasksAhead, Ahead
<1>5. CASE pc[r] \in {"task", "report"}
  BY <1>1, <1>2, <1>5 DEF Move, Turn, AtTask, StepsLeft, TasksAhead, Ahead
<1>6. CASE pc[r] \in {"run_end", "keep", "final", "idle"}
  BY <1>1, <1>2, <1>6 DEF Move, Turn, AtTask, StepsLeft, TasksAhead, Ahead
<1>7. CASE pc[r] \in {"new", "done"}
  BY <1>2, <1>7 DEF Move
<1>. QED  BY <1>3, <1>4, <1>5, <1>6, <1>7 DEF TypeOK

\* What is not a worker's step or a new run leaves every worker where it is.
LEMMA OthersLeaveWorkers ==
    ASSUME [Next]_vars, \A r \in Run : ~WorkerStep(r), \A stepped \in BOOLEAN : ~Start(stepped)
    PROVE  UNCHANGED <<pc, idx, run, running>>
<1>1. CASE (\E p \in Publisher : Put(p)) \/ PumpTake \/ PumpSend \/ PumpDone
  BY <1>1 DEF Put, PumpTake, PumpSend, PumpDone, state, worker
<1>2. CASE \E c \in Tab : Connect(c) \/ Replay(c) \/ Disconnect(c)
  BY <1>2 DEF Connect, Replay, Disconnect, state, worker
<1>3. CASE Press \/ Finish \/ FinishSet
  BY <1>3 DEF Press, Finish, FinishSet, state, worker
<1>4. CASE \E t \in ChaosThread : Chaos(t) \/ ChaosStep(t)
  BY <1>4 DEF Chaos, ChaosStep, ChaosSays, state, worker
<1>5. CASE UNCHANGED vars
  BY <1>5 DEF vars, state, worker
<1>. QED  BY <1>1, <1>2, <1>3, <1>4, <1>5 DEF Next

WorkInv == TasksInv /\ AtWork

\* A run in progress is not replaced, and only its worker's steps move it on.
WorkGoesOn ==
    /\ \A r \in Run : WorkerStep(r) => StepsLeft(r)' < StepsLeft(r)
    /\ running => /\ run' = run
                  /\ WorkerStep(run) \/ StepsLeft(run)' = StepsLeft(run)

LEMMA WorkStep ==
    TypeOK /\ TypeOK' /\ OneWorker /\ WorkInv /\ [Next]_vars => WorkInv' /\ WorkGoesOn
<1>. SUFFICES ASSUME TypeOK, TypeOK', OneWorker, WorkInv, [Next]_vars
              PROVE  WorkInv' /\ WorkGoesOn
  OBVIOUS
<1>. Runs \in Nat /\ Run = 1..Runs /\ None = 0 /\ run \in 0..Runs
  BY ServerAssumption DEF Run, None, TypeOK
<1>0. \A r \in Run : WorkerStep(r) => StepsLeft(r)' < StepsLeft(r)
  BY WorkFalls DEF WorkInv
<1>1. ASSUME NEW r \in Run, WorkerStep(r) PROVE WorkInv' /\ WorkGoesOn
  <2>1. Active(r) => r = run /\ running
    BY DEF OneWorker
  <2>2. /\ Move(r) /\ run' = run
        /\ \A x \in Run \ {r} : UNCHANGED <<pc[x], idx[x]>>
        /\ running' # running => pc[r] = "final" /\ running' = FALSE
    BY <1>1, WorkerMoves
  <2>3. TasksInv'
    <3>1. AtTask(r)' => idx'[r] \in 1..Tasks[r]
      BY <1>1, WorkFalls DEF WorkInv
    <3>. QED  BY <2>2, <3>1 DEF WorkInv, TasksInv, AtTask
  <2>4. AtWork'
    <3>1. CASE r = run
      <4>1. pc[r] = "final" => running' = FALSE
        BY <1>1 DEF WorkerStep, Baseline, RunStart, GateOpen, Await, Released, Rearm, Expire,
           Ungate, RunTask, Report, RunEnd, Keep, Crash, Final, Idle, Goes, Says
      <4>2. SUFFICES ASSUME running' PROVE run' \in Run /\ Active(run)'
        BY DEF AtWork
      <4>3. running /\ Active(run) /\ pc[r] # "final"
        BY <2>2, <4>1, <4>2 DEF WorkInv, AtWork
      <4>. QED  BY <2>2, <3>1, <4>3 DEF Active, Move
    <3>2. CASE r # run
      BY <2>2, <3>2 DEF WorkInv, AtWork, Active
    <3>. QED  BY <3>1, <3>2
  <2>5. running => WorkerStep(run) \/ StepsLeft(run)' = StepsLeft(run)
    <3>1. CASE r = run
      BY <1>1, <3>1
    <3>2. CASE r # run
      BY <2>2, <3>2 DEF WorkInv, AtWork, StepsLeft, TasksAhead, AtTask
    <3>. QED  BY <3>1, <3>2
  <2>. QED  BY <1>0, <2>2, <2>3, <2>4, <2>5 DEF WorkInv, WorkGoesOn
<1>2. ASSUME NEW stepped \in BOOLEAN, Start(stepped) PROVE WorkInv' /\ WorkGoesOn
  <2>1. /\ ~running /\ run' = run + 1 /\ run' \in Run /\ idx' = idx
        /\ pc' = [pc EXCEPT ![run'] = "baseline"]
    BY <1>2 DEF Start, MayStart
  <2>2. DOMAIN pc = Run
    BY DEF TypeOK
  <2>3. TasksInv'
    BY <2>1, <2>2 DEF WorkInv, TasksInv, AtTask
  <2>4. AtWork'
    BY <2>1, <2>2 DEF AtWork, Active
  <2>. QED  BY <1>0, <2>1, <2>3, <2>4 DEF WorkInv, WorkGoesOn
<1>3. CASE /\ \A r \in Run : ~WorkerStep(r)
           /\ \A stepped \in BOOLEAN : ~Start(stepped)
  <2>1. UNCHANGED <<pc, idx, run, running>>
    BY <1>3, OthersLeaveWorkers
  <2>2. WorkInv'
    BY <2>1 DEF WorkInv, TasksInv, AtTask, AtWork, Active
  <2>3. StepsLeft(run)' = StepsLeft(run)
    BY <2>1 DEF StepsLeft, TasksAhead, AtTask
  <2>. QED  BY <1>0, <2>1, <2>2, <2>3 DEF WorkGoesOn
<1>. QED  BY <1>1, <1>2, <1>3

LEMMA WorkBound ==
    TypeOK /\ WorkInv => (running => StepsLeft(run) \in 2..(5 * Tasks[run] + 11))
<1>. SUFFICES ASSUME TypeOK, WorkInv, running PROVE StepsLeft(run) \in 2..(5 * Tasks[run] + 11)
  OBVIOUS
<1>1. /\ run \in Run /\ Active(run) /\ (AtTask(run) => idx[run] \in 1..Tasks[run])
      /\ Tasks[run] \in Nat \ {0} /\ idx[run] \in Nat
  BY ServerAssumption DEF WorkInv, AtWork, TasksInv, TypeOK, Run
<1>2. TasksAhead(run) \in 0..Tasks[run]
  BY <1>1 DEF TasksAhead
<1>3. Ahead(pc[run]) \in 2..11
  BY <1>1 DEF TypeOK, Active, Ahead
<1>. QED  BY <1>1, <1>2, <1>3 DEF StepsLeft

\* A run has at most five steps to go for every task and eleven besides, each step
\* of its worker takes it nearer its end, and nothing else that users or other
\* threads do sets it back: RunEnds is left to the scheduler.
THEOREM RunsRunOut ==
    Spec => /\ [](running => StepsLeft(run) \in 2..(5 * Tasks[run] + 11))
            /\ [][WorkGoesOn]_vars
<1>1. Init => WorkInv
  BY DEF Init, WorkInv, TasksInv, AtTask, AtWork
<1>2. TypeOK /\ TypeOK' /\ OneWorker /\ WorkInv /\ [Next]_vars => WorkInv' /\ [WorkGoesOn]_vars
  BY WorkStep
<1>3. IInv => TypeOK /\ OneWorker
  BY DEF IInv
<1>. QED  BY <1>1, <1>2, <1>3, WorkBound, Inductive, PTL DEF Spec
=============================================================================
