----------------------------- MODULE Server -----------------------------
(***************************************************************************)
(* The live page's server, ui/server.py: a worker thread per run, which     *)
(* plays demo/run_demo.run and may stop at a gate before every task; chaos  *)
(* threads on the mesh of the last finished run; and the hub, which keeps a *)
(* replay buffer, queues what the threads publish and fans it out to tabs.  *)
(*                                                                         *)
(* Handlers and the pump share one event loop and give way to each other    *)
(* only where they await; threads interleave with all of it.                *)
(***************************************************************************)
EXTENDS Naturals, Sequences, Functions

CONSTANTS Runs, Tasks,      \* bounds: runs asked for, tasks of each (30)
          Tab, ChaosThread, \* browser tabs, and bound: presses of a chaos button
          Casts,            \* bound: which of them take part together
          HISTORY,          \* messages the replay buffer keeps (4000)
          MaxPresses,       \* bound: presses of Step in one run
          MaxQueue,         \* bound: messages in the queue
          NoMsg

ASSUME ServerAssumption ==
    /\ Runs \in Nat /\ Tasks \in [1..Runs -> Nat \ {0}]
    /\ HISTORY \in Nat \ {0} /\ MaxPresses \in Nat /\ MaxQueue \in Nat \ {0}
    /\ ChaosThread \cap (1..Runs) = {} /\ Casts \subseteq SUBSET (Tab \cup ChaosThread)

Run       == 1..Runs
Publisher == Run \cup ChaosThread
None      == 0                      \* of STATE["mesh"] and STATE["step"]

WorkerKinds == {"baseline", "run_start", "awaiting_step", "task", "run_end", "error", "idle"}
ChaosKinds  == {"chaos", "error"}
Message     == [by : Publisher, run : Run, kind : WorkerKinds \cup ChaosKinds, idx : Nat]

ASSUME NoMsgAssumption == NoMsg \notin Message

VARIABLES
    cast,                       \* the tabs and chaos threads that take part
    running, mesh, rows, step,  \* STATE; mesh and step by the run they belong to
    run,                        \* the last run asked for
    flag,                       \* flag[r]: the Event of run r is set
    loop,                       \* the run whose Event /step?all has yet to set
    pc, idx, held,              \* a worker's place, task, and the Event it holds
    chaosPc, target,            \* a chaos thread's place and mesh
    out,                        \* out[p]: p has put it in the buffer, not yet in q
    history, q,                 \* Hub
    opened, clients, replay,    \* the tabs, those that joined; what is left of their replay
    due,                        \* history: what of the buffer a tab has not got yet
    sending, sendTo,            \* the message the pump is sending, and whom to
    pressed, released           \* history: in the last run, presses of Step, and tasks they
                                \* let through

state  == <<running, mesh, rows, step, run>>
worker == <<pc, idx, held>>
chaos  == <<chaosPc, target>>
tabs   == <<opened, clients, replay, due>>
pump   == <<sending, sendTo>>
counts == <<pressed, released>>
vars   == <<cast, state, flag, loop, worker, chaos, out, history, q, tabs, pump, counts>>

-----------------------------------------------------------------------------
(* Hub *)

\* Mutant of Kept: the buffer is not cut back.
KeptAll(s) == s

\* The last HISTORY messages.
Kept(s) == IF Len(s) > HISTORY THEN SubSeq(s, Len(s) - HISTORY + 1, Len(s)) ELSE s

\* publish: into the buffer now, into the queue at the publisher's next step.
Publish(p, m) ==
    /\ history' = Kept(Append(history, m))
    /\ out' = [out EXCEPT ![p] = m]
    /\ due' = [c \in Tab |-> IF c \in opened THEN (due[c] \cup {m}) \cap Range(history')
                                             ELSE {}]
    /\ UNCHANGED <<opened, clients, replay>>

Put(p) == /\ out[p] # NoMsg /\ Len(q) < MaxQueue
          /\ q' = Append(q, out[p])
          /\ out' = [out EXCEPT ![p] = NoMsg]
          /\ UNCHANGED <<cast, state, flag, loop, worker, chaos, history, tabs, pump, counts>>

Free == loop = None

\* A copy of the clients, then an await for each.
PumpTake == /\ Free /\ sending = NoMsg /\ q # <<>>
            /\ sending' = Head(q) /\ q' = Tail(q)
            /\ sendTo' = clients
            /\ UNCHANGED <<cast, state, flag, loop, worker, chaos, out, history, tabs, counts>>

Gets(c, m) == due' = [due EXCEPT ![c] = @ \ {m}]

PumpSend == /\ Free
            /\ \E c \in sendTo : sendTo' = sendTo \ {c} /\ Gets(c, sending)
            /\ UNCHANGED <<cast, state, flag, loop, worker, chaos, out, history, q,
                           opened, clients, replay, sending, counts>>

PumpDone == /\ Free /\ sending # NoMsg /\ sendTo = {}
            /\ sending' = NoMsg
            /\ UNCHANGED <<cast, state, flag, loop, worker, chaos, out, history, q,
                           tabs, sendTo, counts>>

\* Mutant of Joins: a tab joins the clients once its replay is over.
JoinsLate(c) == UNCHANGED clients

\* stream: the tab is a client before the buffer is copied.
Joins(c) == clients' = clients \cup {c}

Connect(c) == /\ Free /\ c \in cast \ opened
              /\ opened' = opened \cup {c}
              /\ Joins(c)
              /\ replay' = [replay EXCEPT ![c] = history]
              /\ due'    = [due EXCEPT ![c] = Range(history)]
              /\ UNCHANGED <<cast, state, flag, loop, worker, chaos, out, history, q,
                             pump, counts>>

Replay(c) == /\ Free /\ replay[c] # <<>>
             /\ Gets(c, Head(replay[c]))
             /\ replay' = [replay EXCEPT ![c] = Tail(@)]
             /\ UNCHANGED <<cast, state, flag, loop, worker, chaos, out, history, q,
                            opened, clients, pump, counts>>

Disconnect(c) == /\ Free /\ c \in opened
                 /\ opened'  = opened \ {c}
                 /\ clients' = clients \ {c}
                 /\ sendTo'  = sendTo \ {c}
                 /\ replay'  = [replay EXCEPT ![c] = <<>>]
                 /\ due'     = [due EXCEPT ![c] = {}]
                 /\ UNCHANGED <<cast, state, flag, loop, worker, chaos, out, history,
                                q, sending, counts>>

-----------------------------------------------------------------------------
(* Requests *)

\* Mutant of MayStart: a second run is started beside the first.
MayAlwaysStart == run < Runs

MayStart == ~running /\ run < Runs

\* POST /run
Start(stepped) ==
    /\ Free /\ MayStart
    /\ run' = run + 1
    /\ running' = TRUE /\ mesh' = None /\ rows' = {}
    /\ step' = IF stepped THEN run' ELSE None
    /\ flag' = [r \in Run |-> FALSE]       \* a new Event; the old one is gone
    /\ history' = <<>> /\ due' = [c \in Tab |-> {}]
    /\ pc' = [pc EXCEPT ![run'] = "baseline"]
    /\ pressed' = 0 /\ released' = 0
    /\ UNCHANGED <<cast, loop, idx, held, chaos, out, q, opened, clients, replay, pump>>

Pressed == /\ pressed < MaxPresses
           /\ pressed' = pressed + 1
           /\ UNCHANGED released

\* POST /step
Press == /\ Free /\ step # None
         /\ Pressed
         /\ flag' = [flag EXCEPT ![step] = TRUE]
         /\ UNCHANGED <<cast, state, loop, worker, chaos, out, history, q, tabs, pump>>

\* Mutant of FinishDoes: the worker is released first, the gate dropped after.
FinishSwapped(n, r) ==
    IF n = 1 THEN flag' = [flag EXCEPT ![r] = TRUE] /\ UNCHANGED step
             ELSE step' = None /\ UNCHANGED flag

\* The gate is dropped first; then the worker is released.
FinishDoes(n, r) ==
    IF n = 1 THEN step' = None /\ UNCHANGED flag
             ELSE flag' = [flag EXCEPT ![r] = TRUE] /\ UNCHANGED step

\* POST /step?all=true, while threads run on; nothing else does on the loop.
Finish == /\ Free /\ step # None
          /\ Pressed
          /\ loop' = step
          /\ FinishDoes(1, step)
          /\ UNCHANGED <<cast, running, mesh, rows, run, worker, chaos, out, history,
                         q, tabs, pump>>

FinishSet == /\ ~Free
             /\ FinishDoes(2, loop)
             /\ loop' = None
             /\ UNCHANGED <<cast, running, mesh, rows, run, worker, chaos, out,
                            history, q, tabs, pump, counts>>

\* POST /chaos/{fault}
Chaos(t) == /\ Free /\ t \in cast /\ mesh # None /\ chaosPc[t] = "new"
            /\ chaosPc' = [chaosPc EXCEPT ![t] = "report"]
            /\ target'  = [target EXCEPT ![t] = mesh]
            /\ UNCHANGED <<cast, state, flag, loop, worker, out, history, q, tabs,
                           pump, counts>>

-----------------------------------------------------------------------------
(* Chaos threads *)

ChaosSays(t, from, kind, to) ==
    /\ chaosPc[t] = from /\ out[t] = NoMsg
    /\ Publish(t, [by |-> t, run |-> target[t], kind |-> kind, idx |-> 0])
    /\ chaosPc' = [chaosPc EXCEPT ![t] = to]
    /\ UNCHANGED <<cast, state, flag, loop, worker, target, q, pump, counts>>

\* The fault is injected, and its report published with every replica's state.
ChaosStep(t) == \E kind \in ChaosKinds : ChaosSays(t, "report", kind, "done")

-----------------------------------------------------------------------------
(* The worker of run r *)

Says(r, from, kind, to) ==
    /\ pc[r] = from /\ out[r] = NoMsg
    /\ Publish(r, [by |-> r, run |-> r, kind |-> kind, idx |-> idx[r]])
    /\ pc' = [pc EXCEPT ![r] = to]
    /\ UNCHANGED <<cast, flag, loop, chaos, q, pump, counts>>

Goes(r, from, to) ==
    /\ pc[r] = from /\ out[r] = NoMsg
    /\ pc' = [pc EXCEPT ![r] = to]
    /\ UNCHANGED <<cast, running, run, loop, chaos, out, history, q, tabs, pump, pressed>>

\* The run without the fabric, then the one with it.
Baseline(r) == /\ Says(r, "baseline", "baseline", "run_start")
               /\ UNCHANGED <<cast, state, idx, held>>

RunStart(r) == /\ Says(r, "run_start", "run_start", "gate")
               /\ idx' = [idx EXCEPT ![r] = 1]
               /\ UNCHANGED <<cast, state, held>>

\* _gate
GateOpen(r) == /\ Goes(r, "gate", "task") /\ step = None
               /\ UNCHANGED <<mesh, rows, step, flag, idx, held, released>>

Await(r) == /\ Says(r, "gate", "awaiting_step", "wait") /\ step # None
            /\ held' = [held EXCEPT ![r] = step]
            /\ UNCHANGED <<cast, state, idx>>

Released(r) == /\ Goes(r, "wait", "rearm") /\ flag[held[r]]
               /\ released' = released + 1
               /\ UNCHANGED <<mesh, rows, step, flag, idx, held>>

\* Mutant of Cleared: the Event is not cleared.
NotCleared(e) == UNCHANGED flag

Cleared(e) == flag' = [flag EXCEPT ![e] = FALSE]

Rearm(r) == /\ Goes(r, "rearm", "task")
            /\ Cleared(held[r])
            /\ UNCHANGED <<mesh, rows, step, idx, held, released>>

\* Mutant of MayExpire: the wait has no timeout.
MayNotExpire(r) == FALSE

\* Fifteen minutes without a press.
MayExpire(r) == ~flag[held[r]]

Expire(r) == /\ Goes(r, "wait", "expired") /\ MayExpire(r)
             /\ UNCHANGED <<mesh, rows, step, flag, idx, held, released>>

Ungate(r) == /\ Goes(r, "expired", "task")
             /\ step' = None
             /\ UNCHANGED <<mesh, rows, flag, idx, held, released>>

\* run_task, and on_row.
RunTask(r) == /\ Goes(r, "task", "report")
              /\ rows' = rows \cup {idx[r]}
              /\ UNCHANGED <<mesh, step, flag, idx, held, released>>

\* The beats of a task as one.
Report(r) ==
    \/ /\ Says(r, "report", "task", "gate") /\ idx[r] < Tasks[r]
       /\ idx' = [idx EXCEPT ![r] = @ + 1]
       /\ UNCHANGED <<cast, state, held>>
    \/ /\ Says(r, "report", "task", "run_end") /\ idx[r] = Tasks[r]
       /\ UNCHANGED <<cast, state, idx, held>>

RunEnd(r) == Says(r, "run_end", "run_end", "keep") /\ UNCHANGED <<cast, state, idx, held>>

Keep(r) == /\ Goes(r, "keep", "final")
           /\ mesh' = r
           /\ UNCHANGED <<rows, step, flag, idx, held, released>>

\* An exception on the way.
Crash(r) == /\ \E place \in {"baseline", "task"} :
                  Says(r, place, "error", "final")
            /\ UNCHANGED <<cast, state, idx, held>>

\* The finally clause.
Final(r) == /\ pc[r] = "final" /\ out[r] = NoMsg
            /\ pc' = [pc EXCEPT ![r] = "idle"]
            /\ running' = FALSE
            /\ UNCHANGED <<cast, mesh, rows, step, run, flag, loop, idx, held, chaos, out,
                           history, q, tabs, pump, counts>>

\* ... and its last word; the thread ends, and its locals with it.
Idle(r) == /\ Says(r, "idle", "idle", "done")
           /\ idx' = [idx EXCEPT ![r] = 0] /\ held' = [held EXCEPT ![r] = None]
           /\ UNCHANGED state

WorkerStep(r) ==
    \/ Baseline(r) \/ RunStart(r)
    \/ GateOpen(r) \/ Await(r) \/ Released(r) \/ Rearm(r) \/ Expire(r) \/ Ungate(r)
    \/ RunTask(r) \/ Report(r) \/ RunEnd(r) \/ Keep(r)
    \/ Crash(r) \/ Final(r) \/ Idle(r)

-----------------------------------------------------------------------------
Init ==
    /\ cast \in Casts
    /\ running = FALSE /\ mesh = None /\ rows = {} /\ step = None /\ run = 0
    /\ flag = [r \in Run |-> FALSE] /\ loop = None
    /\ pc = [r \in Run |-> "new"] /\ idx = [r \in Run |-> 0] /\ held = [r \in Run |-> None]
    /\ chaosPc = [t \in ChaosThread |-> "new"] /\ target = [t \in ChaosThread |-> None]
    /\ out = [p \in Publisher |-> NoMsg]
    /\ history = <<>> /\ q = <<>>
    /\ opened = {} /\ clients = {}
    /\ replay = [c \in Tab |-> <<>>] /\ due = [c \in Tab |-> {}]
    /\ sending = NoMsg /\ sendTo = {}
    /\ pressed = 0 /\ released = 0

Next == \/ \E p \in Publisher : Put(p)
        \/ PumpTake \/ PumpSend \/ PumpDone
        \/ \E c \in Tab : Connect(c) \/ Replay(c) \/ Disconnect(c)
        \/ \E stepped \in BOOLEAN : Start(stepped)
        \/ Press \/ Finish \/ FinishSet
        \/ \E t \in ChaosThread : Chaos(t) \/ ChaosStep(t)
        \/ \E r \in Run : WorkerStep(r)

Spec == Init /\ [][Next]_vars

\* Threads run, the loop runs, and a wait ends after fifteen minutes at the
\* latest.  Nothing makes a user press, connect or start another run.
FairSpec == /\ Spec
            /\ \A r \in Run : WF_vars(WorkerStep(r)) /\ WF_vars(Put(r))
            /\ WF_vars(FinishSet) /\ WF_vars(PumpTake \/ PumpSend \/ PumpDone)

-----------------------------------------------------------------------------
(* Properties *)

\* The variables have the types of the objects they stand for; the buffer is
\* bounded, clients are connected tabs, and a worker waits for its own Event.
TypeOK ==
    /\ cast \in Casts
    /\ running \in BOOLEAN /\ mesh \in 0..Runs /\ step \in 0..Runs /\ run \in 0..Runs
    /\ rows \subseteq Nat
    /\ flag \in [Run -> BOOLEAN] /\ loop \in 0..Runs
    /\ pc \in [Run -> {"new", "baseline", "run_start", "gate", "wait", "rearm", "expired",
                       "task", "report", "run_end", "keep", "final", "idle", "done"}]
    /\ idx \in [Run -> Nat] /\ held \in [Run -> 0..Runs]
    /\ \A r \in Run : pc[r] \in {"wait", "rearm"} => held[r] = r
    /\ chaosPc \in [ChaosThread -> {"new", "report", "done"}]
    /\ target \in [ChaosThread -> 0..Runs]
    /\ out \in [Publisher -> Message \cup {NoMsg}]
    /\ history \in Seq(Message) /\ Len(history) <= HISTORY
    /\ q \in Seq(Message)
    /\ opened \subseteq Tab /\ clients \subseteq opened /\ sendTo \subseteq clients
    /\ replay \in [Tab -> Seq(Message)]
    /\ due \in [Tab -> SUBSET Message]
    /\ sending \in Message \cup {NoMsg}
    /\ pressed \in Nat /\ released \in Nat

\* A connected tab misses nothing the buffer holds: what it has not got is in
\* its replay, in the queue, in the pump's hands or in a publisher's (Hub,
\* stream; list(hub.history) is copied after clients.add).
OnItsWay(c) == Range(replay[c]) \cup Range(q) \cup Range(out)
               \cup (IF c \in sendTo THEN {sending} ELSE {})
CatchesUp == \A c \in opened : due[c] \subseteq OnItsWay(c)

\* The buffer tells the story of the last run: its tasks in order, each with
\* its row on file; of an earlier run nothing but the worker's last word and
\* what a chaos thread reports of its mesh (the guard and the reset of /run).
HistoryIsOfThisRun ==
    /\ \A i \in DOMAIN history :
          history[i].run # run => history[i].kind = "idle" \/ history[i].by \in ChaosThread
    /\ \A i \in DOMAIN history :
          history[i].kind = "task" =>
             /\ history[i].idx \in rows
             /\ \A j \in 1..(i - 1) :
                   history[j].kind = "task" => history[j].idx < history[i].idx

\* A press lets at most one task through the gate (the docstring of _gate).
PressPays == released <= pressed

\* A worker that waits can be released: the Event it holds is still the one
\* that /step sets, or /step?all is about to set it.
NeverStranded ==
    \A r \in Run : pc[r] = "wait" /\ ~flag[held[r]] => step = held[r] \/ loop = held[r]

\* Whatever users do, a run comes to an end, so that another one can start.
RunEnds == running ~> ~running
=============================================================================
