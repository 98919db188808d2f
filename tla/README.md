# A verification project for the cognition fabric

This directory holds TLA+ models of the program in `src/csp-phase2/`, the TLC
configurations that check them on small instances, and TLAPS proofs of the
properties that matter most. Paths below are relative to `src/csp-phase2/`.

## 1. The system

A mesh of nodes (three in the demo) negotiates network settings pairwise. When
negotiations get slow or fail, a node drafts an *insight*: better parameters, or
a remembered settlement to start from, with a recorded scenario as evidence. The
insight is signed, announced, carried by gossip, and every peer replays the
scenario before it votes. A status is what a replica's log folds to.

| Part | Code | State | Operations | Interacts with |
| --- | --- | --- | --- | --- |
| Fabric log | `fabric/log.py`, `fabric/model.py` | `by_id` (a grow-only set of signed entries), `chain`, `_seq` | `append`, `force_append`, `ingest`, `fold`, `descendants`, `verify_chain` | written by every mesh handler and by gossip |
| Mesh pipeline | `nodes.py` | `probation`, `last_agreed` per node | `run_task`, `draft_and_submit`, `announce`, `inject_raw`, `attest_round`, `_probation_tick`, `revoke`, `tombstone` | log, guardrail, gossip, negotiation, replay |
| Guardrail | `guardrail/guardrail.py` | `_submissions` per source | `check`, `_rate_ok` | called before announcing and before attesting |
| Gossip | `fabric/gossip.py` | none of its own; inboxes of the bus | `round` (advertise, push, ingest), `converge` | bus, all logs |
| Negotiation | `core/csp_mini.py` | per session: sequence numbers, seen sets, last envelope, offers | `negotiate`, `replay` | bus, registry, crypto |
| Bus, clock, faults | `core/bus.py` | `inbox`, `t`, `node_down`, `partitions`, `link_delay_ms` | `send`, `recv`, `drain`, `advance` | negotiation, gossip, chaos |
| Parameter merge | `insights/pipeline.py` | none | `verify`, `active_params` | read at the start of each task |
| SLO evaluator | `metrics/telemetry.py` | rolling windows per context | `on_task_end` | raises the incidents that start a draft |
| Analyzer | `analyzer/` | none | `analyze` | drafts, replays its own draft |
| Chaos | `chaos/inject.py` | none | `f1_node_down`, `f2_poisoned`, `f3_partition` | faults, mesh |
| UI server | `ui/server.py` | `STATE`, `Hub` history, queue, clients, step event | `/run`, `/step`, `/chaos`, `/stream` | runs the demo in a thread and every chaos script in another |
| Load generator, demo, charts | `loadgen/`, `demo/` | none | drivers | order the calls of the mesh |

What is hard here:

* **interleaving**: handlers of different nodes, gossip and chaos threads run in
  any order over replicas that differ;
* **failure**: a node is down or cut off while entries spread, and there is no
  recovery code: gossip is the recovery;
* **compromise**: a pinned node may sign anything (`force_append`), and the
  outcome must not depend on it;
* **ordering**: the fold must not depend on arrival order, and one of its rules
  (an author's later attestation replaces the earlier one) is not a join;
* **limits**: quorum at exactly two, rate limiter windows, probation counts, the
  cap on offers;
* **liveness**: anything that is stuck as CANDIDATE blocks new drafts for its
  scope (`nodes.py:64`).

Correctness, part by part: nothing false is verified and nothing sound demoted by
a minority; a status a quorum of honest nodes confirmed stays; everything sound
settles once faults end; a revocation is earned on more than one node; a limiter
denies only what exceeds its limit; a negotiation ends, within its cap, by
acceptance, at an efficient point, and a warm start costs nobody; a contract is
what both sides agreed, checked and signed, in the session it belongs to, and a
refusal is true of the region, not of the grid; an incident is a breach, and
what is claimed about it is grounded in what the node itself measured; replicas
that know the same configure a task the same; no tab misses an event, and no
worker of the page waits for ever.

`PROJECT.json` lists every component, the hazards at their lines, the map from
definitions to source lines, the runs, their mutants and the theorems.

## 2. The modules

| Module | Models | Composes |
| --- | --- | --- |
| `FabricLog` | entries, schema gate, fold, provenance subtree, as operators on a set of entries | |
| `Fabric` | the nodes: replicas, guardrail and limiter, attestation, gossip round, probation, demotion, compromised nodes, faults | `FabricLog` |
| `MCFabric` | instances of `Fabric` for TLC | `Fabric` |
| `FabricProofs` | theorems about `Fabric`, among them that it implements `GrowOnlySet` | `Fabric`, `GrowOnlySet` |
| `GrowOnlySet` | what the header of `fabric/log.py` promises of the replicas, abstractly | |
| `Gossip` | gossip message by message: phases of a round, inboxes, several rounds at once, faults | implements `GrowOnlySet` |
| `MCGossip` | its instance | `Gossip` |
| `GossipProofs` | theorems about `Gossip` | `Gossip` |
| `Concession` | the offer loop of `negotiate` with its warm start | |
| `MCConcession` | its instance | `Concession` |
| `ConcessionProofs` | theorems about `Concession` | `Concession` |
| `Feasible` | the feasible region: constraints, relaxation, grid, physics, the check of the final point, as operators | |
| `FeasibleProofs` | what the grid is to the region | `Feasible` |
| `Agreement` | what a negotiation promises, abstractly | |
| `Handshake` | the sessions of `negotiate` over the bus: intents, waits, retransmission, enforcement, commit | `Feasible`; implements `Agreement` |
| `MCHandshake` | its instance | `Handshake` |
| `HandshakeProofs` | theorems about `Handshake` | `Handshake`, `FeasibleProofs` |
| `Server` | the live page: worker and step gate, chaos threads, hub, pump, tabs | |
| `MCServer` | its instance | `Server` |
| `ServerProofs` | theorems about `Server` | `Server` |
| `Diagnosis` | one node from its tasks to a claim and back: SLO windows, analyzers, active parameters | |
| `MCDiagnosis` | its instance | `Diagnosis` |
| `DiagnosisProofs` | theorems about `Diagnosis` | `Diagnosis` |

### Fabric

| Code | Model |
| --- | --- |
| `FabricLog.by_id` of node n | `log[n]`, a set of entries `[author, seq, body]` |
| `FabricLog._seq` | `seq[n]` |
| `Guardrail._submissions` | `subs[n][src]` |
| a thread that announces and runs attest rounds; what its `state()` showed it and is still to be checked or signed | a member `t` of `Driver`; `todo[t]`, a set of `Job`s |
| `Clock.t` | `now`, in units the limiter's window tells apart |
| `Node.probation` | `probation[n][i]`, how many applications were watched and how many regressed |
| `FaultState.node_down`, `partitions` | `down`, `cut` (the chaos scripts partition one node from all others) |
| `announce`, `draft_and_submit` | `Announce`, `DraftAndSubmit`, then `Check` and `Enter` |
| `attest_round`, as it comes to a node | `Survey`, then `Check` and `Enter` for each insight found |
| `inject_raw` | `InjectRaw` |
| `Gossip.round` | `GossipRound` |
| `_probation_tick` with `vote_revoke` | `ProbationTick` |
| `revoke`, `tombstone` | `Revoke`, `Tombstone` |
| `force_append` on a compromised node | `Compromised` |
| `f1_node_down`, `f3_partition` | `TakeDown`, `Restore`, `Isolate`, `Heal` |

What is abstracted:

* An insight is identified with the hash of its signed body. Only an entry that
  lies about the id has a content other than its id. The hash leaves the signature
  out, so a copy whose signature was spoiled has the same id: a copy is `signed` or
  not, the fold shows the first one in its order (`Before`, `Copy`), and `Static`
  denies that one if it is not signed. Status and attestations, which the hash leaves
  out too, are overwritten by the fold.
* Signatures of entries are unforgeable and hashes injective, so an entry with a wrong
  id or entry signature never exists; `ingest` is left with `valid_body`.
* The appends of one vote to revoke or prune share a step and a sequence number, and so
  do the denial and the ruling that follows from it. The fold uses the number to order
  one author's copies and attestations of one insight, and no such step writes two.
* A thread holds what its fold showed it (`todo`), and other threads and all other
  handlers run between the fold, the check and the signature of each ruling. `verify` is
  deterministic and touches nothing, so it is part of the step that signs. A thread goes
  through what it found, and from node to node, in any order, where the code
  sorts. `draft_and_submit` looks for an answer in the step that hands over its draft;
  an `Announce` may repeat what a second draft would bring.
* Two accesses that could be interrupted are one step: the look at the queue's length
  and the append in `_rate_ok`, and the use of `_seq` and the insertion in `_add`.
* The other static checks of the guardrail (shape, whitelist, bounds, policy,
  evidence) are a constant verdict per insight, and replay is three constants
  (does it improve, what was claimed, what is measured). The theorems hold for
  every value of them.
* A gossip round is one step over the nodes that are up and linked; handlers
  interleave freely around it.
* The outcome of a watched application is free: the model does not say why a
  negotiation was slow.

The README of the repository says that a peer can quarantine a good insight by
attesting `ok=False` (`README.md:179`). With a quorum of two it cannot:
`DemotionNeedsHonestVoter` is proved. What one such vote can do is nothing as
long as two honest peers agree; `HonestPeersDecide` says so. What keeps honest
peers from agreeing on a sound insight is a *mishap*: a ruling that says nothing
about the insight, because the limiter was full or the copy at hand was spoiled.
With a mishap for its second voter a compromised node could have a sound insight
quarantined.

### Gossip

`Fabric` takes an anti-entropy round as one step. `Gossip` takes it apart, because
the server starts every chaos script in a thread of its own (`ui/server.py:213`)
and two scripts run rounds over the same inboxes.

| Code | Model |
| --- | --- |
| a thread that runs a chaos script | a member `t` of `Driver`, with `phase[t]`, `todo[t]` |
| the logs given to `round`, once per call of `propagate` or `converge` | `ids[t]` |
| `FabricLog.by_id` of node n | `log[n]`, a set of entries; `Own[n]` are those n can sign |
| `Bus.inbox`, with delivery times | `inbox[n]`, messages that are `due` or not |
| `send` | `Delivered`: dropped when an end is down or the link partitioned |
| `_settle` | `Settled`, when a driver has visited its last node |
| `drain`: the sort and the loop, then the assignment to the inbox | `Drain`, then the step that uses its result (`Emptied`) |
| the three phases of `round`, one node at a time | `Advertise`, `Answer`, `Ingest` |
| an exception in a thread | `Fail`; the sort of a list that another thread appends to raises `ValueError` |
| `append`, `force_append`, `f1_node_down`, `f3_partition` | `Publish`, `TakeDown`, `Restore`, `Isolate`, `Heal`, between a driver's rounds |

What is abstracted: of a delivery time, all but whether it is past; messages with
the same content are one (the phases are idempotent); the sends of one node in one
phase are one step, and so are the entries one drain yields. Simultaneous updates
of the clock are taken as one after the other. Entries that all replicas held when
the scripts began are left out.

### Concession

| Code | Model |
| --- | --- |
| `F`, `U` | `Point`, `U`, any two utility tables in whole units |
| `anchor_i`, `u_max`, `u_min` | `anchor`, `uMax`, `uMin` |
| `offers_made`, `rounds`, `idx`, `last_recv` | `offers`, `rounds`, `offer`, `lastRecv` |
| `steps_per_side`, `step`, `target`, `make_offer` | `Steps`, `Step`, `Target`, `BestOffer` |
| the checks of the receiver, in order | `SettleViolation`, `Accept`, `SettleCap`, `Counter` |
| `recv` giving up | `Timeout` |

Real division is avoided by multiplying every comparison by `Steps`. Points are
numbered in the order of their hashes, which is the tie-break. `free` is the set
of sides that do not keep to the schedule. In the program both sides run the same
function, so `free` is empty there, and the model then shows that both imposed
settlements are dead code; but the loop checks what it receives as if the sender
might cheat, and with `free` the properties say what those checks guarantee to a
side that keeps the rules, whatever the other one does.

### Handshake and Feasible

| Code | Model |
| --- | --- |
| `Clock.t`, `Bus.inbox` of an agent | `now`, `inbox[x]`: envelopes with the time they are due |
| `session`, `deadline`, `seq`, `seen`, `last_sent` | `sess`, `deadline`, `seq`, `seen`, `last` |
| `send`, `Bus.send` | `Send`, `Post`: any envelope may be lost instead |
| one turn of the loop in `recv` | `Receive` as part of the step that uses the envelope, `Discard` (other session, duplicate), `Retransmit`, `GiveUp` |
| the straight line of `negotiate`: which `recv` is waited for | `pc`, with `cur` for `cur`, and `Waiter` |
| both intents; descriptors and feasibility; PROPOSE | `Begin`; `IntentOfB`, `IntentOfA` with `Abort`, `Refuse`, `Propose` |
| one turn of the offer loop | `Counter`, `Answer` |
| `recv(other)`, the enforcement, COMMIT | `Answered` |
| `recv(other)`, COMMIT_ACK; `recv(cur)` | `Committed`; `Acknowledged` |
| `feasible_box`, `feasible_points`, `hard_ok`, `coupling_ok` | `FeasibleBox`, `FeasiblePoints`, `HardOK`, `CouplingOK` |

Both sides run in one thread, so one `pc` is enough, and time passes only inside
`recv`. Faults come from chaos threads, so a loss may strike at any send. What is
abstracted: the nonces that choose the proposer (either may be chosen), the offers
themselves (`Concession`; here a side may always answer, or counter below the cap,
and the point is any of F), ACCEPT and SETTLE (one answer), signatures and schema
(an envelope that fails either does not occur). Numbers are whole multiples of a
small unit: the tolerances of 1e-9 stand for rounding and are left out. A box is
the set of values left to each dimension, which for an interval is the interval;
that is why `Domain` of a number must be an interval. `lost` is a history variable.

The condition `d <= 2 * MSG_WAIT` is the code's: the slowest link takes 1800 ms
(`core/bus.py:48`) and a wait 3000 ms (`core/registry.py:141`), so that what is on
its way arrives within two waits.

### Server

| Code | Model |
| --- | --- |
| `STATE` | `running`, `mesh`, `rows`, `step` (mesh and Event named by their run) |
| the Event of a run | `flag[r]`, as seen by who holds it: `held[r]` is the local `ev` of `_gate` |
| the worker thread `_run_demo` of run r, with `run` and `_gate` | `pc[r]`, `idx[r]`, `WorkerStep` |
| `/run`, `/step`, `/step?all=true`, `/chaos`, `/stream` | `Start`, `Press`, `Finish` then `FinishSet`, `Chaos`, `Connect` and `Replay` and `Disconnect` |
| a chaos thread | `chaosPc[t]`, `ChaosStep` |
| `Hub.history`, `q`, `clients` | `history`, `q`, `clients` |
| `publish`: append and cut, then `q.put` | `Publish`, then `Put` at the publisher's next step (`out` in between) |
| `pump`: take, copy the clients, an await per client | `PumpTake`, `PumpSend`, `PumpDone` |

Handlers of the event loop interleave only where they await; threads anywhere.
`Finish` is split although it is one handler, since the worker runs between its two
statements; `Free` keeps the rest of the loop out meanwhile. The baseline run is
one beat, the beats of a task one, and a chaos thread's two reports one. The
append and the cut of `publish` are one step, and so is each read of `STATE`.
`due`, `pressed` and `released` are history variables; `cast` chooses who takes
part in a behaviour, so that one run can check several casts.

### Diagnosis

| Code | Model |
| --- | --- |
| `SLOEvaluator.win` | `window[l]`, whole tasks rather than three deques side by side |
| `p95`, the three objectives in order | `Rank` of the percentile in the `Count` of a window's `Messages`, `P95`, `Slow`, `Aborts`, `Judge` |
| `Node.last_agreed`, a dict in insertion order | `agreed` |
| `state()` of the node, in the order of its dict | `known` |
| `active_params`, `_preference` | `Active`, `Best`, `LastToSet`, `Setting`, `Warming`, `Preferred` |
| `run_task` | `RunTask` |
| `draft_and_submit`, from the incident on | `KnownAlready`, `Analyze`, `ApplyRules`, `Announce` |
| `gemini._call`: no key, transient failure, timeout, answer | `NoAnswer`, `Retry`, `TimedOut`, `Answered` |
| `ground`, self-replay in `build_draft`, the ways back to the rules | `Grounded`, `GroundedClaim`, `Discarded` |
| a `TypeError` in `ground` | `Raises` |
| `rules._rule` | `RuleClaim` |
| what gossip and votes bring | `Learn`, `Decide` |

A latency is one of three levels (on time, late, ten times too late), so a
percentile is a level, found by counting: `Messages` are told apart by task, level
and number, and the size of that set needs no sum over the window. What a task measures, what a model
answers and whether a replay improves are inputs. Which verdict the mesh reaches is
free, an over-approximation of `Fabric`. `past` and `wouldDraft` are history
variables.

## 3. The runs

| Run | Instance | Shows |
| --- | --- | --- |
| `fabric_rogue` | 3 nodes, n3 compromised, n2 crashing or cut off; a sound and a false insight, both n3's; 1 thread | the safety invariants against forged bodies, spoiled copies, double votes, votes to promote and to erase |
| `fabric_settles` | 3 nodes, one sound insight, n3 down or cut off, operator pruning | `SoundInsightSettles` under fairness |
| `fabric_subtree` | a sound insight and one derived from it, probation on n1 and n3 with 2 of 2 | `RevocationIsEarned` |
| `fabric_overlap` | 4 nodes, n3 compromised, a sound insight of n1; 2 threads, limiters with room for 1 | rulings per thread, earned denials, what alone undoes a confirmation |
| `fabric_regress` | as `fabric_rogue` | a violation: the fold is not a join |
| `fabric_prune` | as `fabric_settles`, with a derived insight | a violation: honest nodes prune different subtrees |
| `gossip` | 3 nodes, 2 scripts of up to 2 rounds each, n1 down or cut off, a sound entry of n1 and a malformed one of n3 | grow-only replicas, `RoundCatchesUp`, `PartitionStops` |
| `gossip_race` | the same with one round each | a violation: a round may end without catching up |
| `concession` | all utility tables 0..2 over 3 points, any anchor, a cap of 4 | the loop's properties and that it ends |
| `handshake` | 2 sessions, 6 pairs of agents, delays of 1 and 4, waits of 2, a budget of 12, any envelope lost | waits get what they wait for; budget, refusals, relaxation, losses; sessions implement `Agreement` |
| `server` | 2 runs (2 tasks and 1), stepped or not; a tab that comes and goes, or a chaos thread | late tabs, the replay buffer, the step gate; that a run ends |
| `diagnosis` | 2 link qualities, windows of 2, 4 kinds of task, 4 model answers, 3 insights of peers, 3 tasks | incidents, claims, fallback, equal configurations |

Bounds: a node with `MaxSeq` entries (1 to 3) is asked for no further announcement,
injection, pruning or forgery; its rulings and probation votes need no bound, since
no survey finds what has been ruled on. Announcing and injecting one insight
again is allowed up to that bound, which leaves a compromised node room to contradict
itself once. Quorum is 2, as in the code. `fabric_overlap` has two threads, the
least that overlap, and a fourth node, so that with the discoverer and the
compromised node out of the vote two honest rulers are left to form a quorum and to
lose it. Its limiters take one submission (5 in the code), so that the second ruling of a node is denied; its
clock stands still, and the rolling of the window is left to `LimiterKeepsWindow`,
which is proved. `MaxNow` gives `fabric_settles` two instants. The other runs have one
thread, since what they check does not speak of overlap and the proofs cover
any number of threads. The constants that are large in the code (a limit of 5 in 60 s,
2 regressions in 3) are lowered so that the limit is reached. `CHECK_DEADLOCK FALSE`: with these bounds, or after a
negotiation, there is nothing left to do. The theorems do not depend on any bound.

`gossip` has two rounds per script, so that each script can run a round over what an
interrupted or overlapping one left in the inboxes, and can use nodes chosen
before a fault. One entry of each kind is enough, since entries do not interact;
more nodes would only add relays, of which there already is one.

`handshake` has two sessions because an inbox outlives a session; what a third could
find there, a second finds already, since session ids differ. Delays are shorter
than one wait and as long as two, and the budget takes six waits, so that waits are
cut short by it. The six pairs settle, conflict over a preference that relaxation
drops in vain, conflict over regulation, are kept apart by physics alone, or have a
bad descriptor; the first has a single feasible point, so that a grid that misses an
end misses it all.

`server` has the shortest buffer and queue that let a message be cut from the one
while it waits in the other (`HISTORY` 2, `MaxQueue` 1), one press of Step per run
(a second press before the first is used changes nothing, the flag is set already),
and two runs, so that the last word of one meets the start of the next. `Casts` keeps
tab and chaos thread apart: what a tab is owed does not depend on who published it.
`diagnosis` has windows of 2 (5 in the code), which can be part full, full and
overflowing with 3 tasks; the proportions of an objective are those of the code, and
the samples lie on both sides of each.

Fairness. `fabric_settles` assumes that gossip rounds keep running, that a thread
checks and signs what it holds (`Check`, `Enter`) and keeps coming to every node that is
up (`Survey`), and that the chaos scripts undo the fault they inject
(`chaos/inject.py:76`, `:202`): each pass of the pipeline and each script
runs both calls over all nodes. Nothing is assumed about drafting, pruning, compromise
or time. `concession` assumes that the loop takes its next
step. `server` assumes that threads and the event loop run (`WorkerStep`, `Put`,
`FinishSet` and the pump, each weakly fair) and, in `Expire`, that a wait ends after
its timeout of 15 minutes; nobody has to press, connect or start anything. Fairness of
the pump is needed only because the model's queue is bounded: the code's `q.put` never
blocks.

### Where the code and its comments differ

* `core/types.py:100` and `fabric/log.py:17` call the fold a join over the status
  lattice. Explicit votes are joined, attestations are not: the last one of an
  author stands (`fabric/log.py:216`). A compromised node that attests twice makes
  a VERIFIED insight a CANDIDATE again (`fabric_regress`). With one thread honest
  nodes attest once, and what a quorum of them confirmed cannot fall
  (`ConfirmationsAreFinal`); with several, only the next point makes it fall
  (`HonestQuorumSticks`).
* `fabric/gossip.py:8` says a node catches up by simply running a round. It does
  when the round is alone (`RoundCatchesUp`, whatever earlier rounds left behind).
  When two scripts run rounds at once, a round drains messages of the other, or
  its `_settle` makes the other's pushes due in the phase that drops them, and
  both may end with a reachable node behind (`gossip_race`). The next undisturbed
  round repairs it, but the chaos report of that script may show a split.
* `nodes.py:319` says honest nodes independently reach the same pruning verdict
  because they hold the same data. Each uses its own replica as it is at that
  moment (`nodes.py:309`), and they sign votes on different subtrees when a
  derived insight is still in flight (`fabric_prune`).

Other differences met while modelling, which no run is spent on:

* `attest_round` says a node checks what it has not yet ruled on (`nodes.py:214`). It
  looks once, and rules later: two chaos scripts at once (`ui/server.py:213`) can have a
  node rule twice on one insight, though not more often than there are threads
  (`OneRulingPerDriver`). The repeat also counts in its limiter, and may so be denied
  as RATE_LIMITED and replace the confirmation that came before.
* A denial is recorded as a ruling for good (`nodes.py:233`), also one that says nothing
  about the insight: a full limiter, or a copy whose signature somebody spoiled on the
  way (it has the id of the original, passes `valid_body`, and may come first in the
  fold, `fabric/log.py:213`).
* `core/bus.py:134` has callers treat silence as a lost message and retransmit. What
  `recv` retransmits is the waiter's own last envelope (`core/csp_mini.py:498`), which
  in all steps but the first the other side has already taken: a retransmission
  repairs intents only, and any other loss is fatal (`LossIsFinal`, proved).
* Relaxation (`csp_mini.py:226`) can open a negotiation but never close one: the final
  check uses the constraints as declared, relaxed ones included, and so ends a
  relaxed negotiation in POLICY_VIOLATION (`RelaxedNeverSettles`, proved).
* The ABORT sent at `csp_mini.py:699` is read by nobody; it stays in the inbox until a
  later session discards it.
* When COMMIT_ACK is lost or late both sides have signed, and the result is
  TIMEOUT: `Agreement` allows to abandon a contract that both have signed. A test is
  called "never half commits" (`tests/test_phase1_core.py:249`); true of the result,
  which then has no contract.
* `_gate` says the run advances exactly one task per press (`ui/server.py:98`). At most
  one (`PressPays`): a press between `wait` and `clear` is lost.
* A new run may start between `running = False` and the publication of `idle`
  (`ui/server.py:139`), which then is the first entry of the new run's buffer; reports of
  chaos threads on the old mesh may follow. Nothing else of an earlier run can
  (`HistoryIsOfThisRun`). A late tab may get a message twice, or out of order.
* `gemini._call` and `propose_claim` say they never raise (`analyzer/gemini.py:124`, `:232`).
  A response of another shape (a list where an object is expected, an unhashable span
  id) raises TypeError, which nothing on the way catches: `Raises`.
* Insights of overlapping scopes are merged in the order of scope keys
  (`insights/pipeline.py:131`), so the larger margin decides within a scope only.
* A breach of the latency objective hides one of the abort rate
  (`metrics/telemetry.py:165`); when the latency is not gross, the rule table then has
  nothing to say, whatever the abort rate.

## 4. The proofs

`FabricProofs` assumes only `FabricLogAssumption` and `FabricAssumption`: finitely
many nodes, a positive quorum, fewer compromised nodes than the quorum, constants of the
right types, and that no rule of the guardrail but the limiter denies as `RATE_LIMITED`. The inductive invariant is

* `TypeOK`;
* `BodyIsBound`: ingest binds bodies to their ids;
* `OwnEntriesAtHome`: an entry is in its author's log first, under a number
  already used, so a fresh entry is really new everywhere;
* `HonestSignatures`: what an honest node signed means what the guardrail and the
  replay said of the insight, or is a mishap (a full limiter's, or one on a spoiled
  copy), wherever the entry has got to;
* `JobsInv`: what a thread holds is a copy the node at hand was shown, and its verdict,
  if it has one, is one the guardrail gives on that copy.

`HonestSignatures` is needed because the safety properties speak of replicas, and a
replica shows the votes of others; `OwnEntriesAtHome` carries a fact about the
author's log to all logs. `JobsInv` carries what a thread saw over the steps of others to
the step that signs it. `StepShape` reduces the actions to three shapes (logs
untouched, a gossip round, nodes signing, the honest ones in good faith), and
each conjunct is preserved by each shape. From the invariant, `HonestInQuorum`
(a quorum holds an honest node) gives `NoPoisonIsVerified` and
`NoDemotionByRogues`. Honest rulings agree with guardrail and replay but for mishaps,
and mishaps only ever object: hence `HonestQuorumDecides`, which holds for double
rulings too, and `ConfirmationSticks`, an action property: an honest confirmation that
no longer stands was replaced by a ruling that is not `ok`, hence by a mishap.

That a node rules once is not inductive, and with several threads not true.
`RulingsPerDriver` counts instead: the rulings a node has in its own log on an insight and
the threads that still owe it one are together at most the threads there are. A survey
adds a debtor only while there is no ruling, and every ruling signed takes its debtor
away. With one thread that is one ruling, `HonestRulingsAreFinal`, and
`ConfirmationsAreFinal` follows.

More invariants are kept beside `IInv`. `ProbationVotes` says of every log that an
honest node's vote to revoke on probation was earned on that node: it watched the
insight, or one it descends from, regress. That fact never ends, because a verdict of
probation is final (`WatchedStays`) and an honest replica that grows shows more children, never
fewer (`SubtreeGrows`): whichever copy of an insight the fold shows, its content is
bound to its id. A revoked insight has a quorum of such votes: hence
`RevocationsAreEarned`. `LimiterDenialsEarned` needs that the limiter's list never
holds more of a source than the node has signed of it and the threads at it are about
to sign: a check that allows adds one to the list and one thread to the latter, a
signature moves it from the latter to the former, and a denial adds to neither. What was signed
stays, since logs only grow, and a repeat is an entry of its own.

What a replica shows is then compared with other replicas and with later ones.
`ReplicasNeverSplit` is `HonestQuorumDecides` across replicas: VERIFIED takes an honest
confirmation and QUARANTINED an honest objection, and only a mishap makes an honest node
object to a sound insight. `FoldIsJoin` says that the fold is monotone in the log as
long as nobody attests twice on an insight; replicas grow, so a status falls only
where somebody did (`OnlyChangedVotesRegress`), and with no compromised node and one thread never
(`HonestMeshNeverRegresses`). This is how far the promise holds that `fabric_regress`
refutes. `RoundsAgree` follows from the round gathering the same from the same side,
and `RoundsSettle` from that and the quorum: what one round without faults gathers
holds every honest confirmation, one that stands in its author's log stands wherever
the round takes it (`StandsAfterRound`), and the schema gate takes nothing from an honest
log.

`LimiterKeepsWindow` answers for the `popleft` loop of `_rate_ok`. The loop stops at the
first submission that is still in the window; since times are noted in order and the
clock never goes back, the ones out of it are a prefix of the queue, and the loop leaves
exactly the rest.

`Implements` says that the mesh's replicas are the grow-only sets of `GrowOnlySet`;
its steps come from the same three shapes.

`GossipProofs` assumes `GossipAssumption`: nodes are numbers (their order is the
order of a round), and nobody can sign as another. The inductive invariant is
`TypeOK`, `HoldsOnlyWhileDraining` (a driver's hands are empty outside a drain),
`CarriesHeld` (no message carries what no replica holds), `AtHome` (what any replica
holds, its author's does) and `SidesKept` (what was signed since the partition
began is on its author's side, in replicas, inboxes and in the hands of a driver
in the middle of a drain). `MessagesFrom` and `EntriesFrom` say where messages and
entries come from; the rest follows from them without looking at the actions
again. `CarriesHeld` is what the refinement `Implements` needs, since an ingested
entry must be one that somebody holds; `AtHome` makes a newly signed entry new
everywhere, which `PartitionHolds` needs for entries that were signed after the
messages in flight were sent.

`OneRoundCatchesUp` needs a second invariant, `RoundInv`, which follows a round that
nothing disturbs from phase to phase: who has had its turn to advertise has told
everybody it reaches (`Advertised`); who is to answer finds all advertisements due, and
who has answered has put what was lacking on its way (`Answered`); and what lies in the
mailboxes is, in the last phase, all that is lacking and nothing that a node of the
round did not hold (`Ingested`). The last half is needed because nodes
ingest one after another: a node must not find in its mailbox what those before it
lack. Pushes left behind by earlier rounds could hold such entries, but the drain of
the answering phase throws away whatever is due and no advertisement. A mailbox in the middle of a drain is read as
what the driver holds of it (`Drawn`, `Left`).

`ConcessionProofs` assumes `ConcessionAssumption` (points are numbers, a cap of at
least 2, a step and a tolerance that are not negative). The invariant says that
the sides take turns, that the offer on the table is its sender's best for its
place in the schedule, and that the one noted before is the best of an earlier
place. Aspirations fall (`TargetFalls`), so candidates grow and a later best
offer is at least as good for the opponent (`OffersImprove`): hence
`ConformingNeverBlamed`. At the cap a side has made its share of offers and wants
its floor (`FloorReached`): hence `CapNeverImposed`. The anchor is always among
the candidates (`SomethingWanted`): hence the two theorems on warm starts.
`NoSideIsShortchanged` looks at both ends of an acceptance: who accepts does so because
the point is good enough for its next offer, and who proposed it asked for no less,
since aspirations fall. `OffersRunOut` counts the steps left, one per round up to the cap
and one to conclude.

`FeasibleProofs` assumes `FeasibleAssumption`: intervals for numbers, a grid of at least
two points per axis, costs that are not negative. A box of well-formed constraints is
convex (`BoxIsConvex`), so its axis lies in it and holds both its ends: hence
`GridIsInBox`. Load grows with depth's cost and with the sample rate, latency has to be
at least and throughput at most a bound that loosens as load falls (`LoadMonotone`); so
where any point does, the point with the same depth, the greatest latency, the least
sample rate and the least throughput does too, and those are ends of their axes: hence
`GridMissesNothing`. `SafetyIsNeverRelaxed` holds because the box is that of all
constraints but some of the classes that may be dropped, and the grid lies in the box;
`RelaxationIsOrderly` because the order is transitive on what may be dropped, so that
the ones dropped are always its lowest.

`HandshakeProofs` assumes `HandshakeAssumption` besides. The inductive invariant is
`TypeOK` and

* `ChannelInv`: no envelope of a session to come; envelopes of this session in an
  inbox, or last sent, are numbered below `seq` and, if not yet taken, are of the type
  the wait expects; who is not expected to have sent anything new has nothing of this
  session on its way that was not taken;
* `ResultInv`: what `agreed`, `signed`, `outcome` and `pc` say of one another, and what
  a refusal says of F;
* `LossInv`: once anything but an intent is lost, whoever waits has taken all there is,
  and so will time out;
* `BudgetInv`: what was sent and not lost is due within two waits, so that silence
  over both means a loss, or the end of the budget.

`ChannelInv` is needed because `recv` checks no types: `OnlyTheAwaitedCounts` holds
only because what is not awaited was taken before. `RefusalsAreJustified` and
`RelaxationNeverSettles` combine `ResultInv` with the first two theorems of `FeasibleProofs`,
and so does `ContractsAreHonoured`: the final check rejects a point that only relaxation
let in, so what is signed is within the constraints as declared.
`SessionsRunOut` weighs what a session has left: every wait still to come counts three, a
retransmission not yet used two, every envelope on its way one. A turn of `recv` either
ends a wait, which pays for what is sent next and for a fresh retransmission, or
retransmits, which costs two and sends one, or throws an envelope away.
`SessionsAreAgreements` maps `Begin`, `Answer`, `Answered` and `Committed`,
`Acknowledged`, and every end without a contract, to the actions of `Agreement`.

`ServerProofs` assumes `ServerAssumption` and that the mark of no message is none. Its
inductive invariant has, besides the types,

* `OneWorker`: only the last run's worker is at work, and the gate, if there is one, is
  that run's; this is what makes the new Event of `/run` harmless, for nobody waits on
  the old one, and gives `NeverStranded`;
* `Account`: tasks let through, plus a press that is in the Event and one that
  `/step?all` is about to put there, are at most the presses made. The Event a worker
  has woken from but not cleared yet counts for nothing, which is where presses get
  lost, and why the property is an inequality;
* `TabsInv`: the tabs the pump copies are all tabs there are, so a message it takes
  off the queue is on its way to each;
* `StoryInv`: where the last run's worker stands in its story (`Place`): no task told
  before the first, and then only tasks before the one it is at.

`RunsRunOut` adds that a run in progress has its worker at work and that a worker counts
its tasks from one to the last. The place in a task and the tasks ahead then give a
number that each of the worker's steps lowers and nobody else's changes: `/run` is refused
while a run is on, and a press, a chaos script or a tab leaves the worker's place alone.

`DiagnosisProofs` assumes `DiagnosisAssumption`: numbers for ids, versions and margins,
a rule table whose values are within `TUNABLE_BOUNDS`, and that a claim is not the mark of none.
The invariant is that every remembered settlement is of a task that ran and did not
abort (`Settled`), how far an analysis has come (`Progress`: while it is with the model
or the rules, a claim that was promised is still there, since nothing it depends on
changes), and that ids are distinct. Distinct ids make `Preferred` total, so of the
rivals in a scope one is preferred to all others and the order they are gone through in
does not matter (`BestIsPreferred`); a reordering then keeps which insight is best in
each scope (`ReorderedFacts`), hence all that `active_params` returns: `ReplicasAgree`.

`IncidentsAreBreaches` compares the code's verdict on a window with what the history says.
The invariant is that the window of a link quality is the last tasks of that
quality, in order: a bijection between their places and the window's, which an append
and the loss of the first keep. Along it messages, aborts and slow tasks are counted one
by one, so counts are equal; and the 95th percentile of a count exceeds a level exactly
when more than one in twenty of it does, which is arithmetic on `Rank`.

Only model-checked: `SoundInsightSettles`, `Terminates` and `RunEnds`, since liveness under
fairness is out of the prover's reach. Of each the half that is safety is proved
(`RoundsSettle` with `ConfirmationSticks`, `OffersRunOut`, `RunsRunOut`; for sessions, of
which no liveness is checked, `SessionsRunOut`). Of the first it is the last round that
is proved; that rounds and rulings happen is assumed of the scheduler in either case.

## 5. What is left

Not modelled: the local hash chain (`_add`, `verify_chain`) and its JSONL mirror under
two chaos threads, where a link may carry a stale `prev_hash`; it is bookkeeping of one
node that no other component reads, but a run of its own would be the next to add.
Cryptography and canonical JSON are assumed ideal. Telemetry output, charts, console
and page are layout; what a language model guesses is data; the generated task list
is data; tests were read as documentation.

Left as over-approximations: chaos scripts are free sequences of their calls, not their
fixed order; `Diagnosis` takes any verdict of the mesh where `Fabric` would allow some;
`Concession` and `Handshake` meet only in that every agreed point is one of F and every
wait may time out.
