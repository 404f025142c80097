# agents-nexus: verification project

TLA+ models of the parts of agents-nexus where the order of things matters,
model-checked with TLC on small instances and proved with TLAPS for every
instance. Every definition is translated from the source; the map from
definitions to lines, the hazards and the findings are in `PROJECT.json`.

To check a module: `tlc -config X.cfg M`; to check its proofs: `tlapm MProofs.tla`.

## 1. Inventory

agents-nexus runs fleets of coding agents in terminal panes. It is many small
programs around a few shared stores (a Postgres schema, JSONL journals, the
file registry under `~/.tmux`, Slack, a NATS bus).

| component | state | operations | talks to |
|---|---|---|---|
| **Conductor** `agent-runner/conductor.py`, `conductor_db.py` | `agents.missions`, `mission_subtasks`, `mission_events`; the run's locals | classify, design, plan, plan gate, create rows, waves of workers, timeouts, verify, re-plan, synthesize, report, resume, the SDLC stage driver | workers (rows, registry, kill), judges and reviewers (LLM calls), GitLab/Trello/Slack |
| **Conductor worker** `agent-runner/conductor_worker.py` | its row, its registry entry | start, register, run, deregister, staleness check, write | Conductor (rows) |
| **runner** `agent-runner/runner.py` | none between calls | one-shot and streaming agent runs | mnemon, Slack |
| **substrated** `substrated/index.mjs` | roster, pane cache, subscription | reconcile, push events, reconnect, HTTP reads | the terminal substrate, dashboards |
| **slack-bridge bus** `slack-bridge/index.js`, `orchestrator.js`, `transports/` | bus queue per pane, recent message ids, pending requests | publish, route, gate on idle, flush, reply, time out | NATS JetStream, panes |
| **slack-bridge presence** `index.js`, `orchestrator.js` | KV buckets, local roster | publish, consume, expire, owner election | NATS KV |
| **slack-bridge spawn** `index.js`, `orchestrator.js` | pending spawns, repo locks, rate window | offer, confirm, perform, await registration, expire, restore | Slack, panes |
| **slack-bridge cards** `index.js`, `core.js` | open prompt cards | post, resolve, prune, done sweep | Slack, journals |
| **proxy** `proxy/main.py`, `routing.py` | token tallies, strikes and cooldowns per model, the routing switch | gate on the ceiling, choose a model, send, retry, shed, revert, tally, `/admin/route`, restart | agents, upstreams |
| **memory event log** `memory-hook.py`, `flush-events.py` | the buffer, the renamed buffer, `agents.memory_events` | append, rename, insert, return, unlink | hooks of every agent, Postgres |
| **mnemon** `mnemon/agent_memory` | facts (Redis), graph and records (Postgres) | out, in, archive, note, flush, recall | agents over MCP |
| **doc-vault** `doc-vault/docvault.py` | files and their index | convert, render, publish | git, browser |
| **auto-mode watchdog** `automode-watchdog.py` | one state file under one lock | note denials, cycle a pane to Manual mode, cycle it back, clean up | transcripts, footers and keys of panes; hooks |
| **hooks and pane scripts** `tmux/mac` | journals, registry, options of panes | classify prompts, register, send, open and close agents | panes |
| **reaper** `scripts/overseer-reap.sh` | a marker per pane | nudge, spare, checkpoint, kill, deregister | panes, registry, ledger |
| **agent ledger** `agent-ledger.py`, `herdr-recover.sh` | a JSONL file, replayed at every read | spawn, restore, reap, reconcile; open again what a restart closed | registry, panes, bridge |
| **swarm-loop queue** `scripts/swarm-loop-queue.sh` | queue files | spawn or adopt, settle, report, halt | panes, git |
| **plugins** `plugins/*`, **installers**, launchd, docker, LiteLLM, overlays | none of their own | configuration and I/O | all of the above |

What is hard, per component, and what makes it correct:

* **Conductor.** A mission is driven by one process that can die at any
  statement and by worker processes it can only half control: a worker is
  found through a registry entry it writes itself, the kill may fail, and both
  sides write the same row without a transaction. Correct: dependencies come
  first, one worker per attempt, the retry budget holds over resumptions, what
  is filed and the final status agree with the verdict, final missions stay
  final, every run ends.
* **Intake and plan gate.** The plan that is built is the plan that was
  reviewed; a mission that stops at the gate has no rows to resume; every
  mission is logged.
* **substrated.** A snapshot read asynchronously and a push stream feed one
  cache; an event lost between the two leaves a pane `waiting` for ever.
* **Bus.** At-least-once delivery with a queue in memory and an idle gate:
  messages acked before they are typed are lost by a restart, messages
  redelivered may be typed twice, replies can race their timeout.
* **Presence.** Heartbeats, TTLs and removals from several hosts arrive in any
  order; exactly one host has to own an agent.
* **Spawn, ledger, recovery.** A request passes a repository lock, a rate window
  and a wait for a registration, each checked at one moment and relied on at a
  later one, while agents end, the reaper and `herdr-recover.sh` change what was
  checked, and a restart forgets the locks. Correct: one agent per repository, a
  rate that holds, locks that are let go, and only agents nobody closed come back.
* **Proxy.** Four mechanisms move a call from model to model (routing, the ceiling
  of a class, the shed, the revert), with cooldowns shared by all calls in flight.
  Correct: never a dearer model, attempts that end, a ceiling that stops.
* **Event log.** A file that is renamed while others have it open, and inserts that
  fail half way: nothing is lost that is not known to be, nothing repeats by itself.
* **mnemon.** Every statement commits on its own; takers race, archives and notes
  of one job or session interleave, and a clean-up asks for keys rather than facts.
* **Watchdog.** A loop and the hooks of every agent work on one file, with seconds
  of key presses between reading it and writing it, and panes that close and are
  used again meanwhile. Correct: no innocent pane is touched, what the file says of
  a pane is so, a denial is spent once, and every escalation ends.
* **Reaper.** What is judged idle is closed minutes later; the nudge itself looks
  like activity; ids, options and markers outlive the agent they were about.

## 2. Modules

| module | models | state and where it lives in the code |
|---|---|---|
| `Conductor` | `finalize`, `run_and_verify`, `execute_dag`, `wait_terminal`, `stop_worker`, `resume_mission` of `conductor.py`; `main` of `conductor_worker.py` | `mission`, `subs`: the rows of `agents.missions` and `mission_subtasks`; `pc` and the variables of `local`: where the Conductor is and its locals; `worker`: the worker processes; `registry`: `~/.tmux/registry` |
| `MissionLifecycle` | the abstract specification of a mission row, as its readers see it | `status`, `replan_count`, `verdict`, and what was `filed` |
| `ConductorInv` | the inductive invariant of `Conductor` | |
| `ConductorProofs` | theorems about `Conductor` | |
| `MCConductor` | instances of `Conductor` for TLC | |
| `MissionIntake` | `run_mission` up to the moment its rows exist, `judge`, the plan gate (`run_plan_gate`), and `resume_mission` of what a crash left | `mission`, `rows`: the two tables; `plan`, `rnd`, `todo`, `tries`: locals |
| `MissionIntakeProofs` | theorems about `MissionIntake` | |
| `Substrated` | `substrated/index.mjs` with the herdr backend | `cache`: the daemon's `Map`; `sock`, `subHealthy`, `subPanesKey`: its subscription; `polls`, `timers`: requests and timeouts in flight; `status`: the panes of the substrate (external) |
| `SubstratedProofs` | theorems about `Substrated` | |
| `Bus` | the agent bus of `slack-bridge/index.js` with `transports/nats-transport.js` | `queue`: `busQueue`; `caller`: the calls of `POST /request`, of which `pendingRequests` holds the waiting ones; `up`: `natsReady`; `stream`, `cursor`, `unacked`: JetStream (external); `status`, `typed`: the panes (external) |
| `BusProofs` | theorems about `Bus` | |
| `Proxy` | `messages` of `proxy/main.py` with its helpers; `routing.py` | `call`: the handlers in flight; `hits`, `cooling`: the strikes and cooldowns per model; `routing`: `ROUTE_DOWNGRADE_TIERS`; `tally`: the tokens of a session |
| `ProxyProofs` | theorems about `Proxy` | |
| `MCProxy` | the ladder of the default models and a mix of calls, for TLC | |
| `EventLog` | `memory-hook.py`, `flush-events.py` | `entries`, `lines`: the directory and the files; `opened`: what a hook holds open; `pc`, `unsent`, `target`: the flush; `rows`: `agents.memory_events` |
| `Memory` | `backends/redis.py`, `archiver.py`, the notes of `server/mcp_server.py`, `cli.py flush` | `fact`, `script`: Redis; `nodes`, `links`, `entities`: the graph in Postgres; `dropped`: the rows a flush has deleted in its open transaction; `at`: the next statement of each call that writes to it; `left`, `names`, `batch`: what its loops have still to visit, and the facts an archive has read; `taking`: a fallback under way |
| `MemoryInv` | the inductive invariants of `Memory` | |
| `MemoryProofs` | theorems about `Memory` and `EventLog` | |
| `MCMemory` | two jobs that share a key and two notes of a session, for TLC | |
| `Watchdog` | `automode-watchdog.py` | `disk`: `automode-watch-state.json`; `proc`: the loop and the hook processes, with the copy of the file each works on; `session`, `mode`, `idle`, `log`: panes and transcripts (external) |
| `WatchdogProofs` | theorems about `Watchdog` | |
| `MCWatchdog` | the four modes of the footer, for TLC | |
| `Herdr` | the handles herdr gives its panes, which `Spawn` and `Reaper` share (external) | |
| `Reaper` | `overseer-reap.sh` under herdr, the hooks that keep `@waiting` and `@last_tool` | `waiting`, `ref`, `kept`, `marker`: the files of a pane; `sweep`: where the sweep is; `turn`: what an agent does (external) |
| `MCReaper` | an idle limit of four ticks, for TLC | |
| `Spawn` | the spawn, restore and lock code of `slack-bridge/index.js`, `agent-ledger.py`, `herdr-recover.sh`, `herdr-close-agent.sh` | `inFlight`, `stamps`, `seeded`, `flow`: the bridge, with `stale` and the `due` of a flow: what `expirePendingSpawns` has still before it; `ledger`: the replayed ledger; `registry`: `~/.tmux/registry`; `reaper`, `recover`, `closing`, `prune`: where the scripts are; `agent`, `booting`: panes (external) |
| `MCSpawn` | two repositories and two panes, for TLC | |
| `PanesProofs` | theorems about `Spawn` and `Reaper` | |

`Spawn` composes four programs over the registry and the ledger, as `Conductor`
composes the Conductor and its workers over rows and registry. The other modules
meet at their edges: what `Reaper` closes is what `Spawn` takes as `ReapKill`
followed by the ledger mark, and what `Bus` calls a live agent is one whose
registry entry `Spawn` and `Conductor` write. Programs that work on the same
things share a module of theorems: the panes of `Spawn` and `Reaper`, the two halves
of the agents' memory in `Memory` and `EventLog`.

**What is one step.** The Conductor's database connection is in autocommit
mode, so each statement is a step of its own: a loop over rows takes one step
per row and the workers interleave with it. What the Conductor computes between
two statements belongs to the step before. A worker's `result_is_stale` and the
write after it are two steps, as they are two statements. `substrated` and the
bridge are single event loops: a callback runs to its end, so each is one step,
and each `await` of a socket or a broker ends one. `execFileSync` blocks the
bridge's loop, so a whole tick of `flushBusQueue`, with the five seconds a slow
terminal may take, is one step.

A call of the proxy takes a step at each `await`: its choice of a model and the
upstream's answer are two. Each statement of an archive, a note or a flush of
mnemon is a step; what a flush deletes is hidden from nobody until its commit, and
who writes to such a row waits for it. The Lua script is one step, the three
commands of its fallback are three. A hook of the event log opens the file in one step and writes to it in
another. A key press of the watchdog, with the look at the footer before it, is a
step; its load and its save are steps of their own. The reaper's checkpoint of a
pane is apart from its verdict, and the close after it is a third step. A deliberate
close looks its pane up, deregisters it and closes it in three steps; the sweep of
the registry lists the live panes, reads the entries and removes them one by one. The
expiry sweep of the bridge retires its first card at once and comes to each of the
others after an `await`, whatever became of the card meanwhile.

**History variables.** `dispatched`, `everDone`, `filed` (`Conductor`),
`reviewed`, `decision` (`MissionIntake`), `seq` and `by` of a row
(`Substrated`), `typed`, `lost`, `resent` (`Bus`), `spent`, `torn` (`Proxy`),
`late`, `orphaned` (`EventLog`), `got`, `amid` (`Memory`), `home`, `touched`, `raised`,
`heir`, `disturbed`, `killed` (`Watchdog`), `unseen`, `meanwhile`, `alone`,
`missed`, `heir`, `closed` (`Reaper`), `robbed`, `losses`, `stray`,
`relisted`, `ended` (`Spawn`) record what
happened; no guard of the program reads them. `typed` also tells which agents
have something to answer.

**Data.** A worker's result is its kind and the attempt it belongs to. A plan
is a revision number and a set of keys. A pane's status stands for the status
and its `wait_type`. An envelope is its kind, its addressee and the call it
belongs to, and is otherwise known by its place in the stream. A call of the
proxy is its session, marker, model, size and difficulty; a fact of mnemon its
job and its key. Times are ages in ticks (`Reaper`), or the moment at which a
deadline has passed (`overdue` in `Watchdog`, `Expire` and the failing
`AwaitRegistration` in `Spawn`).

**Operators that say `(bug: ...)`** are wrong variants of the definition after
them. `PROJECT.json` lists which property each would break; nothing else uses
them.

## 3. Runs

| run | question | instance |
|---|---|---|
| `conductor_workers` | do dispatch order, attempts, filing and the verdict stay right with workers that start late, hang, die, cannot be killed, run as subprocesses, lose their worktree or are refused one; does the run end | two chained subtasks, one re-plan, at most two workers alive at once, 512 000 states |
| `conductor_resume` | the same over a crash or an exception at any step, one after the last write, or the report gate, and one `--resume` with the old workers still running; is a subtask spawned no more than its rounds allow; the refinement of `MissionLifecycle` | two chained subtasks, one re-plan, one resumption, workers symmetric, 4.8 million states |
| `intake` | is what is built what was reviewed; does the row agree with what is returned; does the intake end | two keys, three reviewers, two gate rounds, three judge attempts, both policies of an exhausted gate, with and without the row that `DbTakesModel` decides |
| `substrated` | does the subscription cover the roster; is a pushed status ever taken back; does push come to cover the fleet | two panes, two overlapping polls, two changes, one drop or failure, two reconnect timers |
| `bus` | is every message typed, held or known to be lost; does it come once; is every caller answered, once; is a held message typed | two agents, one message, one request with its reply, a queue of one, one human draft, any one of six faults, 122 000 states |
| `proxy` | is a call ever moved to a dearer model; do its attempts end; whose 400 denies a permission; does the ceiling stop a session | two connections, five calls over all session classes and a ladder of three models, any answer of the upstream, one retry, threshold 2, cap 1, 790 000 states |
| `events` | is every logged line stored or on disk; does it repeat only after a failure; is it stored in the end | three hooks, two database failures, one killed flush, four inodes, 131 000 states |
| `memory` | is a fact taken once; does an edge dangle; are the notes of a session linked; what may a clean-up remove | four settings of an archive, an agent, notes and flushes; any statement fails; a reply or the script cache is lost; a flush deletes in three statements, 938 000 states |
| `watchdog` | whose pane is touched; do file and pane agree when nobody works; is a denial spent once; does an escalation end | two panes, the loop and a hook process, two sessions or two denials or a fault, 481 000 states |
| `reaper` | is who is closed warned first, and judged as the header says; is the answer to the nudge told from a human's return; is an idle agent closed in the end | two panes, a tick is the slop, sweeps every two ticks, an idle limit of four, 1.1 million states |
| `spawn` | has a repository one agent; how far can the rate slip; are locks let go; is only what nobody closed opened again | two repositories, two panes, two requests at a time, a rate of one, one expiry sweep of several cards, one close or deregistration that fails, 839 000 states |
| `conductor_truncated_plan` | is a mission that is reported done done whole | the smallest instance that shows it is not (section 6) |

**Why the bounds are enough.** Two chained subtasks are the smallest plan in
which a wave, a dependency, a partial failure and a blocked subtask all occur;
one re-plan gives each subtask a second attempt beside a worker of the first,
which is all a stale result needs. `Workers` bounds how many worker processes
are alive at once, not how many are spawned: an exited process is taken again.
One resumption meets every crash point, in the second round too. Two polls are the
smallest number that can be answered out of order; two changes and one fault
give a change before, during and after a drop. A queue of one overflows with the
second message for a busy agent. One fault per behaviour keeps `Bus` small; the
theorems of section 5 hold for any number of faults. Two calls at a time are what
a cooldown or a ceiling needs to be passed by one while the other looks at it; the
three models are the three tiers there are. Four inodes let a flush hold one file,
the buffer be another, and a late hook a third. Two archives, or two notes, are
what it takes to interleave; the fallback needs one agent beside one archive. Two
panes and one hook process give the watchdog every pair of loop and hook on the
same pane and on two. The reaper's times are the smallest that are to each other as in
the program, where the warning takes one period of the sweep, the slop less, and the
limit is a multiple of both. Two panes let an agent be late
in one while the next request opens the other. Two requests at a time cannot overlap
often enough to need the term `losses` of `RateKept`; three requests and three panes
do (a simulation of that instance without the term finds the excess), and the theorem
covers it.

`Watchdog`, `Reaper` and `Spawn` start from one of several budgets (`Bounds`, `Limits`):
records that say how many sessions, denials, faults, human acts, crashes and so
on a behaviour may have. Each budget is one scenario in full, such as a crash of
the bridge with a recovery, and the union of all of them would be out of reach.
`Memory` does the same with `Together`, the facts and calls that occur at all.

Every bound is a CONSTANT: `MaxReplans`, `MaxRounds`, `MaxJudgeAttempts`,
`QueueMax`, `MaxRetries`, `ClassifierMaxRetries`, `Threshold`, `Cap`,
`MAX_CYCLES`, `THRESHOLD`, `IDLE`, `LEAD`, `SLOP`, `RATE_MAX` and `Page` are the
programs' own; `MaxResumes`, `Workers`, `Polls`, `MaxChanges`, `MaxFaults`,
`MaxTimers`, `MaxSends`, `MaxReplies`, `MaxDrafts`, `MaxTurn`, `MaxTorn`,
`MaxFails`, `MaxCrashes`, `Files`, `Bounds`, `Limits` and `Together` bound the environment.
In `intake`, `DbTakesModel` is either value: FALSE is the code as it is (section
6), TRUE lets what lies behind that call be checked too. `CHECK_DEADLOCK FALSE`
is set because all these systems may stop: a mission ends, and the daemons have
nothing left to do once the environment has used up its bounds.

## 4. Fairness

* `Conductor`: `WF(ConductorStep)`. The process is scheduled, and `wait_terminal`
  has a deadline for every wave, so a wave whose workers never answer can always
  go on. No fairness is assumed of workers, of crashes or of whoever resumes.
* `MissionIntake`: `WF(Step)`, the process runs. A flake is one of its steps, so
  a model that flakes whenever it may is not excluded; termination rests on the
  counters of `judge` and of the gate, not on fairness.
* `Substrated`: weak fairness of each poll (`setInterval`), of reading what
  arrived, of the subscription being served and of the reconnect timer. None of
  spawns, exits, changes or faults.
* `Bus`: weak fairness of the consumer loop, the tick (`setInterval`), the
  connection, the confirmation of a publish and the deadline timer; also of an
  agent ending its turn, a human ending a draft, and a hook (or the poll of the
  daemon) recording what an agent does, which the program leaves to others and
  on which a held message depends.
* `EventLog`: `WF(FlushSteps)`. launchd, or the loop of the container, starts the flush
  again and again. None of hooks, of the database or of crashes.
* `Watchdog`: strong fairness of the loop getting the lock (`flock` with waiting
  hooks beside it), weak fairness of the loop's and the hooks' steps and of the
  clock. Nothing is assumed of agents or humans: the cap has to do.
* `Reaper`: weak fairness of the clock, of the sweep, and of a turn that ends. A
  turn in which a human is asked something need not end.
* `Spawn`: weak fairness of each request's next step: every `await` of the bridge
  has a time limit, and cards expire by a sweep every minute.
* `Proxy` and `Memory` have none: that attempts end is an action property with a
  decreasing measure, and calls that never return are allowed.

## 5. Proofs

Everything proved holds for all values of the constants: any plan, any number
of workers, panes, polls, calls and messages, any bounds, any set of faults.
The only assumptions are the named ASSUMEs of the modules: counters are
naturals, policies and faults are members of their sets, a plan's dependencies
are subtasks of it, the Conductor's pane is not a worker's, tiers and prices are
given for the pool, file numbers are numbers, connections and panes are finitely
many, a call of mnemon does one thing and ids are fresh (`CallsAssumption`), five
presses go round the modes of a footer (`CyclesAssumption`), and the reaper's warning
takes a whole number of its timer's periods (`LeadAssumption`).

* **`ConductorProofs`.** `IInv` (module `ConductorInv`) says what holds at each
  control point. `DispatchOncePerAttempt` and `DependenciesFirst` are not
  inductive: that a subtask about to be spawned is on a fresh attempt depends on
  every pending row outside the current wave being fresh too
  (`AttemptsAreFresh`), over the reset, the timeout and the requeueing after a
  crash; that its dependencies delivered depends on a `done` row having been
  written by a worker (`DoneWasDelivered`). That the status agrees with the
  verdict depends on which verdict the row carries while the Conductor is
  between two statements (`VerdictMatchesControl`, `RoundMatchesRow`). From
  `IInv` follow the action properties, and that every step of `Conductor` is a
  step or a stutter of `MissionLifecycle` (`LifecycleImplemented`).
  `DispatchBudget` counts spawns, which the attempts of a row do not bound: a
  requeued row starts a new one. `Budgeted` bounds instead how many a subtask that
  can still be spawned has behind it, in the round the Conductor is in and over the
  resumptions; a spawn adds one pair of a subtask and a fresh attempt, and takes the
  subtask out of those that can still be spawned.
* **`MissionIntakeProofs`.** The invariant ties the revision in hand, the round
  and the gate's answer to the place in `run_mission` (`PlanInHand`), and the
  rows to the revision they came from (`RowsOfPlan`): without the two,
  `BuildsWhatWasReviewed` says nothing of a plan that is reviewed again before
  it is persisted.
* **`SubstratedProofs`.** `SubscriptionCoversRoster` is inductive with
  `QuietSocket`. `ToldIsShown` is not: while a message is in flight the cache
  is stale, so the invariant says the last unread message about a pane carries
  its status, or the row shows it already and push is healthy (`Told`). The
  proof is about the socket's inbox: appending to it and taking its head.
* **`BusProofs`.** `AccountedFor` is inductive with `RegisteredWhileAlive`: an
  envelope whose addressee is not registered is dropped, so nothing could be
  said of it if a live agent could lose its entry. The lemmas say what appending
  and taking the head do to the elements of a queue, and what typing into a set
  of panes does. `CallersSettleOnce` needs the types only. `ComesOnce` speaks of
  what was typed; `OnceInv` adds what is still held and what the broker may hand
  out again: the two have no message in common, and what is unacknowledged is known
  to be resent, before a second copy is made.
* **`ProxyProofs`.** `NeverUpgrades` needs `WorkKeepsItsModel`, which a shed needs
  of the model it starts from, and that a reverted call is on the model it asked
  for. The lemmas say of each operator of `routing.py` that what it returns is in
  the pool and no dearer, or strictly cheaper for a shed. `AttemptsEnd` then is a
  fact about one step: the attempt counter, the price of the model and the revert
  flag never go round. `CeilingInv` is about a sum, what the calls of a session in
  flight still owe, counted as a set of pairs of a connection and a token: what was
  spent is tallied, torn or owed, and the tally is under the cap by a turn for each
  call that passed the gate and is not over.
* **`MemoryProofs`, facts.** A fact that the script removed is gone, whether its reply
  arrived or not, and gone is for ever; the other statements change nothing of Redis but remove.
* **`MemoryProofs`, the graph.** Statements commit one by one and a flush may erase
  everything between two of them, so each call is proved against its own next
  statement and against those of all others. `Sound` says what a call may rely on: a
  node that was inserted is not inserted again, so what a flush erased stays away
  (`OnceOnly`), and of two nodes to be linked either both are there, or the link will
  not be made (`MentionIsSafe`, `ChainIsSafe`, `SiblingsAreSafe`). Two notes that have
  both looked for siblings are linked, or one of the calls still owes the link
  (`LinkedOrOwed`); that is `SiblingsLinked` once nobody owes anything. It also says what
  a flush that is under way may delete and what it must leave, so that at its commit
  only the edges of nodes inserted amid it can lose what they lead to. `Tidy` adds
  that an archive's clean-up comes after all its copies, keeps in the fallback to the
  key it asked for, and was given no more facts of a key than it has asked for, as
  cardinalities of two sets that grow together.
* **`MemoryProofs`, the event log.** `KeptUnlessLate` is inductive with the flush's
  place: from the rename to the unlink, what is neither inserted nor returned is in
  `unsent` and in the renamed file, and the name the flush reopened still leads to
  `target`.
* **`WatchdogProofs`.** `InnocentUntouched` speaks of the keys pressed; the invariant
  says why each process may press one: `Reason` ties what a process has in mind
  for a pane to a denial of the session it saw there, or to an entry of its copy
  of the file, and `Justified` ties the file to the transcripts, over sessions that
  replace each other in a pane between the two. `ModeIsAccountedFor` is about moments
  at which nobody works; `Accounted` says the same of the copy of whoever holds the
  lock, and between two presses that the way still to go round the ring is no longer
  than the presses left. `DenialsAreSpent` is a budget (`Credited`): a session has a
  claim for every hook that waits, every denial the file in force has not read, and
  an escalation begun; each denial gives it two, and a process that is killed leaves
  a file that promises one too many at most.
* **`PanesProofs`, spawn.** `RateKept`: the requests between the look at the window and
  the stamp hold the locks of different repositories, unless theirs was taken from them
  (`OneLock`), and are counted with the stamps; who has lost its lock is counted in
  `losses`, which never falls while the bridge is up (`Counted`). `OneWindow`: an agent that is no stray is registered, or
  boots for a request that waits for it (`Known`), so whoever takes the lock of its
  repository finds none, and until the lock is let go nobody else opens one (`Alone`,
  `NoTwo`). Three programs write the registry this depends on; the lemmas say of each
  kind of step that it adds nobody to the settled, or the one a request waits for.
  `RevivesTheLost`: an entry outlives its agent only if nobody ended it on purpose, or
  between the reaper's kill and its deregistration, or its close could not remove it
  (`OnlyLost`); from the deregistration of a close to its end the pane has no entry but
  one that came after (`Unlisted`).
* **`PanesProofs`, reaper.** The types rest on a sweep being behind its clock by no more
  ticks than it had panes to checkpoint (`LagBound`). `ClosedWasJudged`: what the sweep
  saw of the pane it is at is still so unless something happened to the pane
  (`StillSo`), and an agent in a human's turn is at work or has called no tool
  (`TurnsShow`). `SparedForHumans`: the marker of an agent that only answers is older
  than its last tool by a tick at most (`AnswersOnly`). `WarnedBeforeClosed` is
  arithmetic about one clock: markers lie a whole number of periods before the last
  sweep (`OnGrid`), and who was in the window at the last look was marked at that look
  or an earlier one, less than the window and a period after its last tool
  (`SeenIsWarned`). When the limit is reached the marker is therefore older than LEAD
  less a period, and being on the grid it is LEAD old; a checkpoint after that only
  makes it older (`JudgedIsWarned`). Without `timely` sweeps none of it holds, as
  section 6 says.

Type invariants, the invariant of `Conductor`, that final missions stay final,
that work turns keep their model and that a caller is told once are theorems that
no run repeats.

**Only model-checked.** The liveness properties `RunEnds`, `IntakeEnds`,
`FleetIsCovered`, `CallersSettle`, `HeldIsTyped`, `LoggedIsStored`, `EscalationEnds`,
`IdleAreClosed`, `LocksAreReleased`: temporal reasoning under fairness needs ENABLED,
which is outside what the prover does. Every invariant and action property of a run
that passes is a theorem.

## 6. Where the code and its own text disagree

**A truncated plan is resumed and reported done** (run
`conductor_truncated_plan`). The rows of a plan are created one autocommitted
INSERT at a time and `--resume` only asks that there is one.

Seen while reading, with the properties stated so that they say what the code
keeps. None of these is the subject of a run of its own.

*Conductor.*
* A stale result lands on a retry's row: `result_is_stale` and the write are two
  statements (`conductor_worker.py:64`, `71`), where "a retry owns the row now"
  (`test_worker_timeout.py:236`). `DependenciesFirst` holds all the same.
* A worker that falls back to a subprocess inherits the Conductor's pane and
  registers it; the kill then closes it (`conductor.py:777`).
* No new mission gets a row: `run_mission` passes `model=` to `Db.create_mission`
  (`conductor.py:2321`), which has no such parameter (`conductor_db.py:53`); the
  TypeError is caught before there is a row to fail.
* `--resume` does not ask whether another Conductor is at work on the mission
  (2388). A worker of an earlier attempt that registers after `stop_worker` looked
  for it is not stopped (856, 876). A subtask blocked by its dependency is taken
  for one its worker reported blocked (948, 1552).
* An exception after `finish_mission`, from the event or the card, marks a mission
  failed that was done, partial, gated or escalated (`conductor.py:2376`): its merge
  request is open, and it cannot be resumed. `TerminalIsFinal` excepts it.

*substrated and bus.*
* A status that changes between the snapshot and the activation of the
  subscription stays hidden while push is healthy; a stale snapshot overwrites a
  fresh event when the socket dropped while it was in flight (`index.mjs:92`).
* A burst is typed into one idle window: `@waiting` still says idle after the first
  send (`slack-bridge/index.js:1707`; `docs/slack-bridge.md:299`). A direct delivery
  that fails is logged and acknowledged (1713); `agent-send.sh` exits 0 whatever the
  substrate says.

*Proxy.*
* A streamed classifier call can be denied by a 400 of a model it did not ask for
  (`main.py:718`; `docs/model-routing.md:167`): `RefusedOnlyByItsOwn` excepts streams.
* `ROUTE_ENABLED=0` is "byte-for-byte" pass-through (`main.py:50`), but the
  shed may still change the model. A stream that breaks off is not tallied (769);
  sessions without a tag share one tally.

*Event log.* "Events written while flushing are not lost" (`flush-events.py:4`) has two exceptions: a hook
that opened the buffer before the rename and writes after the read (60), and a
second killed flush's rename over what the first one left. A launchd timer and a
container that share a home would be two flushes at once. Rows carry the time of
the flush.

*mnemon.* The clean-up of an archive removes any fact with the same key
(`archiver.py:83`). `rd(limit=10000)` returns ten: RediSearch's default page
applies (`backends/redis.py:57`). The fallback of `in_` is search, get, delete,
so two agents may get one fact. The fallback is taken after any failure
(`redis.py:86`), so a call whose reply was lost after the script had run takes a
second fact, or more when the client resends: `CleanUpIsCovered` counts only
those it was told of. `cli flush` deletes links, nodes and entities in three
statements (`cli.py:432`): a node inserted after the second may keep a link to
an entity or a note that the flush takes away, which `LinksResolve` excepts.
Categories with characters RediSearch does not parse unescaped make the query
fail. A failure after the insert of a note leaves it without its links
(`mcp_server.py:287`).

*Watchdog.*
* One denial may escalate a pane twice, once for the hook and once for the scan,
  although "the other sees that and no-ops" (`automode-watchdog.py:161`) if the
  escalation is over by then; `DenialsAreSpent` allows the two.
* "Left in Manual mode" may be any mode, if the footer cannot be read; a mode before
  that could not be read becomes acceptEdits on the way back.
* A pane id used again inherits the escalation of the session before it. Deleting
  the state file, "safe to delete any time" (213), leaves an escalated pane in Manual mode. A
  stop hook in the background may cycle a pane back in its next turn.

*Ledger, spawn, recovery.*
* `compact` replaces the file by `os.replace`: an appender that waits for the lock
  of the old one writes to a file nobody reads. `reap` and `reconcile` read without
  the lock, and `reconcile` may say gone of an agent that has not registered yet.
* A deliberate close leaves the ledger entry live, and the seeded locks of the
  bridge are released by nothing but a restart: a repository whose agent was closed
  or reaped is refused until then. `openspec/changes/slack-orchestrator-spawn/design.md:65`
  has the ledger reconciled on startup and before each lock decision; the code does
  so on startup.
* "SPAWN_RATE_MAX per window, re-checked at approval" (`docs/slack-bridge.md:179`)
  is exceeded by approvals that overlap; `RateKept` states by how much. A restart
  empties the window. A spawn reported failed after eight seconds may have opened
  a window, and is not counted.
* "Expire stale confirm cards so a never-clicked card never holds a repo's lock"
  (`slack-bridge/index.js:962`): the sweep walks a copy of the cards with an `await`
  for each, and does not ask whether the next is still there. It releases by name the
  lock of a card approved meanwhile, so that a second request may open a second agent
  beside a spawn in progress, and one of the two is a stray of `OneWindow`; `RateKept`
  counts the locks so lost.
* A deliberate close goes on when its deregistration failed
  (`herdr-close-agent.sh:50`), and its pane may stay when the entry is gone. An agent
  that registers between the two steps is listed after its close. `RevivesTheLost`
  excepts the entries so left.
* The sweep of the registry lists the live panes before it reads the entries
  (`substrate.sh:445`): the entry of an agent that opened and registered between goes.
* The approval does not look at the registry again, and a stale entry keeps its
  repository locked.
* `herdr-recover.sh` marks gone the agents it has just opened, before they register
  (its comment at 173 says they would be spared); its `rm -f` may delete the entry
  of an agent that took the same handle; it takes no lock of the bridge, so both may
  open an agent for one repository. These are the strays of `OneWindow`.

*Reaper.*
* A checkpoint takes up to three minutes and the kill looks at nothing again. A
  human who comes back within the slop of the nudge is reaped.
* A sweep reads its clock once (`overseer-reap.sh:84`), so a nudge typed after the
  checkpoints of others can make the agent's answer look like a human's; a sweep
  that is late skips the warning.
* So does a sweep that cancels an older warning when the agent is about to expire
  again: the marker outlives a kill that failed (267) and any time the agent was kept
  (`continue` at 159, before the marker is looked at), and the sweep that clears it
  does not warn. `WarnedBeforeClosed` excepts the agent so spared. It also rests on
  PREREAP_LEAD_SECS being a whole number of the timer's periods (both are 900
  seconds): otherwise the limit may come less than LEAD after the warning.
* Idleness counts from the last tool call, so an agent whose call took longer than
  the limit, or was approved after it, is closed without warning.
* Pane ids used again inherit `@keep`, `@last_tool` and the marker. The option file
  of a pane is rewritten without a lock (`substrate.sh:103`), so a hook at the same
  time can lose a `@keep`.
* The mark in the ledger comes after the kill: an agent opened in between is
  recorded as dormant.

## 7. Not modelled

* **In the modelled components.** The event log and the tracker card of the
  Conductor, the steps inside one report, and what a plan, a diff or a review
  says; substrated's tmux backend and its HTTP reads, which only read the cache;
  the bus over Slack, addresses that name a slot or several agents, the election
  of an owner among hosts, a consume loop that ends with an error; how the proxy
  reads difficulty and the classifier marker from a request, its dollar ceiling,
  backoff delays, traces and other paths; causal inference, tags, embeddings and
  scoring of mnemon, two flushes at once; the watchdog's AUTOFIX=0, panes without a transcript or a
  name, transcripts that shrink; the reaper under tmux, its dry run and its name
  exclusions; the ledger's compact, gone and list, two writers between a
  reconcile's read and its writes, a change between `herdr-recover.sh`'s reads of an
  entry, its pane and the ledger (one step; its spawn is another),
  `herdr-recover.sh --all` and its exclusions,
  the cards' texts and which repository a message is about.
* **Assumed.** The answer to the reaper's nudge is shorter than a tick: an agent
  that its own nudges keep at work for longer is assumed away (`IdleAreClosed`).
  The Slack client of the bridge has no request timeout by default
  (`index.js:317`): that every `await` of a request ends, which
  `LocksAreReleased` assumes, rests on its retries being finite.
* **The SDLC stage driver.** `conductor.py:2774` calls `create_mission(model=...)`
  before its first stage, which raises at this commit: no stage is reachable.
* **Whole components** (`PROJECT.json` has the reason of each): `runner.py`,
  doc-vault, chat providers, dashboards, plugins and installers keep no state
  between calls or are input and output only. Presence, cards and the swarm-loop
  queue are planned.

## 8. Plan

Done: `Conductor` with `MissionLifecycle`, `MissionIntake`, `Substrated`, `Bus`,
`Proxy`, `EventLog`, `Memory`, `Watchdog`, `Reaper` and `Spawn`, with proofs of every
safety property the runs check. Next, in this order:

1. `Presence`: publish, expire, remove over several hosts; owner election;
   composed with `Bus`, whose `registered` it provides.
2. `LoopQueue` (spawn or adopt, settle, report, halt) and `Cards` with the done
   sweep.
3. Abstract specifications, and the proof that each step implements one: a channel
   that delivers at least once, or says what it lost, for `Bus` and for `EventLog`; a
   register per pane that a reader may see late, for `Substrated`; a bag of tuples,
   each taken once, for `Memory`.
