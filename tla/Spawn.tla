------------------------------- MODULE Spawn --------------------------------
(***************************************************************************)
(* Agents opened from a chat: the requests of the slack-bridge (a card to  *)
(* confirm, the form, a restore), its locks and its rate limit; the        *)
(* ledger, the registry and the panes of herdr they are about; and those   *)
(* who change these beside the bridge: the agents, the reaper, and         *)
(* herdr-recover.sh --respawn.  An agent is named for its repository.      *)
(***************************************************************************)
EXTENDS Integers, Herdr

CONSTANTS
  Repos,     \* the allowlist
  Requests,  \* what the bridge may be doing at once
  RATE_MAX,  \* SPAWN_RATE_MAX, within one window
  None,
  Bounds     \* how often requests, restarts and the rest may come

ASSUME SpawnAssumption ==
  /\ IsFiniteSet(Repos) /\ IsFiniteSet(Requests) /\ None \notin Repos \cup Panes \cup Requests
  /\ RATE_MAX \in Nat \ {0}
  /\ Bounds \subseteq [asks : Nat, ends : Nat, closes : Nat, reaps : Nat, recovers : Nat,
                       crashes : Nat, faults : Nat, sweeps : Nat, prunes : Nat]

VARIABLES
  agent,     \* whose agent is open in each pane, None if it is closed
  booting,   \* panes whose agent has not reached open-claude.sh's register yet
  registry,  \* the name in the entry of each pane, None without one
  old,       \* panes whose entry is from before herdr's last restart
  ledger,    \* per repository: its state, the pane on record
  inFlight, stamps, \* the bridge's locks; the spawns it counts in the window
  up, seeded, \* is the bridge up; has it read the ledger yet
  flow,      \* what each request is at
  stale,     \* per repository: answered cards that expiry sweeps are yet to visit
  reaper, recover, \* the pane each script is at, and what is left to do
  closing,   \* how far the close of each pane is
  prune,     \* the panes that were not live when a sweep of the registry began
  left,      \* of the bounds
  robbed, losses, \* history: requests whose lock was taken from them; how many were
  stray,     \* history: panes of an agent no request waits for, not seen to register
  relisted,  \* history: panes whose close has left an entry, or found a new one
  ended      \* history: how the last agent of each pane ended

panes == <<agent, booting, registry, old>>
locks == <<inFlight, robbed, losses>>
bridge == <<locks, stamps, up, seeded, flow, stale>>
scripts == <<reaper, recover, closing, prune>>
past == <<stray, relisted, ended>>
vars == <<panes, ledger, bridge, scripts, left, past>>

\* due: how many expiry sweeps have this card before them.
Idle == [at |-> "idle", repo |-> None, pane |-> None, entry |-> "none", due |-> 0]
Unknown == [state |-> "none", pane |-> None]
Rests == [at |-> "off", pane |-> None, repo |-> None]
Asleep == [at |-> "off", pane |-> None, repo |-> None, todo |-> {}]

Spend(what) == left[what] > 0 /\ left' = [left EXCEPT ![what] = @ - 1]
Listed == {registry[p] : p \in Panes} \ {None}
Free == {p \in Panes : agent[p] = None}

-----------------------------------------------------------------------------
(* Agents.                                                                 *)

\* herdr opens a pane and runs open-claude.sh in it.
Opened(p, r) ==
  /\ p \in Free /\ agent' = [agent EXCEPT ![p] = r] /\ booting' = booting \cup {p}

\* substrate.sh register.
Registers(p) ==
  /\ p \in booting /\ booting' = booting \ {p}
  /\ registry' = [registry EXCEPT ![p] = agent[p]] /\ old' = old \ {p}
  /\ relisted' = IF closing[p] = "unlisted" THEN relisted \cup {p} ELSE relisted \ {p}
  /\ UNCHANGED <<agent, ledger, bridge, scripts, left, stray, ended>>

Gone(ps, how) ==
  /\ agent' = [p \in Panes |-> IF p \in ps THEN None ELSE agent[p]]
  /\ booting' = booting \ ps /\ stray' = stray \ ps
  /\ ended' = [p \in Panes |-> IF p \in ps THEN how ELSE ended[p]]

\* A pane ends by itself: nobody removes its entry.
Ends(p) ==
  /\ agent[p] # None /\ Spend("ends") /\ Gone({p}, "lost")
  /\ UNCHANGED <<registry, old, ledger, bridge, scripts, relisted>>

HerdrRestarts ==
  /\ Spend("ends") /\ Gone({p \in Panes : agent[p] # None}, "lost")
  /\ old' = {p \in Panes : registry[p] # None}
  /\ UNCHANGED <<registry, ledger, bridge, scripts, relisted>>

\* An entry is removed; an agent that is in the pane by now is listed no more.
Deregister(p) ==
  /\ registry' = [registry EXCEPT ![p] = None] /\ old' = old \ {p}
Forgotten(p) ==
  stray' = IF agent[p] = None \/ p \in booting THEN stray ELSE stray \cup {p}

\* herdr-close-agent.sh looks the pane up, deregisters it, closes it.
CloseFinds(p) ==
  /\ agent[p] # None /\ closing[p] = "no" /\ Spend("closes")
  /\ closing' = [closing EXCEPT ![p] = "found"]
  /\ UNCHANGED <<panes, ledger, bridge, reaper, recover, prune, past>>

\* (bug: herdr's own close_pane)
CloseDeregisters_Native(p) ==
  /\ closing[p] = "found" /\ closing' = [closing EXCEPT ![p] = "unlisted"]
  /\ UNCHANGED <<panes, ledger, bridge, reaper, recover, prune, left, past>>
\* It goes on if that fails.
CloseDeregisters(p) ==
  /\ closing[p] = "found" /\ closing' = [closing EXCEPT ![p] = "unlisted"]
  /\ \/ Deregister(p) /\ Forgotten(p) /\ UNCHANGED <<left, relisted>>
     \/ Spend("faults") /\ relisted' = relisted \cup {p} /\ UNCHANGED <<registry, old, stray>>
  /\ UNCHANGED <<agent, booting, ledger, bridge, reaper, recover, prune, ended>>

\* What is closed is in the pane now; if that fails it stays open.
CloseAgent(p) ==
  /\ closing[p] = "unlisted" /\ closing' = [closing EXCEPT ![p] = "no"]
  /\ \/ agent[p] # None /\ Gone({p}, "closed") /\ UNCHANGED left
     \/ /\ (agent[p] = None /\ UNCHANGED left) \/ Spend("faults")
        /\ UNCHANGED <<agent, booting, stray, ended>>
  /\ UNCHANGED <<registry, old, ledger, bridge, reaper, recover, prune, relisted>>

\* substrate.sh sweep, from the bridge: the panes that are live, the entries there
\* are then; those of this server whose pane was not live are removed.
PruneLists ==
  /\ up /\ prune.at = "off" /\ Free # Panes /\ Spend("prunes")
  /\ prune' = [at |-> "listed", todo |-> Free]
  /\ UNCHANGED <<panes, ledger, bridge, reaper, recover, closing, past>>

PruneReads ==
  /\ prune.at = "listed"
  /\ prune' = [at |-> "loop", todo |-> {p \in prune.todo : registry[p] # None}]
  /\ UNCHANGED <<panes, ledger, bridge, reaper, recover, closing, left, past>>

PruneEntry(p) ==
  /\ prune.at = "loop" /\ p \in prune.todo
  /\ prune' = [prune EXCEPT !.todo = @ \ {p}]
  /\ IF registry[p] # None /\ p \notin old THEN Deregister(p) /\ Forgotten(p)
     ELSE UNCHANGED <<registry, old, stray>>
  /\ UNCHANGED <<agent, booting, ledger, bridge, reaper, recover, closing, left, relisted, ended>>

PruneEnds ==
  /\ prune.at = "loop" /\ prune.todo = {} /\ prune' = [at |-> "off", todo |-> {}]
  /\ UNCHANGED <<panes, ledger, bridge, reaper, recover, closing, left, past>>

-----------------------------------------------------------------------------
(* Requests.                                                               *)

At(q, phase) == up /\ flow[q].at = phase
Locked_Listed(r) == r \in Listed   \* (bug: nothing in flight counts)
Locked(r) == r \in inFlight \/ r \in Listed

\* Another request comes in.
Asks(q) == At(q, "idle") /\ Spend("asks")
Becomes(q, what) == flow' = [flow EXCEPT ![q] = what]

\* A lock is released by its name, by q as it ends or by a sweep: others at work on
\* the repository are without one from here on, and what boots for them a stray.
Holding(q) == flow[q].at \notin {"idle", "asked"}
BootsFor(qs) == {p \in booting : \E k \in qs : p = flow[k].pane /\ agent[p] = flow[k].repo}
Releases(r, q) ==
  LET others == {k \in Requests \ {q} : Holding(k) /\ flow[k].repo = r} IN
  /\ inFlight' = inFlight \ {r}
  /\ robbed' = (robbed \ {q}) \cup others
  /\ losses' = losses + Cardinality(others \ robbed)
  /\ stray' = stray \cup BootsFor(others \cup (Requests \cap {q}))
Drops(q) == Becomes(q, Idle) /\ Releases(flow[q].repo, q)

RateAllows_OffByOne == stamps <= RATE_MAX   \* (bug: off by one)
RateAllows == stamps < RATE_MAX

\* performSpawn up to its await; who calls it without a lock takes it first.
Perform(q, r, held) ==
  IF RateAllows
  THEN /\ Becomes(q, [Idle EXCEPT !.at = "spawning", !.repo = r])
       /\ inFlight' = held /\ UNCHANGED <<robbed, losses, stray>>
  ELSE Becomes(q, Idle) /\ Releases(r, q)

\* doSpawn: the form is its own confirmation.
DirectSpawn(q, r) ==
  /\ Asks(q) /\ ~Locked(r) /\ Perform(q, r, inFlight \cup {r})
  /\ UNCHANGED <<panes, ledger, stamps, up, seeded, stale, scripts, relisted, ended>>

\* postSpawnConfirm.
PostConfirm(q, r) ==
  /\ Asks(q) /\ ~Locked(r) /\ inFlight' = inFlight \cup {r}
  /\ Becomes(q, [Idle EXCEPT !.at = "posting", !.repo = r])
  /\ UNCHANGED <<panes, ledger, robbed, losses, stamps, up, seeded, stale, scripts, past>>

Posted(q) ==
  /\ At(q, "posting")
  /\ \/ Becomes(q, [flow[q] EXCEPT !.at = "card"]) /\ UNCHANGED <<locks, stray>>
     \/ Drops(q)
  /\ UNCHANGED <<panes, ledger, stamps, up, seeded, stale, scripts, left, relisted, ended>>

\* A card is gone; n of the sweeps that have it before them come to it all the same.
Leaves(q, n) == stale' = [stale EXCEPT ![flow[q].repo] = @ + n]

\* handleSpawnAction, spawn:yes and spawn:no.
Approve(q) ==
  /\ At(q, "card") /\ Perform(q, flow[q].repo, inFlight) /\ Leaves(q, flow[q].due)
  /\ UNCHANGED <<panes, ledger, stamps, up, seeded, scripts, left, relisted, ended>>
Decline(q) ==
  /\ At(q, "card") /\ Drops(q) /\ Leaves(q, flow[q].due)
  /\ UNCHANGED <<panes, ledger, stamps, up, seeded, scripts, left, relisted, ended>>

\* (bug: the card goes, its lock stays)
Expire_Kept(q) ==
  /\ At(q, "card") /\ Becomes(q, Idle)
  /\ UNCHANGED <<panes, ledger, locks, stamps, up, seeded, stale, scripts, left, past>>

\* expirePendingSpawns takes the cards that are due, and at once retires the first;
\* it comes to the others after an await for each, whatever became of them.
Expire(q) ==
  /\ At(q, "card") /\ Releases(flow[q].repo, q) /\ Leaves(q, flow[q].due)
  /\ \E ks \in SUBSET {k \in Requests \ {q} : flow[k].at = "card"} :
       /\ \A k \in Requests \ {q} : flow[k].due > 0 => k \in ks
       /\ (ks = {} /\ UNCHANGED left) \/ (ks # {} /\ Spend("sweeps"))
       /\ flow' = [k \in Requests |-> IF k = q THEN Idle
                                     ELSE IF k \in ks THEN [flow[k] EXCEPT !.due = @ + 1] ELSE flow[k]]
  /\ UNCHANGED <<panes, ledger, stamps, up, seeded, scripts, relisted, ended>>
ExpireNext(q) ==
  /\ At(q, "card") /\ flow[q].due > 0 /\ Drops(q) /\ Leaves(q, flow[q].due - 1)
  /\ UNCHANGED <<panes, ledger, stamps, up, seeded, scripts, left, relisted, ended>>
ExpireAnswered(r) ==
  /\ up /\ stale[r] > 0 /\ stale' = [stale EXCEPT ![r] = @ - 1] /\ Releases(r, None)
  /\ UNCHANGED <<panes, ledger, stamps, up, seeded, flow, scripts, left, relisted, ended>>

\* doRestore reads the ledger ...
AskRestore(q, r) ==
  /\ Asks(q) /\ Becomes(q, [Idle EXCEPT !.at = "asked", !.repo = r, !.entry = ledger[r].state])
  /\ UNCHANGED <<panes, ledger, locks, stamps, up, seeded, stale, scripts, past>>

\* ... and goes on if that was not "live" and nobody is listed now.
Restore(q) ==
  /\ At(q, "asked")
  /\ IF flow[q].entry = "dormant" /\ ~Locked(flow[q].repo)
     THEN Perform(q, flow[q].repo, inFlight \cup {flow[q].repo})
     ELSE Becomes(q, Idle) /\ UNCHANGED <<locks, stray>>
  /\ UNCHANGED <<panes, ledger, stamps, up, seeded, stale, scripts, left, relisted, ended>>

\* spawnWindow: substrate.sh opens the window ...
OpenWindow(q, p) ==
  /\ At(q, "spawning") /\ flow[q].pane = None /\ Opened(p, flow[q].repo)
  /\ Becomes(q, [flow[q] EXCEPT !.pane = p])
  /\ stray' = IF q \in robbed THEN stray \cup {p} ELSE stray
  /\ UNCHANGED <<registry, old, ledger, locks, stamps, up, seeded, stale, scripts, left,
                 relisted, ended>>

\* ... and returns, or fails: without one, or after one was opened (the 8 s).
Spawned(q) ==
  /\ At(q, "spawning") /\ flow[q].pane # None
  /\ stamps' = stamps + 1 /\ Becomes(q, [flow[q] EXCEPT !.at = "ledger"])
  /\ UNCHANGED <<panes, ledger, locks, up, seeded, stale, scripts, left, past>>
SpawnFails(q) ==
  /\ At(q, "spawning") /\ Drops(q)
  /\ (flow[q].pane = None /\ UNCHANGED left) \/ Spend("faults")
  /\ UNCHANGED <<panes, ledger, stamps, up, seeded, stale, scripts, relisted, ended>>

\* agent-ledger.py spawn or restore; best effort.
Record(q) ==
  /\ At(q, "ledger") /\ Becomes(q, [flow[q] EXCEPT !.at = "waiting"])
  /\ \/ /\ ledger' = [ledger EXCEPT ![flow[q].repo] = [state |-> "live", pane |-> flow[q].pane]]
        /\ UNCHANGED left
     \/ Spend("faults") /\ UNCHANGED ledger
  /\ UNCHANGED <<panes, locks, stamps, up, seeded, stale, scripts, past>>

\* awaitRegistration: somebody is listed for the repository, or it gives up.
AwaitRegistration(q) ==
  /\ At(q, "waiting") /\ Drops(q)
  /\ UNCHANGED <<panes, ledger, stamps, up, seeded, stale, scripts, left, relisted, ended>>

\* A stamp leaves the window.
Ages ==
  /\ stamps > 0 /\ stamps' = stamps - 1
  /\ UNCHANGED <<panes, ledger, locks, up, seeded, flow, stale, scripts, left, past>>

-----------------------------------------------------------------------------
(* The bridge stops, and starts again with nothing but the ledger.          *)

\* agent-ledger.py reconcile: a live entry that neither name nor pane backs is gone.
Backed(r) == r \in Listed \/ (ledger[r].pane # None /\ registry[ledger[r].pane] # None)
Reconciled == [r \in Repos |->
  IF ledger[r].state = "live" /\ ~Backed(r) THEN Unknown ELSE ledger[r]]

BridgeStops ==
  /\ up /\ Spend("crashes") /\ up' = FALSE /\ seeded' = FALSE
  /\ inFlight' = {} /\ stamps' = 0 /\ robbed' = {} /\ losses' = 0
  /\ flow' = [q \in Requests |-> Idle] /\ stale' = [r \in Repos |-> 0]
  /\ stray' = stray \cup ({flow[q].pane : q \in Requests} \cap booting)
  /\ UNCHANGED <<panes, ledger, scripts, relisted, ended>>
BridgeStarts ==
  /\ ~up /\ up' = TRUE
  /\ UNCHANGED <<panes, ledger, locks, stamps, seeded, flow, stale, scripts, left, past>>

\* seedLocksOnStartup; requests may come in before it.
SeedLocks ==
  /\ up /\ ~seeded /\ seeded' = TRUE /\ ledger' = Reconciled
  /\ inFlight' = inFlight \cup {r \in Repos : Reconciled[r].state = "live"}
  /\ UNCHANGED <<panes, robbed, losses, stamps, up, flow, stale, scripts, left, past>>

-----------------------------------------------------------------------------
(* The reaper closes an agent, minutes after it read whose it is: kill,     *)
(* deregister, mark.  By then the pane may be another's.                    *)

ReapJudges(p) ==
  /\ reaper.at = "off" /\ registry[p] # None /\ agent[p] # None /\ Spend("reaps")
  /\ reaper' = [at |-> "judged", pane |-> p, repo |-> registry[p]]
  /\ UNCHANGED <<panes, ledger, bridge, recover, closing, prune, past>>

ReapKill ==
  /\ reaper.at = "judged" /\ agent[reaper.pane] # None
  /\ Gone({reaper.pane}, "reaped") /\ reaper' = [reaper EXCEPT !.at = "killed"]
  /\ UNCHANGED <<registry, old, ledger, bridge, recover, closing, prune, left, relisted>>
ReapFails ==
  /\ reaper.at = "judged" /\ reaper' = Rests
  /\ UNCHANGED <<panes, ledger, bridge, recover, closing, prune, left, past>>

ReapDeregister ==
  /\ reaper.at = "killed" /\ reaper' = [reaper EXCEPT !.at = "mark"]
  /\ Deregister(reaper.pane) /\ Forgotten(reaper.pane)
  /\ UNCHANGED <<agent, booting, ledger, bridge, recover, closing, prune, left, relisted, ended>>

ReapMark ==
  /\ reaper.at = "mark" /\ reaper' = Rests
  /\ ledger' = IF ledger[reaper.repo].state = "live"
               THEN [ledger EXCEPT ![reaper.repo].state = "dormant"] ELSE ledger
  /\ UNCHANGED <<panes, bridge, recover, closing, prune, left, past>>

-----------------------------------------------------------------------------
(* herdr-recover.sh --respawn.                                              *)

RecoverStarts ==
  /\ recover.at = "off" /\ Spend("recovers")
  /\ recover' = [Asleep EXCEPT !.at = "next", !.todo = {p \in Panes : registry[p] # None}]
  /\ UNCHANGED <<panes, ledger, bridge, reaper, closing, prune, past>>

Casualty(p) == registry[p] # None /\ agent[p] = None /\ ledger[registry[p]].state = "live"

\* Alive, not there any more, or not live in the ledger.
RecoverPasses(p) ==
  /\ recover.at = "next" /\ p \in recover.todo /\ ~Casualty(p)
  /\ recover' = [recover EXCEPT !.todo = @ \ {p}]
  /\ UNCHANGED <<panes, ledger, bridge, reaper, closing, prune, left, past>>

RecoverFinds(p) ==
  /\ recover.at = "next" /\ p \in recover.todo /\ Casualty(p)
  /\ recover' = [at |-> "found", pane |-> p, repo |-> registry[p], todo |-> recover.todo \ {p}]
  /\ UNCHANGED <<panes, ledger, bridge, reaper, closing, prune, left, past>>

\* The agent of the entry is opened again in s; if that fails the entry is left.
Respawn(s) ==
  /\ recover.at = "found" /\ recover' = [recover EXCEPT !.at = "respawned"]
  /\ Opened(s, recover.repo) /\ stray' = stray \cup {s}
  /\ UNCHANGED <<registry, old, ledger, bridge, reaper, closing, prune, left, relisted, ended>>
RespawnFails ==
  /\ recover.at = "found" /\ Spend("faults")
  /\ recover' = [recover EXCEPT !.at = "next", !.pane = None, !.repo = None]
  /\ UNCHANGED <<panes, ledger, bridge, reaper, closing, prune, past>>

\* "restore" without a pane keeps the one on record; then the entry goes.
RecoverRecords ==
  /\ recover.at = "respawned"
  /\ recover' = [recover EXCEPT !.at = "next", !.pane = None, !.repo = None]
  /\ ledger' = [ledger EXCEPT ![recover.repo].state = "live"]
  /\ Deregister(recover.pane) /\ Forgotten(recover.pane)
  /\ UNCHANGED <<agent, booting, bridge, reaper, closing, prune, left, relisted, ended>>

RecoverEnds ==
  /\ recover.at = "next" /\ recover.todo = {} /\ recover' = Asleep /\ ledger' = Reconciled
  /\ UNCHANGED <<panes, bridge, reaper, closing, prune, left, past>>

-----------------------------------------------------------------------------
Init ==
  /\ left \in Bounds
  /\ agent = [p \in Panes |-> None] /\ booting = {} /\ old = {}
  /\ registry = [p \in Panes |-> None] /\ ledger = [r \in Repos |-> Unknown]
  /\ inFlight = {} /\ stamps = 0 /\ up = TRUE /\ seeded = FALSE
  /\ flow = [q \in Requests |-> Idle] /\ stale = [r \in Repos |-> 0]
  /\ reaper = Rests /\ recover = Asleep /\ prune = [at |-> "off", todo |-> {}]
  /\ closing = [p \in Panes |-> "no"] /\ robbed = {} /\ losses = 0
  /\ stray = {} /\ relisted = {} /\ ended = [p \in Panes |-> "never"]

Agent(p) == Registers(p) \/ Ends(p) \/ CloseFinds(p) \/ CloseDeregisters(p) \/ CloseAgent(p)
Pruning == PruneLists \/ PruneReads \/ (\E p \in Panes : PruneEntry(p)) \/ PruneEnds
Begins(q) == \E r \in Repos : DirectSpawn(q, r) \/ PostConfirm(q, r) \/ AskRestore(q, r)
Answers(q) == Approve(q) \/ Decline(q)
Proceeds(q) ==
  \/ Posted(q) \/ Expire(q) \/ ExpireNext(q) \/ Restore(q)
  \/ (\E p \in Panes : OpenWindow(q, p))
  \/ Spawned(q) \/ SpawnFails(q) \/ Record(q) \/ AwaitRegistration(q)
Bridge ==
  BridgeStops \/ BridgeStarts \/ SeedLocks \/ Ages \/ (\E r \in Repos : ExpireAnswered(r))
Reaper ==
  (\E p \in Panes : ReapJudges(p)) \/ ReapKill \/ ReapFails \/ ReapDeregister \/ ReapMark
Recover ==
  \/ RecoverStarts \/ RespawnFails \/ RecoverRecords \/ RecoverEnds
  \/ \E p \in Panes : RecoverPasses(p) \/ RecoverFinds(p) \/ Respawn(p)
Next ==
  \/ (\E p \in Panes : Agent(p)) \/ HerdrRestarts \/ Pruning
  \/ (\E q \in Requests : Begins(q) \/ Answers(q) \/ Proceeds(q))
  \/ Bridge \/ Reaper \/ Recover

\* Every await of a request has a time limit, and cards expire.
Spec == Init /\ [][Next]_vars /\ \A q \in Requests : WF_vars(Proceeds(q))

-----------------------------------------------------------------------------
(* Properties.                                                             *)

\* Each request has a repository, and a pane once its window was opened; a script
\* that is at a pane knows whose it was.
States == {"none", "live", "dormant"}
Flows ==
  {k \in [at : {"idle", "asked", "posting", "card", "spawning", "ledger", "waiting"},
          repo : Repos \cup {None}, pane : Panes \cup {None}, entry : States, due : Nat] :
     /\ k.at # "idle" => k.repo \in Repos
     /\ k.at \in {"ledger", "waiting"} => k.pane \in Panes
     /\ k.due > 0 => k.at = "card"}
TypeOK ==
  /\ {agent, registry} \subseteq [Panes -> Repos \cup {None}]
  /\ booting \subseteq Panes /\ old \subseteq Panes /\ stray \subseteq Panes
  /\ ledger \in [Repos -> [state : States, pane : Panes \cup {None}]]
  /\ inFlight \subseteq Repos /\ stamps \in Nat /\ {up, seeded} \subseteq BOOLEAN
  /\ flow \in [Requests -> Flows] /\ stale \in [Repos -> Nat]
  /\ robbed \subseteq Requests /\ losses \in Nat
  /\ reaper = Rests \/ reaper \in [at : {"judged", "killed", "mark"}, pane : Panes, repo : Repos]
  /\ recover.at \in {"off", "next", "found", "respawned"} /\ recover.todo \subseteq Panes
  /\ recover.at \in {"found", "respawned"} => recover.pane \in Panes /\ recover.repo \in Repos
  /\ closing \in [Panes -> {"no", "found", "unlisted"}] /\ prune.todo \subseteq Panes
  /\ ended \in [Panes -> {"never", "lost", "closed", "reaped"}]

\* "at most one spawn (or live agent) per repo": two agents of one repository are
\* open only if one is a stray.  Either nobody waited for it when it booted: its
\* request gave up, was told of a failure, died with the bridge or lost its lock to
\* a sweep of old cards, or herdr-recover opened it.  Or its entry was removed under
\* it: by a close that is not over or failed, or for another agent of the pane.
OneWindow ==
  \A p \in Panes \ Free : \A s \in Panes \ Free :
    p # s /\ agent[p] = agent[s] => {p, s} \cap stray # {}

\* "SPAWN_RATE_MAX spawns per window": the spawns of one run of the bridge exceed it
\* by no more than the other repositories, whose approvals may all be in the air,
\* and the requests whose lock was taken from them.
RateKept == stamps <= RATE_MAX + Cardinality(Repos) - 1 + losses

\* "a never-clicked offer never holds a repo's lock forever", nor does any request.
Holds(r) == r \in inFlight /\ \E q \in Requests : flow[q].repo = r /\ Holding(q)
LocksAreReleased == \A r \in Repos : Holds(r) ~> r \notin inFlight

\* "so herdr-recover doesn't respawn a deliberately closed agent": what it finds to
\* open again was closed by nobody, unless the reaper is just at it, or its close
\* could not remove the entry or met one that came after it had.
RevivesTheLost ==
  [][\A p \in Panes :
       RecoverFinds(p) => ended[p] = "lost" \/ p \in relisted \/ reaper.pane = p]_vars
=============================================================================
