----------------------------- MODULE PanesProofs -----------------------------
(***************************************************************************)
(* What holds of the panes of herdr, however many there are: of those who  *)
(* open agents in them (Spawn), and of the reaper that closes them         *)
(* (Reaper), for any limits and any number of acts and faults.             *)
(***************************************************************************)
EXTENDS Spawn, Reaper, FiniteSetTheorems, TLAPS

-----------------------------------------------------------------------------
(* Spawn: the types.                                                       *)

\* A request becomes something it may be.
LEMMA BecomesTyped ==
  ASSUME TypeOK, NEW q \in Requests, NEW k \in Flows, Becomes(q, k)
  PROVE  /\ flow' \in [Requests -> Flows] /\ flow'[q] = k
         /\ \A o \in Requests \ {q} : flow'[o] = flow[o]
BY DEF TypeOK, Becomes

AnyFlow ==
  [at : {"idle", "asked", "posting", "card", "spawning", "ledger", "waiting"},
   repo : Repos \cup {None}, pane : Panes \cup {None}, entry : States, due : Nat]

LEMMA IdleTyped ==
  Idle \in Flows /\ Idle \in AnyFlow /\ Idle.at = "idle" /\ Idle.due = 0 /\ Idle.pane = None
BY DEF Idle, AnyFlow, Flows, States

LEMMA InitTypeOK == Init => TypeOK
<1> SUFFICES ASSUME Init PROVE TypeOK
  OBVIOUS
<1>1. flow \in [Requests -> Flows]
  BY IdleTyped DEF Init
<1>2. ledger \in [Repos -> [state : States, pane : Panes \cup {None}]]
  BY DEF Init, Unknown, States
<1>3. recover.at = "off" /\ recover.todo = {} /\ prune.todo = {}
  BY DEF Init, Asleep
<1> QED BY <1>1, <1>2, <1>3 DEF Init, TypeOK

\* What the phases of a request know of it.
LEMMA FlowTyped ==
  ASSUME TypeOK, NEW q \in Requests
  PROVE  /\ flow[q] \in Flows
         /\ flow[q].at # "idle" => flow[q].repo \in Repos
         /\ flow[q].at \in {"ledger", "waiting"} => flow[q].pane \in Panes
         /\ flow[q].pane \in Panes \cup {None} /\ flow[q].repo \in Repos \cup {None}
         /\ flow[q].due \in Nat /\ (flow[q].due > 0 => flow[q].at = "card")
BY DEF TypeOK, Flows

\* It moves on to another phase.
LEMMA PhaseTyped ==
  ASSUME TypeOK, NEW q \in Requests, flow[q].at \notin {"idle", "card"},
         NEW phase \in {"card", "waiting", "ledger"},
         phase \in {"waiting", "ledger"} => flow[q].pane \in Panes
  PROVE  /\ [flow[q] EXCEPT !.at = phase] \in Flows
         /\ [flow[q] EXCEPT !.at = phase].at = phase
         /\ [flow[q] EXCEPT !.at = phase].repo = flow[q].repo
         /\ [flow[q] EXCEPT !.at = phase].pane = flow[q].pane
BY FlowTyped DEF Flows

\* It begins, with the repository it is for.
LEMMA SetAt ==
  ASSUME NEW k \in AnyFlow, NEW phase \in {"asked", "spawning", "posting"}
  PROVE  /\ [k EXCEPT !.at = phase] \in AnyFlow /\ [k EXCEPT !.at = phase].at = phase
         /\ [k EXCEPT !.at = phase].due = k.due
BY DEF AnyFlow

LEMMA SetRepo ==
  ASSUME NEW k \in AnyFlow, NEW r \in Repos, k.due = 0, k.at \in {"asked", "spawning", "posting"}
  PROVE  /\ [k EXCEPT !.repo = r] \in Flows /\ [k EXCEPT !.repo = r].at = k.at
         /\ [k EXCEPT !.repo = r].repo = r /\ [k EXCEPT !.repo = r].due = 0
BY DEF AnyFlow, Flows

LEMMA SetEntry ==
  ASSUME NEW k \in Flows, NEW s \in States
  PROVE  [k EXCEPT !.entry = s] \in Flows /\ [k EXCEPT !.entry = s].at = k.at
BY DEF Flows

LEMMA SpawningTyped ==
  ASSUME NEW r \in Repos, NEW phase \in {"spawning", "posting"}
  PROVE  /\ [Idle EXCEPT !.at = phase, !.repo = r] \in Flows
         /\ [Idle EXCEPT !.at = phase, !.repo = r].at = phase
         /\ [Idle EXCEPT !.at = phase, !.repo = r].repo = r
<1> DEFINE m == [Idle EXCEPT !.at = phase]
<1>1. m \in AnyFlow /\ m.at = phase /\ m.due = 0
  BY IdleTyped, SetAt
<1>2. [Idle EXCEPT !.at = phase, !.repo = r] = [m EXCEPT !.repo = r]
  OBVIOUS
<1> HIDE DEF m
<1> QED BY <1>1, <1>2, SetRepo

LEMMA AskedTyped ==
  ASSUME NEW r \in Repos, NEW s \in States
  PROVE  /\ [Idle EXCEPT !.at = "asked", !.repo = r, !.entry = s] \in Flows
         /\ [Idle EXCEPT !.at = "asked", !.repo = r, !.entry = s].at = "asked"
<1> DEFINE m == [Idle EXCEPT !.at = "asked"]
<1> DEFINE n == [m EXCEPT !.repo = r]
<1>1. m \in AnyFlow /\ m.at = "asked" /\ m.due = 0
  BY IdleTyped, SetAt
<1>2. [Idle EXCEPT !.at = "asked", !.repo = r, !.entry = s] = [n EXCEPT !.entry = s]
  OBVIOUS
<1> HIDE DEF m
<1>3. n \in Flows /\ n.at = "asked"
  BY <1>1, SetRepo
<1> HIDE DEF n
<1> QED BY <1>2, <1>3, SetEntry

\* The holders of a lock that is released by its name, q itself excepted.
Robs(r, q) == {k \in Requests \ {q} : Holding(k) /\ flow[k].repo = r}

LEMMA ReleasesTyped ==
  ASSUME TypeOK, NEW r, NEW q, Releases(r, q)
  PROVE  /\ inFlight' \subseteq Repos /\ inFlight' = inFlight \ {r}
         /\ robbed' \subseteq Requests /\ robbed' = (robbed \ {q}) \cup Robs(r, q)
         /\ IsFiniteSet(Robs(r, q) \ robbed) /\ Cardinality(Robs(r, q) \ robbed) \in Nat
         /\ losses' = losses + Cardinality(Robs(r, q) \ robbed) /\ losses' \in Nat
         /\ stray' \subseteq Panes /\ stray \subseteq stray'
<1>1. Robs(r, q) \subseteq Requests
  BY DEF Robs
<1>2. IsFiniteSet(Robs(r, q) \ robbed) /\ Cardinality(Robs(r, q) \ robbed) \in Nat
  BY <1>1, SpawnAssumption, FS_Subset, FS_CardinalityType
<1>3. losses' = losses + Cardinality(Robs(r, q) \ robbed)
  BY DEF Releases, Robs
<1>4. robbed' = (robbed \ {q}) \cup Robs(r, q)
  BY DEF Releases, Robs
<1> QED BY <1>1, <1>2, <1>3, <1>4 DEF Releases, BootsFor, TypeOK

LEMMA PerformTyped ==
  ASSUME TypeOK, NEW q \in Requests, NEW r \in Repos, NEW held \in SUBSET Repos, Perform(q, r, held)
  PROVE  /\ flow' \in [Requests -> Flows] /\ inFlight' \subseteq Repos
         /\ robbed' \subseteq Requests /\ losses' \in Nat /\ stray' \subseteq Panes
<1>1. CASE RateAllows
  BY <1>1, SpawningTyped, BecomesTyped DEF Perform, TypeOK
<1>2. CASE ~RateAllows
  BY <1>2, IdleTyped, BecomesTyped, ReleasesTyped DEF Perform
<1> QED BY <1>1, <1>2

LEMMA DropsTyped ==
  ASSUME TypeOK, NEW q \in Requests, Drops(q)
  PROVE  /\ flow' \in [Requests -> Flows] /\ inFlight' \subseteq Repos
         /\ robbed' \subseteq Requests /\ losses' \in Nat /\ stray' \subseteq Panes
BY IdleTyped, BecomesTyped, ReleasesTyped DEF Drops

LEMMA LeavesTyped ==
  ASSUME TypeOK, NEW q \in Requests, flow[q].repo \in Repos, NEW n \in Nat, Leaves(q, n)
  PROVE  stale' \in [Repos -> Nat]
BY DEF Leaves, TypeOK

LEMMA ReconciledTyped ==
  ASSUME TypeOK PROVE Reconciled \in [Repos -> [state : States, pane : Panes \cup {None}]]
BY DEF TypeOK, Reconciled, Unknown, States

LEMMA GoneTyped ==
  ASSUME TypeOK, NEW ps \in SUBSET Panes,
         NEW how \in {"lost", "closed", "reaped"}, Gone(ps, how)
  PROVE  /\ agent' \in [Panes -> Repos \cup {None}] /\ booting' \subseteq Panes
         /\ stray' \subseteq Panes /\ ended' \in [Panes -> {"never", "lost", "closed", "reaped"}]
BY DEF TypeOK, Gone

\* An entry that goes.
LEMMA DeregisterTyped ==
  ASSUME TypeOK, NEW p \in Panes, Deregister(p), Forgotten(p)
  PROVE  registry' \in [Panes -> Repos \cup {None}] /\ old' \subseteq Panes /\ stray' \subseteq Panes
BY DEF TypeOK, Deregister, Forgotten

\* The steps of the panes.
LEMMA AgentTyped ==
  ASSUME TypeOK, NEW p \in Panes, Agent(p)
  PROVE  TypeOK'
<1> USE DEF panes, bridge, locks, scripts, past
<1>1. CASE Registers(p)
  BY <1>1 DEF Registers, TypeOK
<1>2. CASE Ends(p)
  BY <1>2, GoneTyped DEF Ends, TypeOK
<1>3. CASE CloseFinds(p)
  BY <1>3 DEF CloseFinds, TypeOK
<1>4. CASE CloseDeregisters(p)
  <2>1. closing' \in [Panes -> {"no", "found", "unlisted"}]
    BY <1>4 DEF CloseDeregisters, TypeOK
  <2>2. /\ registry' \in [Panes -> Repos \cup {None}] /\ old' \subseteq Panes
        /\ stray' \subseteq Panes
    BY <1>4, DeregisterTyped DEF CloseDeregisters, TypeOK
  <2> QED BY <1>4, <2>1, <2>2 DEF CloseDeregisters, TypeOK
<1>5. CASE CloseAgent(p)
  <2>1. closing' \in [Panes -> {"no", "found", "unlisted"}]
    BY <1>5 DEF CloseAgent, TypeOK
  <2>2. /\ agent' \in [Panes -> Repos \cup {None}] /\ booting' \subseteq Panes
        /\ stray' \subseteq Panes /\ ended' \in [Panes -> {"never", "lost", "closed", "reaped"}]
    BY <1>5, GoneTyped DEF CloseAgent, TypeOK
  <2> QED BY <1>5, <2>1, <2>2 DEF CloseAgent, TypeOK
<1> QED BY <1>1, <1>2, <1>3, <1>4, <1>5 DEF Agent

LEMMA RestartTyped == ASSUME TypeOK, HerdrRestarts PROVE TypeOK'
<1>1. {p \in Panes : agent[p] # None} \in SUBSET Panes /\ old' \subseteq Panes
  BY DEF HerdrRestarts
<1> QED BY <1>1, GoneTyped DEF HerdrRestarts, TypeOK, bridge, locks, scripts

LEMMA PruningTyped == ASSUME TypeOK, Pruning PROVE TypeOK'
<1> USE DEF panes, bridge, locks, past
<1>1. CASE PruneLists
  BY <1>1 DEF PruneLists, Free, TypeOK
<1>2. CASE PruneReads
  BY <1>2 DEF PruneReads, TypeOK
<1>3. ASSUME NEW p \in Panes, PruneEntry(p) PROVE TypeOK'
  <2>1. prune'.todo \subseteq Panes
    BY <1>3 DEF PruneEntry, TypeOK
  <2>2. /\ registry' \in [Panes -> Repos \cup {None}] /\ old' \subseteq Panes
        /\ stray' \subseteq Panes
    BY <1>3, DeregisterTyped DEF PruneEntry, TypeOK
  <2> QED BY <1>3, <2>1, <2>2 DEF PruneEntry, TypeOK
<1>4. CASE PruneEnds
  BY <1>4 DEF PruneEnds, TypeOK
<1> QED BY <1>1, <1>2, <1>3, <1>4 DEF Pruning

\* The steps of a request.
LEMMA RequestTyped ==
  ASSUME TypeOK, NEW q \in Requests, Begins(q) \/ Answers(q) \/ Proceeds(q)
  PROVE  TypeOK'
<1> USE DEF panes, scripts, locks, past
<1>0. /\ flow[q].at # "idle" => flow[q].repo \in Repos
      /\ flow[q].due \in Nat
  BY FlowTyped
<1>1. ASSUME NEW r \in Repos, DirectSpawn(q, r) PROVE TypeOK'
  <2>1. inFlight \cup {r} \in SUBSET Repos
    BY DEF TypeOK
  <2> QED BY <1>1, <2>1, PerformTyped DEF DirectSpawn, TypeOK
<1>2. ASSUME NEW r \in Repos, PostConfirm(q, r) PROVE TypeOK'
  <2> DEFINE k == [Idle EXCEPT !.at = "posting", !.repo = r]
  <2>1. k \in Flows /\ Becomes(q, k)
    BY <1>2, SpawningTyped DEF PostConfirm
  <2> HIDE DEF k
  <2>2. flow' \in [Requests -> Flows]
    BY <2>1, BecomesTyped
  <2> QED BY <1>2, <2>2 DEF PostConfirm, TypeOK
<1>3. ASSUME NEW r \in Repos, AskRestore(q, r) PROVE TypeOK'
  <2>1. ledger[r].state \in States
    BY DEF TypeOK
  <2>2. [Idle EXCEPT !.at = "asked", !.repo = r, !.entry = ledger[r].state] \in Flows
    BY <2>1, AskedTyped
  <2> QED BY <1>3, <2>2, BecomesTyped DEF AskRestore, TypeOK
<1>4. CASE Posted(q)
  <2>1. flow[q].at = "posting"
    BY <1>4 DEF Posted, At
  <2>2. [flow[q] EXCEPT !.at = "card"] \in Flows
    BY <2>1, PhaseTyped
  <2> QED BY <1>4, <2>2, BecomesTyped, DropsTyped DEF Posted, TypeOK
<1>5. CASE Approve(q)
  <2>1. inFlight \in SUBSET Repos /\ flow[q].repo \in Repos /\ Leaves(q, flow[q].due)
    BY <1>0, <1>5 DEF Approve, At, TypeOK
  <2> QED BY <1>0, <1>5, <2>1, PerformTyped, LeavesTyped DEF Approve, TypeOK
<1>6. CASE Decline(q)
  <2>1. flow[q].repo \in Repos /\ Leaves(q, flow[q].due) /\ Drops(q)
    BY <1>0, <1>6 DEF Decline, At
  <2> QED BY <1>0, <1>6, <2>1, DropsTyped, LeavesTyped DEF Decline, TypeOK
<1>7. CASE Expire(q)
  <2>1. flow[q].repo \in Repos /\ Leaves(q, flow[q].due) /\ Releases(flow[q].repo, q)
    BY <1>0, <1>7 DEF Expire, At
  <2>2. PICK ks \in SUBSET {k \in Requests \ {q} : flow[k].at = "card"} :
          flow' = [k \in Requests |-> IF k = q THEN Idle
                     ELSE IF k \in ks THEN [flow[k] EXCEPT !.due = @ + 1] ELSE flow[k]]
    BY <1>7 DEF Expire
  <2>3. \A k \in ks : [flow[k] EXCEPT !.due = @ + 1] \in Flows
    BY <2>2, FlowTyped DEF Flows
  <2>4. flow' \in [Requests -> Flows]
    BY <2>2, <2>3, IdleTyped DEF TypeOK
  <2> QED BY <1>0, <1>7, <2>1, <2>4, ReleasesTyped, LeavesTyped DEF Expire, TypeOK
<1>8. CASE ExpireNext(q)
  <2>1. flow[q].repo \in Repos /\ Leaves(q, flow[q].due - 1) /\ Drops(q) /\ flow[q].due - 1 \in Nat
    BY <1>0, <1>8 DEF ExpireNext, At
  <2> QED BY <1>8, <2>1, DropsTyped, LeavesTyped DEF ExpireNext, TypeOK
<1>9. CASE Restore(q)
  <2>1. inFlight \cup {flow[q].repo} \in SUBSET Repos /\ flow[q].repo \in Repos
    BY <1>0, <1>9 DEF Restore, At, TypeOK
  <2> QED BY <1>9, <2>1, PerformTyped, IdleTyped, BecomesTyped DEF Restore, TypeOK
<1>10. ASSUME NEW p \in Panes, OpenWindow(q, p) PROVE TypeOK'
  <2>1. flow[q].at = "spawning" /\ flow[q].repo \in Repos
    BY <1>0, <1>10 DEF OpenWindow, At
  <2>2. [flow[q] EXCEPT !.pane = p] \in Flows
    BY <2>1, FlowTyped DEF Flows
  <2> QED BY <1>10, <2>1, <2>2, BecomesTyped DEF OpenWindow, Opened, TypeOK
<1>11. CASE Spawned(q)
  <2>1. flow[q].at = "spawning" /\ flow[q].pane \in Panes
    BY <1>11, FlowTyped DEF Spawned, At
  <2>2. [flow[q] EXCEPT !.at = "ledger"] \in Flows
    BY <2>1, PhaseTyped
  <2> QED BY <1>11, <2>2, BecomesTyped DEF Spawned, TypeOK
<1>12. CASE SpawnFails(q)
  BY <1>12, DropsTyped DEF SpawnFails, TypeOK
<1>13. CASE Record(q)
  <2>1. flow[q].at = "ledger" /\ flow[q].pane \in Panes /\ flow[q].repo \in Repos
    BY <1>13, FlowTyped DEF Record, At
  <2>2. [flow[q] EXCEPT !.at = "waiting"] \in Flows
    BY <2>1, PhaseTyped
  <2>3. ledger' \in [Repos -> [state : States, pane : Panes \cup {None}]]
    BY <1>13, <2>1 DEF Record, TypeOK, States
  <2> QED BY <1>13, <2>2, <2>3, BecomesTyped DEF Record, TypeOK
<1>14. CASE AwaitRegistration(q)
  BY <1>14, DropsTyped DEF AwaitRegistration, TypeOK
<1> QED BY <1>1, <1>2, <1>3, <1>4, <1>5, <1>6, <1>7, <1>8, <1>9, <1>10, <1>11, <1>12, <1>13, <1>14
        DEF Begins, Answers, Proceeds

\* The steps of the bridge and of the scripts.
LEMMA BridgeTyped == ASSUME TypeOK, Bridge PROVE TypeOK'
<1> USE DEF panes, scripts, locks, past
<1>1. CASE BridgeStops
  <2>1. flow' \in [Requests -> Flows]
    BY <1>1, IdleTyped DEF BridgeStops
  <2> QED BY <1>1, <2>1 DEF BridgeStops, TypeOK
<1>2. CASE BridgeStarts
  BY <1>2 DEF BridgeStarts, TypeOK
<1>3. CASE SeedLocks
  BY <1>3, ReconciledTyped DEF SeedLocks, TypeOK
<1>4. CASE Ages
  BY <1>4 DEF Ages, TypeOK
<1>5. ASSUME NEW r \in Repos, ExpireAnswered(r) PROVE TypeOK'
  <2>1. stale' \in [Repos -> Nat]
    BY <1>5 DEF ExpireAnswered, TypeOK
  <2> QED BY <1>5, <2>1, ReleasesTyped DEF ExpireAnswered, TypeOK
<1> QED BY <1>1, <1>2, <1>3, <1>4, <1>5 DEF Bridge

\* Once the reaper has judged a pane it is at it.
LEMMA AtWork ==
  ASSUME TypeOK, reaper.at \in {"judged", "killed", "mark"}
  PROVE  reaper \in [at : {"judged", "killed", "mark"}, pane : Panes, repo : Repos]
BY DEF TypeOK, Rests

LEMMA ReaperTyped == ASSUME TypeOK, Reaper PROVE TypeOK'
<1> USE DEF panes, bridge, locks, past
<1>1. ASSUME NEW p \in Panes, ReapJudges(p) PROVE TypeOK'
  <2>1. registry[p] \in Repos
    BY <1>1 DEF ReapJudges, TypeOK
  <2> QED BY <1>1, <2>1 DEF ReapJudges, TypeOK
<1>2. CASE ReapKill
  <2>1. reaper \in [at : {"judged", "killed", "mark"}, pane : Panes, repo : Repos]
    BY <1>2, AtWork DEF ReapKill
  <2>2. reaper' \in [at : {"judged", "killed", "mark"}, pane : Panes, repo : Repos]
    BY <1>2, <2>1 DEF ReapKill
  <2>3. {reaper.pane} \in SUBSET Panes
    BY <2>1
  <2> QED BY <1>2, <2>2, <2>3, GoneTyped DEF ReapKill, TypeOK
<1>3. CASE ReapFails
  BY <1>3 DEF ReapFails, Rests, TypeOK
<1>4. CASE ReapDeregister
  <2>1. reaper \in [at : {"judged", "killed", "mark"}, pane : Panes, repo : Repos]
    BY <1>4, AtWork DEF ReapDeregister
  <2>2. reaper' \in [at : {"judged", "killed", "mark"}, pane : Panes, repo : Repos]
    BY <1>4, <2>1 DEF ReapDeregister
  <2> QED BY <1>4, <2>1, <2>2, DeregisterTyped DEF ReapDeregister, TypeOK
<1>5. CASE ReapMark
  <2>1. reaper \in [at : {"judged", "killed", "mark"}, pane : Panes, repo : Repos]
    BY <1>5, AtWork DEF ReapMark
  <2> QED BY <1>5, <2>1 DEF ReapMark, Rests, TypeOK, States
<1> QED BY <1>1, <1>2, <1>3, <1>4, <1>5 DEF Reaper

LEMMA RecoverTyped == ASSUME TypeOK, Recover PROVE TypeOK'
<1> USE DEF panes, bridge, locks, past
<1>1. CASE RecoverStarts
  BY <1>1 DEF RecoverStarts, Asleep, TypeOK
<1>2. CASE RecoverRecords
  <2>1. recover.pane \in Panes /\ recover.repo \in Repos
    BY <1>2 DEF RecoverRecords, TypeOK
  <2>2. recover'.at = "next" /\ recover'.todo \subseteq Panes
    BY <1>2 DEF RecoverRecords, TypeOK
  <2> QED BY <1>2, <2>1, <2>2, DeregisterTyped DEF RecoverRecords, TypeOK, States
<1>3. CASE RecoverEnds
  BY <1>3, ReconciledTyped DEF RecoverEnds, Asleep, TypeOK
<1>4. ASSUME NEW p \in Panes, RecoverPasses(p) PROVE TypeOK'
  BY <1>4 DEF RecoverPasses, TypeOK
<1>5. ASSUME NEW p \in Panes, RecoverFinds(p) PROVE TypeOK'
  BY <1>5 DEF RecoverFinds, Casualty, TypeOK
<1>6. ASSUME NEW s \in Panes, Respawn(s) PROVE TypeOK'
  <2>1. recover.pane \in Panes /\ recover.repo \in Repos
    BY <1>6 DEF Respawn, TypeOK
  <2>2. /\ recover'.at = "respawned" /\ recover'.todo \subseteq Panes
        /\ recover'.pane \in Panes /\ recover'.repo \in Repos
    BY <1>6, <2>1 DEF Respawn, TypeOK
  <2> QED BY <1>6, <2>1, <2>2 DEF Respawn, Opened, TypeOK
<1>7. CASE RespawnFails
  BY <1>7 DEF RespawnFails, TypeOK
<1> QED BY <1>1, <1>2, <1>3, <1>4, <1>5, <1>6, <1>7 DEF Recover

LEMMA TypeNext == TypeOK /\ [Next]_vars => TypeOK'
<1> SUFFICES ASSUME TypeOK, [Next]_vars PROVE TypeOK'
  OBVIOUS
<1>1. CASE UNCHANGED vars
  BY <1>1 DEF vars, panes, bridge, locks, scripts, past, TypeOK
<1> QED BY <1>1, AgentTyped, RestartTyped, PruningTyped, RequestTyped, BridgeTyped, ReaperTyped,
           RecoverTyped
        DEF Next

\* Each request has a repository while it is at work, and a pane once its window
\* was opened; a script that is at a pane knows whose it was (index.js 739-972).
THEOREM SpawnTypes == Spec => []TypeOK
BY InitTypeOK, TypeNext, PTL DEF Spec

-----------------------------------------------------------------------------
(* Spawn: of the requests at work whose lock was not taken from them, each  *)
(* holds that of its repository, and it alone; so those between their look  *)
(* at the rate and their stamp are of different repositories, but for the   *)
(* ones that were robbed, and the last of them to look was within the limit.*)

OneLock ==
  /\ \A q \in Requests \ robbed : Holding(q) => flow[q].repo \in inFlight
  /\ \A q, o \in Requests \ robbed :
       Holding(q) /\ Holding(o) /\ flow[q].repo = flow[o].repo => q = o

Losses == Cardinality(robbed) <= losses
Spawning == {q \in Requests : flow[q].at = "spawning"}
Counted == stamps + Cardinality(Spawning) <= RATE_MAX + Cardinality(Repos) - 1 + losses

RateInv == OneLock /\ Losses /\ Counted

\* The lock of r is released, by q if that is one; the others go on.
Stays(o) ==
  flow'[o].at = flow[o].at /\ flow'[o].repo = flow[o].repo /\ flow'[o].pane = flow[o].pane
Leaving(r, q) ==
  /\ Releases(r, q) /\ (\A o \in Requests \ {q} : Stays(o))
  /\ q \in Requests => flow'[q].at = "idle"

LEMMA DropsLeaves == ASSUME TypeOK, NEW q \in Requests, Drops(q) PROVE Leaving(flow[q].repo, q)
BY IdleTyped, BecomesTyped DEF Drops, Leaving, Stays

LEMMA ExpireLeaves == ASSUME TypeOK, NEW q \in Requests, Expire(q) PROVE Leaving(flow[q].repo, q)
<1>1. PICK ks \in SUBSET {k \in Requests \ {q} : flow[k].at = "card"} :
        flow' = [k \in Requests |-> IF k = q THEN Idle
                   ELSE IF k \in ks THEN [flow[k] EXCEPT !.due = @ + 1] ELSE flow[k]]
  BY DEF Expire
<1>2. ASSUME NEW o \in Requests \ {q} PROVE Stays(o)
  <2>1. flow[o] \in Flows
    BY FlowTyped
  <2> QED BY <1>1, <2>1 DEF Stays, Flows
<1>3. flow'[q].at = "idle"
  BY <1>1, IdleTyped
<1> QED BY <1>2, <1>3 DEF Expire, Leaving

LEMMA AnsweredLeaves == ASSUME NEW r, ExpireAnswered(r) PROVE Leaving(r, None)
BY SpawnAssumption DEF ExpireAnswered, Leaving, Stays

\* Performing: a request is let in, or leaves.
LEMMA PerformCases ==
  ASSUME TypeOK, NEW q \in Requests, NEW r \in Repos, NEW held, Perform(q, r, held)
  PROVE  \/ /\ RateAllows /\ Becomes(q, [Idle EXCEPT !.at = "spawning", !.repo = r])
            /\ inFlight' = held /\ UNCHANGED <<robbed, losses, stray>>
         \/ Leaving(r, q)
BY IdleTyped, BecomesTyped DEF Perform, Leaving, Stays

\* A request that holds no lock afterwards, or the one it held.
LEMMA GoesOn ==
  ASSUME TypeOK, OneLock, NEW q \in Requests, NEW k \in Flows, Becomes(q, k),
         k.at \in {"idle", "asked"} \/ (Holding(q) /\ k.repo = flow[q].repo),
         inFlight \subseteq inFlight', UNCHANGED robbed
  PROVE  OneLock'
BY BecomesTyped DEF OneLock, Holding

\* One that takes the lock of a repository, which nobody holds.
LEMMA TakesLock ==
  ASSUME TypeOK, OneLock, NEW q \in Requests, NEW k \in Flows, Becomes(q, k),
         k.repo \notin inFlight, inFlight' = inFlight \cup {k.repo}, UNCHANGED robbed
  PROVE  OneLock'
BY BecomesTyped DEF OneLock, Holding

\* A lock goes, by its name.
LEMMA LeavesLock ==
  ASSUME TypeOK, OneLock, NEW r, NEW q, Leaving(r, q)
  PROVE  OneLock'
<1>1. inFlight' = inFlight \ {r} /\ robbed' = (robbed \ {q}) \cup Robs(r, q)
  BY ReleasesTyped DEF Leaving
<1>2. ASSUME NEW o \in Requests \ robbed', Holding(o)'
      PROVE  /\ o \in Requests \ robbed /\ Holding(o) /\ flow[o].repo # r
             /\ flow'[o].repo = flow[o].repo
  <2>1. o # q
    BY <1>2 DEF Leaving, Holding
  <2>2. flow'[o].repo = flow[o].repo /\ Holding(o)
    BY <1>2, <2>1 DEF Leaving, Stays, Holding
  <2>3. o \notin robbed /\ o \notin Robs(r, q)
    BY <1>1, <2>1
  <2> QED BY <2>1, <2>2, <2>3 DEF Robs
<1> QED BY <1>1, <1>2 DEF OneLock

LEMMA UnionBound ==
  ASSUME NEW S, NEW T, IsFiniteSet(S), IsFiniteSet(T)
  PROVE  /\ IsFiniteSet(S \cup T) /\ Cardinality(S \cup T) \in Nat
         /\ Cardinality(S) \in Nat /\ Cardinality(T) \in Nat
         /\ Cardinality(S \cup T) <= Cardinality(S) + Cardinality(T)
<1>1. /\ IsFiniteSet(S \cup T)
      /\ Cardinality(S \cup T) = Cardinality(S) + Cardinality(T) - Cardinality(S \cap T)
  BY FS_Union
<1>2. IsFiniteSet(S \cap T)
  BY FS_Subset
<1>3. /\ Cardinality(S \cap T) \in Nat /\ Cardinality(S \cup T) \in Nat
      /\ Cardinality(S) \in Nat /\ Cardinality(T) \in Nat
  BY <1>1, <1>2, FS_CardinalityType
<1> QED BY <1>1, <1>3

LEMMA RobbedCounted ==
  ASSUME TypeOK, Losses, NEW r, NEW q, Releases(r, q)
  PROVE  Losses' /\ losses' >= losses
<1> DEFINE a == robbed  b == Robs(r, q) \ robbed
<1>1. /\ IsFiniteSet(b) /\ Cardinality(b) \in Nat /\ losses' = losses + Cardinality(b)
      /\ robbed' \subseteq a \cup b
  <2>1. robbed' = (robbed \ {q}) \cup Robs(r, q)
    BY ReleasesTyped
  <2>2. robbed' \subseteq a \cup b
    BY <2>1
  <2> QED BY <2>2, ReleasesTyped
<1>2. IsFiniteSet(a) /\ Cardinality(a) \in Nat /\ losses \in Nat
  BY SpawnAssumption, FS_Subset, FS_CardinalityType DEF TypeOK
<1>3. Cardinality(a) <= losses
  BY DEF Losses
<1> HIDE DEF a, b
<1>4. IsFiniteSet(a \cup b) /\ Cardinality(a \cup b) <= Cardinality(a) + Cardinality(b)
  BY <1>1, <1>2, UnionBound
<1>5. IsFiniteSet(robbed') /\ Cardinality(robbed') <= Cardinality(a \cup b)
  BY <1>1, <1>4, FS_Subset
<1>6. Cardinality(robbed') \in Nat /\ Cardinality(a \cup b) \in Nat
  BY <1>4, <1>5, FS_CardinalityType
<1> QED BY <1>1, <1>2, <1>3, <1>4, <1>5, <1>6 DEF Losses

LEMMA SpawningFinite ==
  /\ IsFiniteSet(Spawning) /\ Cardinality(Spawning) \in Nat /\ Cardinality(Repos) \in Nat
  /\ Spawning \subseteq Requests
<1>1. Spawning \subseteq Requests
  BY DEF Spawning
<1> QED BY <1>1, SpawnAssumption, FS_Subset, FS_CardinalityType

\* Nobody is let in to spawn, and no stamp is made.
LEMMA NoneLetIn ==
  ASSUME TypeOK, TypeOK', Counted, Spawning' \subseteq Spawning, stamps' <= stamps,
         losses' >= losses
  PROVE  Counted'
<1>1. IsFiniteSet(Spawning') /\ Cardinality(Spawning') <= Cardinality(Spawning)
  BY SpawningFinite, FS_Subset
<1>2. stamps \in Nat /\ stamps' \in Nat /\ losses \in Nat /\ losses' \in Nat
  BY DEF TypeOK
<1>3. Cardinality(Spawning') \in Nat
  BY <1>1, FS_CardinalityType
<1> QED BY <1>1, <1>2, <1>3, SpawningFinite, SpawnAssumption DEF Counted

LEMMA OneSpawning ==
  ASSUME TypeOK, NEW q \in Requests, NEW k \in Flows, Becomes(q, k),
         k.at = "spawning" => flow[q].at = "spawning"
  PROVE  Spawning' \subseteq Spawning
BY BecomesTyped DEF Spawning

\* A set of requests of different repositories is no larger than these are.
LEMMA OneForEach ==
  ASSUME NEW S, IsFiniteSet(S), NEW f \in [S -> Repos], \A x, y \in S : f[x] = f[y] => x = y
  PROVE  Cardinality(S) <= Cardinality(Repos)
<1>1. Cardinality(S) \in Nat /\ Cardinality(Repos) \in Nat
  BY SpawnAssumption, FS_CardinalityType
<1>2. CASE Cardinality(Repos) < Cardinality(S)
  BY <1>2, SpawnAssumption, FS_PigeonHole
<1> QED BY <1>1, <1>2

\* So many are between their look at the rate and their stamp.
LEMMA FewSpawning ==
  ASSUME TypeOK', OneLock', Losses'
  PROVE  /\ Cardinality(Spawning') \in Nat
         /\ Cardinality(Spawning') <= Cardinality(Repos) + losses'
<1> DEFINE S == Spawning'  R == robbed'
<1>1. S \subseteq Requests /\ R \subseteq Requests
  BY DEF Spawning, TypeOK
<1>2. /\ IsFiniteSet(S) /\ IsFiniteSet(R) /\ IsFiniteSet(S \ R)
      /\ Cardinality(S) \in Nat /\ Cardinality(R) \in Nat /\ Cardinality(S \ R) \in Nat
  <2>1. IsFiniteSet(S) /\ IsFiniteSet(R)
    BY <1>1, SpawnAssumption, FS_Subset
  <2>2. IsFiniteSet(S \ R)
    BY <2>1, FS_Subset
  <2> QED BY <2>1, <2>2, FS_CardinalityType
<1>3. Cardinality(S \ R) <= Cardinality(Repos)
  <2> DEFINE f == [o \in S \ R |-> flow'[o].repo]
  <2>1. \A o \in S \ R : flow'[o].repo \in Repos /\ Holding(o)' /\ o \in Requests \ robbed'
    BY DEF Spawning, TypeOK, Flows, Holding
  <2>2. f \in [S \ R -> Repos]
    BY <2>1
  <2>3. \A x, y \in S \ R : f[x] = f[y] => x = y
    BY <2>1 DEF OneLock
  <2> HIDE DEF f
  <2> QED BY <1>2, <2>2, <2>3, OneForEach
<1>4. Cardinality(R) <= losses' /\ losses' \in Nat
  BY DEF Losses, TypeOK
<1> HIDE DEF S, R
<1>5. Cardinality(S) <= Cardinality(S \ R) + Cardinality(R)
  <2>1. /\ IsFiniteSet((S \ R) \cup R) /\ Cardinality((S \ R) \cup R) \in Nat
        /\ Cardinality((S \ R) \cup R) <= Cardinality(S \ R) + Cardinality(R)
    BY <1>2, UnionBound
  <2>2. Cardinality(S) <= Cardinality((S \ R) \cup R)
    BY <2>1, FS_Subset
  <2> QED BY <1>2, <2>1, <2>2
<1>6. Cardinality(Repos) \in Nat
  BY SpawnAssumption, FS_CardinalityType
<1> QED BY <1>2, <1>3, <1>4, <1>5, <1>6 DEF S

\* A lock is released.
LEMMA LeavingRate ==
  ASSUME TypeOK, TypeOK', RateInv, NEW r, NEW q, Leaving(r, q), UNCHANGED stamps
  PROVE  RateInv'
<1>1. OneLock'
  BY LeavesLock DEF RateInv
<1>2. Losses' /\ losses' >= losses
  BY RobbedCounted DEF RateInv, Leaving
<1>3. Spawning' \subseteq Spawning /\ stamps' <= stamps
  <2>1. ASSUME NEW o \in Requests, flow'[o].at = "spawning" PROVE flow[o].at = "spawning"
    BY <2>1 DEF Leaving, Stays
  <2> QED BY <2>1 DEF Spawning, TypeOK
<1> QED BY <1>1, <1>2, <1>3, NoneLetIn DEF RateInv

\* Who may begin has found the rate below its limit.
LEMMA PerformInv ==
  ASSUME TypeOK, TypeOK', RateInv, NEW q \in Requests, NEW r \in Repos, NEW held,
         Perform(q, r, held), UNCHANGED stamps,
         \/ r \notin inFlight /\ held = inFlight \cup {r}
         \/ Holding(q) /\ flow[q].repo = r /\ held = inFlight
  PROVE  RateInv'
<1>1. CASE Leaving(r, q)
  BY <1>1, LeavingRate
<1>2. CASE /\ RateAllows /\ Becomes(q, [Idle EXCEPT !.at = "spawning", !.repo = r])
           /\ inFlight' = held /\ UNCHANGED <<robbed, losses, stray>>
  <2> DEFINE k == [Idle EXCEPT !.at = "spawning", !.repo = r]
  <2>1. k \in Flows /\ k.repo = r /\ Becomes(q, k)
    BY <1>2, SpawningTyped
  <2> HIDE DEF k
  <2>2. OneLock'
    BY <1>2, <2>1, GoesOn, TakesLock DEF RateInv
  <2>3. Losses' /\ losses' = losses /\ losses \in Nat
    BY <1>2 DEF RateInv, Losses, TypeOK
  <2>4. /\ Cardinality(Spawning') \in Nat
        /\ Cardinality(Spawning') <= Cardinality(Repos) + losses
    BY <2>2, <2>3, FewSpawning
  <2>5. stamps \in Nat /\ stamps' = stamps /\ stamps <= RATE_MAX - 1 /\ RATE_MAX \in Nat
    BY <1>2, SpawnAssumption DEF RateAllows, TypeOK
  <2>6. Counted'
    BY <2>3, <2>4, <2>5, SpawningFinite DEF Counted
  <2> QED BY <2>2, <2>3, <2>6 DEF RateInv
<1> QED BY <1>1, <1>2, PerformCases

\* A request that goes on without a look at the rate, or a stamp.
LEMMA GoesOnInv ==
  ASSUME TypeOK, TypeOK', RateInv, NEW q \in Requests, NEW k \in Flows, Becomes(q, k),
         k.at \in {"idle", "asked"} \/ (Holding(q) /\ k.repo = flow[q].repo),
         k.at = "spawning" => flow[q].at = "spawning",
         UNCHANGED <<locks, stamps>>
  PROVE  RateInv'
<1>1. OneLock'
  BY GoesOn DEF RateInv, locks
<1>2. Spawning' \subseteq Spawning /\ stamps' <= stamps /\ losses' >= losses
  BY OneSpawning DEF TypeOK, locks
<1>3. Losses'
  BY DEF RateInv, Losses, locks
<1> QED BY <1>1, <1>2, <1>3, NoneLetIn DEF RateInv

LEMMA RequestRate ==
  ASSUME TypeOK, TypeOK', RateInv, NEW q \in Requests, Begins(q) \/ Answers(q) \/ Proceeds(q)
  PROVE  RateInv'
<1>0. /\ flow[q] \in Flows
      /\ flow[q].at # "idle" => flow[q].repo \in Repos
      /\ flow[q].at \in {"ledger", "waiting"} => flow[q].pane \in Panes
  BY FlowTyped
<1>1. ASSUME NEW r \in Repos, DirectSpawn(q, r) PROVE RateInv'
  BY <1>1, PerformInv DEF DirectSpawn, Locked
<1>2. ASSUME NEW r \in Repos, PostConfirm(q, r) PROVE RateInv'
  <2> DEFINE k == [Idle EXCEPT !.at = "posting", !.repo = r]
  <2>1. k \in Flows /\ k.repo = r /\ k.at = "posting"
    BY SpawningTyped
  <2>2. /\ Becomes(q, k) /\ r \notin inFlight /\ inFlight' = inFlight \cup {r}
        /\ UNCHANGED <<stamps, robbed, losses>>
    BY <1>2 DEF PostConfirm, Locked
  <2> HIDE DEF k
  <2>3. OneLock'
    BY <2>1, <2>2, TakesLock DEF RateInv
  <2>4. Spawning' \subseteq Spawning /\ stamps' <= stamps /\ losses' >= losses
    BY <2>1, <2>2, OneSpawning DEF TypeOK
  <2>5. Losses'
    BY <2>2 DEF RateInv, Losses
  <2> QED BY <2>3, <2>4, <2>5, NoneLetIn DEF RateInv
<1>3. ASSUME NEW r \in Repos, AskRestore(q, r) PROVE RateInv'
  <2> DEFINE k == [Idle EXCEPT !.at = "asked", !.repo = r, !.entry = ledger[r].state]
  <2>1. ledger[r].state \in States
    BY DEF TypeOK
  <2>2. k \in Flows /\ k.at = "asked"
    BY <2>1, AskedTyped
  <2>3. Becomes(q, k) /\ UNCHANGED <<locks, stamps>>
    BY <1>3 DEF AskRestore
  <2> HIDE DEF k
  <2> QED BY <2>2, <2>3, GoesOnInv
<1>4. CASE Posted(q)
  <2>1. flow[q].at = "posting" /\ UNCHANGED stamps
    BY <1>4 DEF Posted, At
  <2> DEFINE k == [flow[q] EXCEPT !.at = "card"]
  <2>2. k \in Flows /\ k.at = "card" /\ k.repo = flow[q].repo
    BY <2>1, PhaseTyped
  <2>3. Drops(q) \/ (Becomes(q, k) /\ UNCHANGED locks)
    BY <1>4 DEF Posted
  <2> HIDE DEF k
  <2> QED BY <2>1, <2>2, <2>3, DropsLeaves, LeavingRate, GoesOnInv DEF Holding
<1>5. CASE Approve(q)
  BY <1>0, <1>5, PerformInv DEF Approve, At, Holding
<1>6. CASE Decline(q)
  BY <1>6, DropsLeaves, LeavingRate DEF Decline
<1>7. CASE Expire(q)
  <2>1. UNCHANGED stamps
    BY <1>7 DEF Expire
  <2> QED BY <1>7, <2>1, ExpireLeaves, LeavingRate
<1>8. CASE ExpireNext(q)
  BY <1>8, DropsLeaves, LeavingRate DEF ExpireNext
<1>9. CASE Restore(q)
  <2>1. flow[q].repo \in Repos /\ UNCHANGED stamps
    BY <1>0, <1>9 DEF Restore, At
  <2>2. CASE Becomes(q, Idle) /\ UNCHANGED locks
    BY <2>1, <2>2, IdleTyped, GoesOnInv
  <2>3. CASE ~Locked(flow[q].repo) /\ Perform(q, flow[q].repo, inFlight \cup {flow[q].repo})
    BY <2>1, <2>3, PerformInv DEF Locked
  <2> QED BY <1>9, <2>2, <2>3 DEF Restore
<1>10. ASSUME NEW p \in Panes, OpenWindow(q, p) PROVE RateInv'
  <2>1. flow[q].at = "spawning" /\ flow[q].repo \in Repos
    BY <1>0, <1>10 DEF OpenWindow, At
  <2> DEFINE k == [flow[q] EXCEPT !.pane = p]
  <2>2. k \in Flows /\ k.repo = flow[q].repo
    BY <1>0, <2>1 DEF Flows
  <2>3. Becomes(q, k) /\ UNCHANGED <<locks, stamps>>
    BY <1>10 DEF OpenWindow
  <2> HIDE DEF k
  <2> QED BY <2>1, <2>2, <2>3, GoesOnInv DEF Holding
<1>11. CASE Spawned(q)
  <2>1. flow[q].at = "spawning" /\ flow[q].pane \in Panes
    BY <1>11, FlowTyped DEF Spawned, At
  <2> DEFINE k == [flow[q] EXCEPT !.at = "ledger"]
  <2>2. k \in Flows /\ k.at = "ledger" /\ k.repo = flow[q].repo
    BY <2>1, PhaseTyped
  <2>3. Becomes(q, k) /\ stamps' = stamps + 1 /\ UNCHANGED locks
    BY <1>11 DEF Spawned
  <2> HIDE DEF k
  <2>4. OneLock' /\ Losses' /\ losses' = losses /\ losses \in Nat
    BY <2>1, <2>2, <2>3, GoesOn DEF Holding, RateInv, Losses, locks, TypeOK
  <2>5. Spawning' = Spawning \ {q} /\ q \in Spawning
    BY <2>1, <2>2, <2>3, BecomesTyped DEF Spawning
  <2>6. Cardinality(Spawning') = Cardinality(Spawning) - 1
    BY <2>5, SpawningFinite, FS_RemoveElement
  <2>7. stamps \in Nat
    BY DEF TypeOK
  <2> QED BY <2>3, <2>4, <2>6, <2>7, SpawningFinite, SpawnAssumption DEF RateInv, Counted
<1>12. CASE SpawnFails(q)
  BY <1>12, DropsLeaves, LeavingRate DEF SpawnFails
<1>13. CASE Record(q)
  <2>1. flow[q].at = "ledger" /\ flow[q].pane \in Panes
    BY <1>0, <1>13 DEF Record, At
  <2> DEFINE k == [flow[q] EXCEPT !.at = "waiting"]
  <2>2. k \in Flows /\ k.at = "waiting" /\ k.repo = flow[q].repo
    BY <2>1, PhaseTyped
  <2>3. Becomes(q, k) /\ UNCHANGED <<locks, stamps>>
    BY <1>13 DEF Record
  <2> HIDE DEF k
  <2> QED BY <2>1, <2>2, <2>3, GoesOnInv DEF Holding
<1>14. CASE AwaitRegistration(q)
  BY <1>14, DropsLeaves, LeavingRate DEF AwaitRegistration
<1> QED BY <1>1, <1>2, <1>3, <1>4, <1>5, <1>6, <1>7, <1>8, <1>9, <1>10, <1>11, <1>12, <1>13, <1>14
        DEF Begins, Answers, Proceeds

\* No other step touches a request or its lock, but for the sweep of the cards and
\* the bridge's own end.
LEMMA OthersRate ==
  ASSUME TypeOK, RateInv, UNCHANGED <<flow, locks, stamps>>
  PROVE  RateInv'
BY DEF RateInv, OneLock, Losses, Holding, Counted, Spawning, locks

LEMMA BridgeRate == ASSUME TypeOK, TypeOK', RateInv, Bridge PROVE RateInv'
<1>1. CASE BridgeStops
  <2>1. \A q \in Requests : flow'[q].at = "idle"
    BY <1>1 DEF BridgeStops, Idle
  <2>2. OneLock'
    BY <2>1 DEF OneLock, Holding
  <2>3. Spawning' = {} /\ robbed' = {} /\ losses' = 0 /\ stamps' = 0
    BY <1>1, <2>1 DEF Spawning, BridgeStops
  <2>4. Cardinality({}) = 0
    BY FS_EmptySet
  <2>5. Losses'
    BY <2>3, <2>4 DEF Losses
  <2>6. Counted'
    BY <2>3, <2>4, SpawningFinite, SpawnAssumption DEF Counted
  <2> QED BY <2>2, <2>5, <2>6 DEF RateInv
<1>2. CASE BridgeStarts
  BY <1>2, OthersRate DEF BridgeStarts
<1>3. CASE SeedLocks
  BY <1>3 DEF SeedLocks, RateInv, OneLock, Losses, Holding, Counted, Spawning
<1>4. CASE Ages
  <2>1. UNCHANGED <<flow, locks>> /\ stamps' <= stamps
    BY <1>4 DEF Ages, TypeOK
  <2>2. OneLock' /\ Losses' /\ Spawning' \subseteq Spawning /\ losses' >= losses
    BY <2>1 DEF RateInv, OneLock, Losses, Holding, Spawning, locks, TypeOK
  <2> QED BY <2>1, <2>2, NoneLetIn DEF RateInv
<1>5. ASSUME NEW r \in Repos, ExpireAnswered(r) PROVE RateInv'
  <2>1. UNCHANGED stamps
    BY <1>5 DEF ExpireAnswered
  <2> QED BY <1>5, <2>1, AnsweredLeaves, LeavingRate
<1> QED BY <1>1, <1>2, <1>3, <1>4, <1>5 DEF Bridge

LEMMA RateInit == Init => RateInv
<1> SUFFICES ASSUME Init PROVE RateInv
  OBVIOUS
<1>1. \A q \in Requests : flow[q].at = "idle"
  BY DEF Init, Idle
<1>2. Spawning = {} /\ robbed = {} /\ losses = 0 /\ stamps = 0
  BY <1>1 DEF Spawning, Init
<1>3. Cardinality(Repos) \in Nat /\ Cardinality({}) = 0
  BY SpawnAssumption, FS_CardinalityType, FS_EmptySet
<1>4. Counted /\ Losses
  BY <1>2, <1>3, SpawnAssumption DEF Counted, Losses
<1> QED BY <1>1, <1>4 DEF RateInv, OneLock, Holding

LEMMA RateNext == TypeOK /\ TypeOK' /\ RateInv /\ [Next]_vars => RateInv'
<1> SUFFICES ASSUME TypeOK, TypeOK', RateInv, [Next]_vars PROVE RateInv'
  OBVIOUS
<1> USE DEF bridge
<1>1. ASSUME NEW p \in Panes, Agent(p) PROVE UNCHANGED bridge
  BY <1>1 DEF Agent, Registers, Ends, CloseFinds, CloseDeregisters, CloseAgent
<1>2. CASE HerdrRestarts \/ Pruning
  <2>1. UNCHANGED bridge
    BY <1>2 DEF HerdrRestarts, Pruning, PruneLists, PruneReads, PruneEntry, PruneEnds
  <2> QED BY <2>1, OthersRate
<1>3. CASE Reaper
  <2>1. UNCHANGED bridge
    BY <1>3 DEF Reaper, ReapJudges, ReapKill, ReapFails, ReapDeregister, ReapMark
  <2> QED BY <2>1, OthersRate
<1>4. CASE Recover
  <2>1. UNCHANGED bridge
    BY <1>4 DEF Recover, RecoverStarts, RecoverRecords, RecoverEnds, RecoverPasses, RecoverFinds,
                Respawn, RespawnFails
  <2> QED BY <2>1, OthersRate
<1>5. CASE UNCHANGED vars
  BY <1>5, OthersRate DEF vars
<1> QED BY <1>1, <1>2, <1>3, <1>4, <1>5, OthersRate, RequestRate, BridgeRate DEF Next

\* However many approvals pass the look at the rate before the first of them is
\* stamped, and whatever locks the sweep of old cards releases under a spawn, a
\* window counts no more spawns than the limit allows, one for each repository but
\* the last, and one for each lock so lost (orchestrator.js 145-149, index.js
\* 853-879, 963-972).
THEOREM RateIsKept == Spec => []RateKept
<1>1. TypeOK /\ RateInv => RateKept
  BY SpawningFinite, SpawnAssumption DEF RateInv, Counted, RateKept, TypeOK
<1> QED BY <1>1, RateInit, RateNext, SpawnTypes, PTL DEF Spec

-----------------------------------------------------------------------------
(* Spawn: an agent that is no stray is registered, or boots for a request   *)
(* that waits for it and still has its lock; so who takes a lock finds none *)
(* of that repository, and while the lock is held nobody else opens one     *)
(* that is no stray.                                                        *)

Settled == {p \in Panes : agent[p] # None /\ p \notin stray}
Opening(q) == flow[q].at \in {"spawning", "ledger", "waiting"}
WaitsFor(q, p) == Opening(q) /\ flow[q].pane = p /\ flow[q].repo = agent[p]

Booted == \A p \in booting : agent[p] # None
Known == \A p \in Settled :
  IF p \in booting THEN \E q \in Requests \ robbed : WaitsFor(q, p) ELSE registry[p] = agent[p]
Alone == \A q \in Requests \ robbed : Holding(q) =>
  \A p \in Settled : agent[p] = flow[q].repo => WaitsFor(q, p)
NoTwo == \A p, s \in Settled : agent[p] = agent[s] => p = s

WindowInv == Booted /\ Known /\ Alone /\ NoTwo

\* Nobody new is settled, and of those who are nobody's registration is undone.
LEMMA FewerSettled ==
  ASSUME TypeOK, WindowInv, UNCHANGED <<flow, robbed>>, Booted',
         \A p \in Settled' :
           /\ p \in Settled /\ agent'[p] = agent[p]
           /\ p \in booting' => p \in booting
           /\ p \notin booting' =>
                registry'[p] = agent[p] \/ (p \notin booting /\ registry'[p] = registry[p])
  PROVE  WindowInv'
<1>1. Known'
  <2> SUFFICES ASSUME NEW p \in Settled'
               PROVE  IF p \in booting' THEN \E q \in Requests \ robbed' : WaitsFor(q, p)'
                      ELSE registry'[p] = agent'[p]
    BY DEF Known
  <2>1. p \in Settled /\ agent'[p] = agent[p]
    OBVIOUS
  <2>2. IF p \in booting THEN \E q \in Requests \ robbed : WaitsFor(q, p)
        ELSE registry[p] = agent[p]
    BY <2>1 DEF WindowInv, Known
  <2>3. CASE p \in booting'
    <3>1. PICK q \in Requests \ robbed : WaitsFor(q, p)
      BY <2>2, <2>3
    <3>2. WaitsFor(q, p)'
      BY <2>1, <3>1 DEF WaitsFor, Opening
    <3> QED BY <2>3, <3>2
  <2>4. CASE p \notin booting'
    BY <2>1, <2>2, <2>4
  <2> QED BY <2>3, <2>4
<1>2. Alone'
  <2> SUFFICES ASSUME NEW q \in Requests \ robbed', Holding(q)', NEW p \in Settled',
                      agent'[p] = flow'[q].repo
               PROVE  WaitsFor(q, p)'
    BY DEF Alone
  <2>1. p \in Settled /\ agent'[p] = agent[p]
    OBVIOUS
  <2> QED BY <2>1 DEF WindowInv, Alone, WaitsFor, Opening, Holding
<1>3. NoTwo'
  BY DEF WindowInv, NoTwo
<1> QED BY <1>1, <1>2, <1>3 DEF WindowInv

LEMMA GoneWindow ==
  ASSUME TypeOK, WindowInv, UNCHANGED <<flow, robbed, registry>>, NEW ps \in SUBSET Panes, NEW how,
         Gone(ps, how)
  PROVE  WindowInv'
<1>1. agent' = [p \in Panes |-> IF p \in ps THEN None ELSE agent[p]]
  BY DEF Gone
<1>2. booting' = booting \ ps /\ stray' = stray \ ps
  BY DEF Gone
<1>3. \A p \in Settled' : p \notin ps /\ p \in Settled /\ agent'[p] = agent[p] /\ p \in Panes
  BY <1>1, <1>2 DEF Settled
<1>4. Booted'
  BY <1>1, <1>2 DEF WindowInv, Booted, TypeOK
<1>5. \A p \in Settled' :
        /\ p \in Settled /\ agent'[p] = agent[p]
        /\ p \in booting' => p \in booting
        /\ p \notin booting' =>
             registry'[p] = agent[p] \/ (p \notin booting /\ registry'[p] = registry[p])
  BY <1>2, <1>3
<1> QED BY <1>4, <1>5, FewerSettled

\* An entry that goes while an agent is in its pane leaves a stray behind, or one
\* that is yet to register.
LEMMA ForgottenWindow ==
  ASSUME TypeOK, WindowInv, UNCHANGED <<flow, robbed, agent, booting>>, NEW p \in Panes,
         Deregister(p), Forgotten(p)
  PROVE  WindowInv'
<1>1. \A s \in Panes : s # p => registry'[s] = registry[s]
  BY DEF Deregister, TypeOK
<1>2. \A s \in Settled' : (s # p \/ s \in booting) /\ s \in Settled /\ s \in Panes
  BY DEF Forgotten, Settled
<1>3. Booted'
  BY DEF WindowInv, Booted
<1>4. \A s \in Settled' :
        /\ s \in Settled /\ agent'[s] = agent[s]
        /\ s \in booting' => s \in booting
        /\ s \notin booting' =>
             registry'[s] = agent[s] \/ (s \notin booting /\ registry'[s] = registry[s])
  BY <1>1, <1>2
<1> QED BY <1>3, <1>4, FewerSettled

LEMMA SameWindow ==
  ASSUME TypeOK, WindowInv, UNCHANGED <<flow, robbed, agent, booting, registry, stray>>
  PROVE  WindowInv'
BY DEF WindowInv, Booted, Known, Alone, NoTwo, Settled, WaitsFor, Opening, Holding

LEMMA AgentWindow == ASSUME TypeOK, WindowInv, NEW p \in Panes, Agent(p) PROVE WindowInv'
<1> USE DEF bridge, locks, panes, past
<1>1. CASE Registers(p)
  <2>1. /\ p \in booting /\ booting' = booting \ {p} /\ registry' = [registry EXCEPT ![p] = agent[p]]
        /\ UNCHANGED <<agent, flow, robbed, stray>>
    BY <1>1 DEF Registers
  <2>2. \A s \in Settled' :
          /\ s \in Settled /\ agent'[s] = agent[s]
          /\ s \in booting' => s \in booting
          /\ s \notin booting' =>
               registry'[s] = agent[s] \/ (s \notin booting /\ registry'[s] = registry[s])
    BY <2>1 DEF Settled, TypeOK
  <2>3. Booted'
    BY <2>1 DEF WindowInv, Booted
  <2> QED BY <2>1, <2>2, <2>3, FewerSettled
<1>2. CASE Ends(p)
  BY <1>2, GoneWindow DEF Ends
<1>3. CASE CloseFinds(p)
  BY <1>3, SameWindow DEF CloseFinds
<1>4. CASE CloseDeregisters(p)
  BY <1>4, SameWindow, ForgottenWindow DEF CloseDeregisters
<1>5. CASE CloseAgent(p)
  BY <1>5, SameWindow, GoneWindow DEF CloseAgent
<1> QED BY <1>1, <1>2, <1>3, <1>4, <1>5 DEF Agent

LEMMA PruningWindow == ASSUME TypeOK, WindowInv, Pruning PROVE WindowInv'
<1> USE DEF bridge, locks, panes, past
<1>1. ASSUME NEW p \in Panes, PruneEntry(p) PROVE WindowInv'
  BY <1>1, SameWindow, ForgottenWindow DEF PruneEntry
<1>2. CASE PruneLists \/ PruneReads \/ PruneEnds
  BY <1>2, SameWindow DEF PruneLists, PruneReads, PruneEnds
<1> QED BY <1>1, <1>2 DEF Pruning

LEMMA ReaperWindow == ASSUME TypeOK, WindowInv, Reaper PROVE WindowInv'
<1> USE DEF bridge, locks, panes, past
<1>1. ASSUME NEW p \in Panes, ReapJudges(p) PROVE WindowInv'
  BY <1>1, SameWindow DEF ReapJudges
<1>2. CASE ReapKill
  <2>1. {reaper.pane} \in SUBSET Panes
    BY <1>2, AtWork DEF ReapKill
  <2> QED BY <1>2, <2>1, GoneWindow DEF ReapKill
<1>3. CASE ReapDeregister
  <2>1. reaper.pane \in Panes
    BY <1>3, AtWork DEF ReapDeregister
  <2> QED BY <1>3, <2>1, ForgottenWindow DEF ReapDeregister
<1>4. CASE ReapFails \/ ReapMark
  BY <1>4, SameWindow DEF ReapFails, ReapMark
<1> QED BY <1>1, <1>2, <1>3, <1>4 DEF Reaper

LEMMA RecoverWindow == ASSUME TypeOK, WindowInv, Recover PROVE WindowInv'
<1> USE DEF bridge, locks, panes, past
<1>1. CASE RecoverStarts \/ RecoverEnds \/ RespawnFails
  BY <1>1, SameWindow DEF RecoverStarts, RecoverEnds, RespawnFails
<1>2. CASE RecoverRecords
  <2>1. recover.pane \in Panes
    BY <1>2 DEF RecoverRecords, TypeOK
  <2> QED BY <1>2, <2>1, ForgottenWindow DEF RecoverRecords
<1>3. ASSUME NEW p \in Panes, RecoverPasses(p) \/ RecoverFinds(p) PROVE WindowInv'
  BY <1>3, SameWindow DEF RecoverPasses, RecoverFinds
<1>4. ASSUME NEW s \in Panes, Respawn(s) PROVE WindowInv'
  <2>1. /\ agent[s] = None /\ agent' = [agent EXCEPT ![s] = recover.repo]
        /\ booting' = booting \cup {s} /\ stray' = stray \cup {s}
        /\ UNCHANGED <<registry, flow, robbed>>
    BY <1>4 DEF Respawn, Opened, Free
  <2>2. recover.repo # None
    BY <1>4, SpawnAssumption DEF Respawn, TypeOK
  <2>3. \A x \in Settled' :
          /\ x \in Settled /\ agent'[x] = agent[x]
          /\ x \in booting' => x \in booting
          /\ x \notin booting' =>
               registry'[x] = agent[x] \/ (x \notin booting /\ registry'[x] = registry[x])
    BY <2>1 DEF Settled, TypeOK
  <2>4. Booted'
    BY <2>1, <2>2 DEF WindowInv, Booted, TypeOK
  <2> QED BY <2>1, <2>3, <2>4, FewerSettled
<1> QED BY <1>1, <1>2, <1>3, <1>4 DEF Recover

\* A request that finds no lock and nobody listed finds no agent but strays.
LEMMA NobodyThere ==
  ASSUME TypeOK, OneLock, WindowInv, NEW r \in Repos, ~Locked(r)
  PROVE  \A p \in Settled : agent[p] # r
<1> SUFFICES ASSUME NEW p \in Settled, agent[p] = r PROVE FALSE
  OBVIOUS
<1>1. CASE p \in booting
  <2>1. PICK q \in Requests \ robbed : WaitsFor(q, p)
    BY <1>1 DEF WindowInv, Known
  <2> QED BY <2>1 DEF WaitsFor, Opening, Holding, OneLock, Locked
<1>2. CASE p \notin booting
  <2>1. registry[p] = r
    BY <1>2 DEF WindowInv, Known
  <2>2. r \in Listed
    BY <2>1, SpawnAssumption DEF Listed, Settled
  <2> QED BY <2>2 DEF Locked
<1> QED BY <1>1, <1>2

\* Requests change and no window is opened: those that boot for one still do, or
\* are strays now; and who has a lock waits for all there are of its repository.
LEMMA RequestsGoOn ==
  ASSUME TypeOK, WindowInv, UNCHANGED <<agent, booting, registry>>, stray \subseteq stray',
         \A o \in Requests \ robbed : \A p \in booting :
           WaitsFor(o, p) => (o \notin robbed' /\ WaitsFor(o, p)') \/ p \in stray',
         \A o \in Requests \ robbed' : \A p \in Settled :
           Holding(o)' /\ agent[p] = flow'[o].repo => WaitsFor(o, p)'
  PROVE  WindowInv'
<1>1. \A p \in Settled' : p \in Settled /\ p \notin stray'
  BY DEF Settled
<1>2. Known'
  <2> SUFFICES ASSUME NEW p \in Settled'
               PROVE  IF p \in booting' THEN \E o \in Requests \ robbed' : WaitsFor(o, p)'
                      ELSE registry'[p] = agent'[p]
    BY DEF Known
  <2>0. p \in Settled /\ p \notin stray'
    BY <1>1
  <2>1. CASE p \in booting
    <3>1. PICK o \in Requests \ robbed : WaitsFor(o, p)
      BY <2>0, <2>1 DEF WindowInv, Known
    <3>2. o \notin robbed' /\ WaitsFor(o, p)'
      BY <2>0, <2>1, <3>1
    <3> QED BY <2>1, <3>2
  <2>2. CASE p \notin booting
    BY <2>0, <2>2 DEF WindowInv, Known
  <2> QED BY <2>1, <2>2
<1>3. Alone'
  <2> SUFFICES ASSUME NEW o \in Requests \ robbed', Holding(o)', NEW p \in Settled',
                      agent'[p] = flow'[o].repo
               PROVE  WaitsFor(o, p)'
    BY DEF Alone
  <2> QED BY <1>1
<1>4. NoTwo' /\ Booted'
  BY <1>1 DEF WindowInv, NoTwo, Booted
<1> QED BY <1>2, <1>3, <1>4 DEF WindowInv

\* A lock is released: what boots for who had it, and was not told, is a stray.
LEMMA LeavingWindow ==
  ASSUME TypeOK, WindowInv, NEW r, NEW q, Leaving(r, q), UNCHANGED <<agent, booting, registry>>
  PROVE  WindowInv'
<1>1. robbed' = (robbed \ {q}) \cup Robs(r, q) /\ stray \subseteq stray'
  BY ReleasesTyped DEF Leaving
<1>2. \A o \in Requests \ {q} : \A p \in Panes : WaitsFor(o, p)' <=> WaitsFor(o, p)
  BY DEF Leaving, Stays, WaitsFor, Opening
<1>3. ASSUME NEW o \in Requests \ robbed, NEW p \in booting, WaitsFor(o, p)
      PROVE  (o \notin robbed' /\ WaitsFor(o, p)') \/ p \in stray'
  <2>1. CASE o = q \/ o \in Robs(r, q)
    BY <1>3, <2>1 DEF Leaving, Releases, BootsFor, Robs, WaitsFor
  <2>2. CASE o # q /\ o \notin Robs(r, q)
    BY <1>1, <1>2, <1>3, <2>2 DEF TypeOK
  <2> QED BY <2>1, <2>2
<1>4. ASSUME NEW o \in Requests \ robbed', NEW p \in Settled, Holding(o)', agent[p] = flow'[o].repo
      PROVE  WaitsFor(o, p)'
  <2>1. o # q
    BY <1>4 DEF Leaving, Holding
  <2>2. o \in Requests \ robbed /\ Holding(o) /\ agent[p] = flow[o].repo
    BY <1>1, <1>4, <2>1 DEF Leaving, Stays, Holding
  <2>3. WaitsFor(o, p) /\ p \in Panes
    BY <2>2 DEF WindowInv, Alone, Settled
  <2> QED BY <1>2, <2>1, <2>3
<1> QED BY <1>1, <1>3, <1>4, RequestsGoOn

\* A request becomes k, with the lock it had: of those there are of its repository
\* it waits for all.
LEMMA RequestGoesOn ==
  ASSUME TypeOK, WindowInv, NEW q \in Requests, NEW k \in Flows, Becomes(q, k),
         UNCHANGED <<agent, booting, registry, robbed, stray>>,
         \A p \in Panes : WaitsFor(q, p) => WaitsFor(q, p)',
         k.at \notin {"idle", "asked"} /\ q \notin robbed =>
           \A p \in Settled : agent[p] = k.repo => WaitsFor(q, p)'
  PROVE  WindowInv'
<1>1. flow'[q] = k /\ \A o \in Requests \ {q} : flow'[o] = flow[o]
  BY BecomesTyped
<1>2. \A o \in Requests \ {q} : \A p \in Panes : WaitsFor(o, p)' <=> WaitsFor(o, p)
  BY <1>1 DEF WaitsFor, Opening
<1>3. ASSUME NEW o \in Requests \ robbed, NEW p \in booting, WaitsFor(o, p)
      PROVE  o \notin robbed' /\ WaitsFor(o, p)'
  BY <1>2, <1>3 DEF TypeOK
<1>4. ASSUME NEW o \in Requests \ robbed', NEW p \in Settled, Holding(o)', agent[p] = flow'[o].repo
      PROVE  WaitsFor(o, p)'
  <2>1. CASE o = q
    <3>1. k.at \notin {"idle", "asked"} /\ agent[p] = k.repo /\ q \notin robbed
      BY <1>1, <1>4, <2>1 DEF Holding
    <3> QED BY <2>1, <3>1
  <2>2. CASE o # q
    <3>1. Holding(o) /\ agent[p] = flow[o].repo /\ o \in Requests \ robbed
      BY <1>1, <1>4, <2>2 DEF Holding
    <3>2. WaitsFor(o, p) /\ p \in Panes
      BY <3>1 DEF WindowInv, Alone, Settled
    <3> QED BY <1>2, <2>2, <3>2
  <2> QED BY <2>1, <2>2
<1> QED BY <1>3, <1>4, RequestsGoOn

\* Such a request that waits for no pane, before and after.
LEMMA RequestEnters ==
  ASSUME TypeOK, WindowInv, NEW q \in Requests, NEW k \in Flows, Becomes(q, k),
         UNCHANGED <<agent, booting, registry, robbed, stray>>, ~Opening(q),
         k.at \notin {"idle", "asked"} /\ q \notin robbed => \A p \in Settled : agent[p] # k.repo
  PROVE  WindowInv'
BY RequestGoesOn DEF WaitsFor

\* Performing, with nobody there, or without a lock.
LEMMA PerformWindow ==
  ASSUME TypeOK, WindowInv, NEW q \in Requests, NEW r \in Repos, NEW held, Perform(q, r, held),
         UNCHANGED <<agent, booting, registry>>, ~Opening(q),
         q \notin robbed => \A p \in Settled : agent[p] # r
  PROVE  WindowInv'
<1>1. CASE Leaving(r, q)
  BY <1>1, LeavingWindow
<1>2. CASE /\ RateAllows /\ Becomes(q, [Idle EXCEPT !.at = "spawning", !.repo = r])
           /\ inFlight' = held /\ UNCHANGED <<robbed, losses, stray>>
  <2> DEFINE k == [Idle EXCEPT !.at = "spawning", !.repo = r]
  <2>1. k \in Flows /\ k.repo = r /\ Becomes(q, k)
    BY <1>2, SpawningTyped
  <2> HIDE DEF k
  <2> QED BY <1>2, <2>1, RequestEnters
<1> QED BY <1>1, <1>2, PerformCases

\* A window is opened, for the request that has the lock or as a stray.
LEMMA OpenWindowWindow ==
  ASSUME TypeOK, OneLock, WindowInv, NEW q \in Requests, NEW p \in Panes, OpenWindow(q, p)
  PROVE  WindowInv'
<1> DEFINE r == flow[q].repo
<1>1. /\ flow[q].at = "spawning" /\ r \in Repos /\ flow[q].pane = None
      /\ agent[p] = None /\ agent' = [agent EXCEPT ![p] = r] /\ booting' = booting \cup {p}
      /\ UNCHANGED <<registry, robbed>> /\ stray' = IF q \in robbed THEN stray \cup {p} ELSE stray
  BY FlowTyped DEF OpenWindow, At, Opened, Free, locks
<1>2. /\ flow'[q].at = "spawning" /\ flow'[q].pane = p /\ flow'[q].repo = r
      /\ \A o \in Requests \ {q} : flow'[o] = flow[o]
  <2> DEFINE k == [flow[q] EXCEPT !.pane = p]
  <2>1. k \in Flows /\ k.at = flow[q].at /\ k.pane = p /\ k.repo = r
    BY <1>1, FlowTyped DEF Flows
  <2>2. Becomes(q, k)
    BY DEF OpenWindow
  <2> HIDE DEF k
  <2> QED BY <1>1, <2>1, <2>2, BecomesTyped
<1>3. agent'[p] = r /\ \A s \in Panes \ {p} : agent'[s] = agent[s]
  BY <1>1 DEF TypeOK
<1>4. p \notin Settled /\ Settled \subseteq Panes
  BY <1>1 DEF Settled
<1>5. \A s \in Settled' : (s = p /\ q \notin robbed) \/ (s \in Settled /\ s # p)
  BY <1>1, <1>3 DEF Settled
<1>6. q \notin robbed => \A s \in Settled : agent[s] # r
  BY <1>1, SpawnAssumption DEF WindowInv, Alone, WaitsFor, Holding, Settled
<1>7. WaitsFor(q, p)'
  BY <1>2, <1>3 DEF WaitsFor, Opening
<1>8. \A o \in Requests, s \in Settled : WaitsFor(o, s) => o # q /\ WaitsFor(o, s)'
  <2> SUFFICES ASSUME NEW o \in Requests, NEW s \in Settled, WaitsFor(o, s)
               PROVE  o # q /\ WaitsFor(o, s)'
    OBVIOUS
  <2>1. s # p /\ s \in Panes /\ s # None
    BY <1>4, SpawnAssumption
  <2>2. o # q
    BY <1>1, <2>1 DEF WaitsFor
  <2> QED BY <1>2, <1>3, <2>1, <2>2 DEF WaitsFor, Opening
<1> HIDE DEF r
<1>9. Known'
  <2> SUFFICES ASSUME NEW s \in Settled'
               PROVE  IF s \in booting' THEN \E o \in Requests \ robbed' : WaitsFor(o, s)'
                      ELSE registry'[s] = agent'[s]
    BY DEF Known
  <2>1. CASE s = p
    BY <1>1, <1>4, <1>5, <1>7, <2>1
  <2>2. CASE s \in Settled /\ s # p
    <3>1. IF s \in booting THEN \E o \in Requests \ robbed : WaitsFor(o, s)
          ELSE registry[s] = agent[s]
      BY <2>2 DEF WindowInv, Known
    <3>2. (s \in booting' <=> s \in booting) /\ registry'[s] = registry[s] /\ agent'[s] = agent[s]
      BY <1>1, <1>3, <1>4, <2>2
    <3> QED BY <1>1, <1>8, <2>2, <3>1, <3>2
  <2> QED BY <1>5, <2>1, <2>2
<1>10. Alone'
  <2> SUFFICES ASSUME NEW o \in Requests \ robbed', Holding(o)', NEW s \in Settled',
                      agent'[s] = flow'[o].repo
               PROVE  WaitsFor(o, s)'
    BY DEF Alone
  <2>1. CASE s = p
    <3>1. flow'[o].repo = r /\ q \notin robbed /\ o \notin robbed
      BY <1>1, <1>3, <1>4, <1>5, <2>1
    <3>2. o = q
      <4> SUFFICES ASSUME o # q PROVE FALSE
        OBVIOUS
      <4>1. flow[o].repo = r /\ Holding(o)
        BY <1>2, <3>1 DEF Holding
      <4> QED BY <1>1, <3>1, <4>1 DEF OneLock, Holding, r
    <3> QED BY <1>7, <2>1, <3>2
  <2>2. CASE s \in Settled /\ s # p
    <3>1. agent'[s] = agent[s] /\ o \notin robbed
      BY <1>1, <1>3, <1>4, <2>2
    <3>2. o # q
      BY <1>2, <1>6, <2>2, <3>1
    <3>3. Holding(o) /\ agent[s] = flow[o].repo
      BY <1>2, <3>1, <3>2 DEF Holding
    <3>4. WaitsFor(o, s)
      BY <2>2, <3>1, <3>3 DEF WindowInv, Alone
    <3> QED BY <1>8, <2>2, <3>4
  <2> QED BY <1>5, <2>1, <2>2
<1>11. NoTwo'
  BY <1>3, <1>4, <1>5, <1>6 DEF WindowInv, NoTwo
<1>12. Booted'
  BY <1>1, <1>3, SpawnAssumption DEF WindowInv, Booted, TypeOK
<1> QED BY <1>9, <1>10, <1>11, <1>12 DEF WindowInv

LEMMA RequestWindow ==
  ASSUME TypeOK, OneLock, WindowInv, NEW q \in Requests, Begins(q) \/ Answers(q) \/ Proceeds(q)
  PROVE  WindowInv'
<1> USE DEF panes, locks, past
<1>0. /\ flow[q].at # "idle" => flow[q].repo \in Repos
      /\ flow[q].at \in {"ledger", "waiting"} => flow[q].pane \in Panes
      /\ Holding(q) /\ q \notin robbed =>
           \A p \in Settled : agent[p] = flow[q].repo => WaitsFor(q, p)
  BY FlowTyped DEF WindowInv, Alone
<1>1. ASSUME NEW r \in Repos, DirectSpawn(q, r) PROVE WindowInv'
  BY <1>1, NobodyThere, PerformWindow DEF DirectSpawn, Asks, At, Opening
<1>2. ASSUME NEW r \in Repos, PostConfirm(q, r) PROVE WindowInv'
  <2> DEFINE k == [Idle EXCEPT !.at = "posting", !.repo = r]
  <2>1. k \in Flows /\ k.repo = r
    BY SpawningTyped
  <2>2. /\ Becomes(q, k) /\ ~Locked(r) /\ ~Opening(q)
        /\ UNCHANGED <<agent, booting, registry, robbed, stray>>
    BY <1>2 DEF PostConfirm, Asks, At, Opening
  <2> HIDE DEF k
  <2> QED BY <2>1, <2>2, NobodyThere, RequestEnters
<1>3. ASSUME NEW r \in Repos, AskRestore(q, r) PROVE WindowInv'
  <2> DEFINE k == [Idle EXCEPT !.at = "asked", !.repo = r, !.entry = ledger[r].state]
  <2>1. ledger[r].state \in States
    BY DEF TypeOK
  <2>2. k \in Flows /\ k.at = "asked"
    BY <2>1, AskedTyped
  <2>3. Becomes(q, k) /\ ~Opening(q) /\ UNCHANGED <<agent, booting, registry, robbed, stray>>
    BY <1>3 DEF AskRestore, Asks, At, Opening
  <2> HIDE DEF k
  <2> QED BY <2>2, <2>3, RequestEnters
<1>4. CASE Posted(q)
  <2>1. /\ flow[q].at = "posting" /\ ~Opening(q) /\ Holding(q)
        /\ UNCHANGED <<agent, booting, registry>>
    BY <1>4 DEF Posted, At, Opening, Holding
  <2> DEFINE k == [flow[q] EXCEPT !.at = "card"]
  <2>2. k \in Flows /\ k.repo = flow[q].repo
    BY <2>1, PhaseTyped
  <2>3. Drops(q) \/ (Becomes(q, k) /\ UNCHANGED <<robbed, stray>>)
    BY <1>4 DEF Posted
  <2>4. q \notin robbed => \A p \in Settled : agent[p] # flow[q].repo
    BY <1>0, <2>1 DEF WaitsFor
  <2> HIDE DEF k
  <2> QED BY <2>1, <2>2, <2>3, <2>4, DropsLeaves, LeavingWindow, RequestEnters
<1>5. CASE Approve(q)
  <2>1. /\ ~Opening(q) /\ Holding(q) /\ flow[q].repo \in Repos
        /\ Perform(q, flow[q].repo, inFlight) /\ UNCHANGED <<agent, booting, registry>>
    BY <1>0, <1>5 DEF Approve, At, Opening, Holding
  <2>2. q \notin robbed => \A p \in Settled : agent[p] # flow[q].repo
    BY <1>0, <2>1 DEF WaitsFor
  <2> QED BY <2>1, <2>2, PerformWindow
<1>6. CASE Decline(q) \/ ExpireNext(q) \/ SpawnFails(q) \/ AwaitRegistration(q)
  <2>1. Drops(q) /\ UNCHANGED <<agent, booting, registry>>
    BY <1>6 DEF Decline, ExpireNext, SpawnFails, AwaitRegistration
  <2> QED BY <2>1, DropsLeaves, LeavingWindow
<1>7. CASE Expire(q)
  <2>1. UNCHANGED <<agent, booting, registry>>
    BY <1>7 DEF Expire
  <2> QED BY <1>7, <2>1, ExpireLeaves, LeavingWindow
<1>8. CASE Restore(q)
  <2>1. /\ ~Opening(q) /\ flow[q].repo \in Repos /\ UNCHANGED <<agent, booting, registry>>
    BY <1>0, <1>8 DEF Restore, At, Opening
  <2>2. CASE Becomes(q, Idle) /\ UNCHANGED <<robbed, stray>>
    BY <2>1, <2>2, IdleTyped, RequestEnters
  <2>3. CASE ~Locked(flow[q].repo) /\ Perform(q, flow[q].repo, inFlight \cup {flow[q].repo})
    BY <2>1, <2>3, NobodyThere, PerformWindow
  <2> QED BY <1>8, <2>2, <2>3 DEF Restore
<1>9. CASE Spawned(q)
  <2>1. /\ flow[q].at = "spawning" /\ flow[q].pane \in Panes
        /\ UNCHANGED <<agent, booting, registry, robbed, stray>>
    BY <1>9, FlowTyped DEF Spawned, At
  <2> DEFINE k == [flow[q] EXCEPT !.at = "ledger"]
  <2>2. k \in Flows /\ k.at = "ledger" /\ k.repo = flow[q].repo /\ k.pane = flow[q].pane
    BY <2>1, PhaseTyped
  <2>3. Becomes(q, k)
    BY <1>9 DEF Spawned
  <2> HIDE DEF k
  <2>4. \A p \in Panes : WaitsFor(q, p) => WaitsFor(q, p)'
    BY <2>1, <2>2, <2>3, BecomesTyped DEF WaitsFor, Opening
  <2> QED BY <1>0, <2>1, <2>2, <2>3, <2>4, RequestGoesOn DEF Holding, Settled
<1>10. CASE Record(q)
  <2>1. /\ flow[q].at = "ledger" /\ flow[q].pane \in Panes
        /\ UNCHANGED <<agent, booting, registry, robbed, stray>>
    BY <1>0, <1>10 DEF Record, At
  <2> DEFINE k == [flow[q] EXCEPT !.at = "waiting"]
  <2>2. k \in Flows /\ k.at = "waiting" /\ k.repo = flow[q].repo /\ k.pane = flow[q].pane
    BY <2>1, PhaseTyped
  <2>3. Becomes(q, k)
    BY <1>10 DEF Record
  <2> HIDE DEF k
  <2>4. \A p \in Panes : WaitsFor(q, p) => WaitsFor(q, p)'
    BY <2>1, <2>2, <2>3, BecomesTyped DEF WaitsFor, Opening
  <2> QED BY <1>0, <2>1, <2>2, <2>3, <2>4, RequestGoesOn DEF Holding, Settled
<1> QED BY <1>1, <1>2, <1>3, <1>4, <1>5, <1>6, <1>7, <1>8, <1>9, <1>10, OpenWindowWindow
        DEF Begins, Answers, Proceeds

LEMMA BridgeWindow == ASSUME TypeOK, WindowInv, Bridge PROVE WindowInv'
<1> USE DEF panes, locks, past
<1>1. CASE BridgeStops
  <2>1. /\ stray' = stray \cup ({flow[q].pane : q \in Requests} \cap booting)
        /\ UNCHANGED <<agent, booting, registry>>
    BY <1>1 DEF BridgeStops
  <2>2. \A q \in Requests : ~Holding(q)'
    BY <1>1 DEF BridgeStops, Holding, Idle
  <2>3. \A o \in Requests \ robbed : \A p \in booting : WaitsFor(o, p) => p \in stray'
    BY <2>1 DEF WaitsFor
  <2>4. stray \subseteq stray'
    BY <2>1
  <2> QED BY <2>1, <2>2, <2>3, <2>4, RequestsGoOn
<1>2. CASE BridgeStarts \/ SeedLocks \/ Ages
  BY <1>2, SameWindow DEF BridgeStarts, SeedLocks, Ages
<1>3. ASSUME NEW r \in Repos, ExpireAnswered(r) PROVE WindowInv'
  <2>1. UNCHANGED <<agent, booting, registry>>
    BY <1>3 DEF ExpireAnswered
  <2> QED BY <1>3, <2>1, AnsweredLeaves, LeavingWindow
<1> QED BY <1>1, <1>2, <1>3 DEF Bridge

LEMMA WindowInit == Init => WindowInv
<1> SUFFICES ASSUME Init PROVE WindowInv
  OBVIOUS
<1>1. Settled = {} /\ booting = {}
  BY DEF Init, Settled
<1> QED BY <1>1 DEF WindowInv, Booted, Known, Alone, NoTwo

LEMMA WindowNext == TypeOK /\ OneLock /\ WindowInv /\ [Next]_vars => WindowInv'
<1> SUFFICES ASSUME TypeOK, OneLock, WindowInv, [Next]_vars PROVE WindowInv'
  OBVIOUS
<1>1. CASE HerdrRestarts
  <2>1. {p \in Panes : agent[p] # None} \in SUBSET Panes
    OBVIOUS
  <2> QED BY <1>1, <2>1, GoneWindow DEF HerdrRestarts, bridge, locks
<1>2. CASE UNCHANGED vars
  BY <1>2, SameWindow DEF vars, panes, bridge, locks, past
<1> QED BY <1>1, <1>2, AgentWindow, PruningWindow, RequestWindow, BridgeWindow, ReaperWindow,
           RecoverWindow
        DEF Next

LEMMA WindowInvariance == Spec => [](TypeOK /\ WindowInv)
<1>1. RateInv => OneLock
  BY DEF RateInv
<1> QED BY <1>1, RateInit, RateNext, WindowInit, WindowNext, SpawnTypes, PTL DEF Spec

\* However its requests, the restarts of the bridge and of herdr, the sweeps of the
\* cards and of the registry, the closes, the reaper and herdr-recover interleave,
\* and pane ids are used again: of two open agents of one repository one is neither
\* registered nor waited for by a request with its lock (index.js 766-879, 963-972).
THEOREM OneAgentEach == Spec => []OneWindow
<1>1. WindowInv => OneWindow
  BY DEF WindowInv, NoTwo, Settled, OneWindow, Free
<1> QED BY <1>1, WindowInvariance, PTL

-----------------------------------------------------------------------------
(* Spawn: an entry outlives its agent only when nobody ended it on purpose, *)
(* between the reaper's kill and its deregistration, or when its close did  *)
(* not remove it, which is settled before the pane is closed.               *)

OnlyLost ==
  \A p \in Panes : agent[p] = None /\ registry[p] # None =>
    ended[p] = "lost" \/ p \in relisted \/ (reaper.at = "killed" /\ reaper.pane = p)
Unlisted == \A p \in Panes : closing[p] = "unlisted" /\ registry[p] # None => p \in relisted

LostInv == OnlyLost /\ Unlisted

\* Whose pane stays closed keeps its entry and the way it ended, and no entry comes.
LEMMA LostKept ==
  ASSUME LostInv, UNCHANGED <<reaper, relisted, ended>>,
         \A p \in Panes : agent'[p] = None /\ registry'[p] # None => agent[p] = None,
         \A p \in Panes : registry'[p] # None => registry[p] # None,
         \A p \in Panes : closing'[p] = "unlisted" => closing[p] = "unlisted"
  PROVE  LostInv'
BY DEF LostInv, OnlyLost, Unlisted

\* An entry goes.
LEMMA LostForgotten ==
  ASSUME TypeOK, LostInv, NEW p \in Panes, Deregister(p),
         UNCHANGED <<agent, reaper, closing, relisted, ended>>
  PROVE  LostInv'
<1>1. \A s \in Panes : registry'[s] # None => registry'[s] = registry[s]
  BY DEF Deregister, TypeOK
<1> QED BY <1>1, LostKept

LEMMA AgentLost ==
  ASSUME TypeOK, WindowInv, LostInv, NEW p \in Panes, Agent(p)
  PROVE  LostInv'
<1> USE DEF panes, past
<1>1. CASE Registers(p)
  <2>1. /\ agent[p] # None /\ registry' = [registry EXCEPT ![p] = agent[p]]
        /\ UNCHANGED <<agent, ended, reaper, closing>>
        /\ relisted' = IF closing[p] = "unlisted" THEN relisted \cup {p} ELSE relisted \ {p}
    BY <1>1 DEF Registers, WindowInv, Booted, scripts
  <2>2. \A s \in Panes \ {p} : registry'[s] = registry[s] /\ (s \in relisted' <=> s \in relisted)
    BY <2>1 DEF TypeOK
  <2> QED BY <2>1, <2>2 DEF LostInv, OnlyLost, Unlisted
<1>2. CASE Ends(p)
  BY <1>2 DEF Ends, Gone, LostInv, OnlyLost, Unlisted, scripts
<1>3. CASE CloseFinds(p)
  <2>1. \A s \in Panes : closing'[s] = "unlisted" => closing[s] = "unlisted"
    BY <1>3 DEF CloseFinds, TypeOK
  <2> QED BY <1>3, <2>1, LostKept DEF CloseFinds
<1>4. CASE CloseDeregisters(p)
  <2>1. /\ \A s \in Panes \ {p} : closing'[s] = closing[s] /\ registry'[s] = registry[s]
        /\ relisted \subseteq relisted' /\ (registry'[p] = None \/ p \in relisted')
        /\ \A s \in Panes : registry'[s] # None => registry[s] # None
        /\ UNCHANGED <<agent, ended, reaper>>
    BY <1>4 DEF CloseDeregisters, Deregister, TypeOK
  <2> QED BY <2>1 DEF LostInv, OnlyLost, Unlisted
<1>5. CASE CloseAgent(p)
  <2>1. /\ closing[p] = "unlisted" /\ UNCHANGED <<registry, reaper, relisted>>
        /\ \A s \in Panes : closing'[s] = "unlisted" => closing[s] = "unlisted"
    BY <1>5 DEF CloseAgent, TypeOK
  <2>2. \A s \in Panes \ {p} : agent'[s] = agent[s] /\ ended'[s] = ended[s]
    BY <1>5 DEF CloseAgent, Gone, TypeOK
  <2> QED BY <2>1, <2>2 DEF LostInv, OnlyLost, Unlisted
<1> QED BY <1>1, <1>2, <1>3, <1>4, <1>5 DEF Agent

LEMMA RequestLost ==
  ASSUME TypeOK, LostInv, NEW q \in Requests, Begins(q) \/ Answers(q) \/ Proceeds(q)
  PROVE  LostInv'
<1> USE DEF panes, past, scripts
<1>1. ASSUME NEW p \in Panes, OpenWindow(q, p) PROVE LostInv'
  <2>1. flow[q].repo \in Repos
    BY <1>1, FlowTyped DEF OpenWindow, At
  <2>2. /\ UNCHANGED <<registry, reaper, closing, relisted, ended>>
        /\ agent' = [agent EXCEPT ![p] = flow[q].repo]
    BY <1>1 DEF OpenWindow, Opened
  <2> QED BY <2>1, <2>2, LostKept, SpawnAssumption DEF TypeOK
<1>2. CASE UNCHANGED <<agent, registry, reaper, closing, relisted, ended>>
  BY <1>2, LostKept
<1> QED BY <1>1, <1>2 DEF Begins, Answers, Proceeds, Approve, Decline, DirectSpawn, PostConfirm,
           AskRestore, Posted, Expire, ExpireNext, Restore, Spawned, SpawnFails, Record,
           AwaitRegistration

LEMMA ReaperLost == ASSUME TypeOK, LostInv, Reaper PROVE LostInv'
<1> USE DEF panes, past
<1>1. ASSUME NEW p \in Panes, ReapJudges(p) PROVE LostInv'
  BY <1>1 DEF ReapJudges, LostInv, OnlyLost, Unlisted
<1>2. CASE ReapKill
  <2>1. reaper \in [at : {"judged", "killed", "mark"}, pane : Panes, repo : Repos]
    BY <1>2, AtWork DEF ReapKill
  <2>2. /\ reaper.at = "judged" /\ reaper'.at = "killed" /\ reaper'.pane = reaper.pane
        /\ Gone({reaper.pane}, "reaped") /\ UNCHANGED <<registry, closing, relisted>>
    BY <1>2, <2>1 DEF ReapKill
  <2> QED BY <2>2 DEF Gone, LostInv, OnlyLost, Unlisted
<1>3. CASE ReapFails \/ ReapMark
  <2>1. reaper.at # "killed" /\ UNCHANGED <<agent, registry, closing, relisted, ended>>
    BY <1>3 DEF ReapFails, ReapMark
  <2> QED BY <2>1 DEF LostInv, OnlyLost, Unlisted
<1>4. CASE ReapDeregister
  <2>1. /\ registry' = [registry EXCEPT ![reaper.pane] = None]
        /\ UNCHANGED <<agent, closing, relisted, ended>>
    BY <1>4 DEF ReapDeregister, Deregister
  <2> QED BY <2>1 DEF LostInv, OnlyLost, Unlisted, TypeOK
<1> QED BY <1>1, <1>2, <1>3, <1>4 DEF Reaper

LEMMA RecoverLost == ASSUME TypeOK, LostInv, Recover PROVE LostInv'
<1> USE DEF panes, past
<1>1. ASSUME NEW s \in Panes, Respawn(s) PROVE LostInv'
  <2>1. /\ agent' = [agent EXCEPT ![s] = recover.repo] /\ recover.repo # None
        /\ UNCHANGED <<registry, reaper, closing, relisted, ended>>
    BY <1>1, SpawnAssumption DEF Respawn, Opened, TypeOK
  <2> QED BY <2>1, LostKept DEF TypeOK
<1>2. CASE RecoverRecords
  <2>1. recover.pane \in Panes
    BY <1>2 DEF RecoverRecords, TypeOK
  <2> QED BY <1>2, <2>1, LostForgotten DEF RecoverRecords
<1>3. CASE UNCHANGED <<agent, registry, reaper, closing, relisted, ended>>
  BY <1>3, LostKept
<1> QED BY <1>1, <1>2, <1>3 DEF Recover, RecoverStarts, RecoverEnds, RecoverPasses, RecoverFinds,
           RespawnFails

LEMMA LostNext == TypeOK /\ WindowInv /\ LostInv /\ [Next]_vars => LostInv'
<1> SUFFICES ASSUME TypeOK, WindowInv, LostInv, [Next]_vars PROVE LostInv'
  OBVIOUS
<1> USE DEF panes, past
<1>1. CASE HerdrRestarts
  BY <1>1 DEF HerdrRestarts, Gone, LostInv, OnlyLost, Unlisted, scripts
<1>2. CASE Pruning
  <2>1. ASSUME NEW p \in Panes, PruneEntry(p) PROVE LostInv'
    BY <2>1, LostKept, LostForgotten DEF PruneEntry
  <2>2. CASE PruneLists \/ PruneReads \/ PruneEnds
    BY <2>2, LostKept DEF PruneLists, PruneReads, PruneEnds
  <2> QED BY <1>2, <2>1, <2>2 DEF Pruning
<1>3. CASE Bridge
  <2>1. UNCHANGED <<agent, registry, reaper, closing, relisted, ended>>
    BY <1>3 DEF Bridge, BridgeStops, BridgeStarts, SeedLocks, Ages, ExpireAnswered, scripts
  <2> QED BY <2>1, LostKept
<1>4. CASE UNCHANGED vars
  BY <1>4, LostKept DEF vars, scripts
<1> QED BY <1>1, <1>2, <1>3, <1>4, AgentLost, RequestLost, ReaperLost, RecoverLost DEF Next

\* herdr-recover finds to open again only what went without anybody's will, whatever
\* was closed, reaped or opened in the same pane since it read the registry; but for
\* an agent whose reaping is not finished, or whose close failed to remove its entry
\* or met one made meanwhile (herdr-close-agent.sh 31-58, herdr-recover.sh 115-150).
THEOREM OnlyTheLostRevive == Spec => RevivesTheLost
<1>1. Init => LostInv
  BY DEF Init, LostInv, OnlyLost, Unlisted
<1>2. TypeOK /\ LostInv /\ [Next]_vars =>
        [\A p \in Panes :
           RecoverFinds(p) => ended[p] = "lost" \/ p \in relisted \/ reaper.pane = p]_vars
  BY DEF LostInv, OnlyLost, RecoverFinds, Casualty
<1> QED BY <1>1, <1>2, LostNext, WindowInvariance, PTL DEF Spec, RevivesTheLost

-----------------------------------------------------------------------------
(* Reaper: the types.  A sweep grows older by a tick at most for each pane  *)
(* it has still to look at, so what it writes into a marker is bounded.     *)

Spare == IF sweep.at = "checkpoint" /\ ~sweep.slow THEN 1 ELSE 0
LagBound == sweep.lag + Cardinality(sweep.todo) + Spare <= Cardinality(Panes)

ReapTyped == ReapTypeOK /\ LagBound

LEMMA OldestTyped ==
  /\ Cardinality(Panes) \in Nat /\ Oldest \in Nat /\ Cardinality(Panes) < Oldest /\ IDLE < Oldest
  /\ {IDLE, LEAD, SLOP, Period} \subseteq Nat \ {0} /\ LEAD < IDLE
BY PanesAssumption, ReaperAssumption, FS_CardinalityType DEF Oldest

LEMMA PanesFinite ==
  ASSUME NEW S, S \subseteq Panes
  PROVE  IsFiniteSet(S) /\ Cardinality(S) \in Nat /\ Cardinality(S) <= Cardinality(Panes)
BY PanesAssumption, FS_Subset, FS_CardinalityType

LEMMA LagTyped == ASSUME ReapTyped PROVE sweep.lag \in 0 .. Oldest - 1
<1>1. Cardinality(sweep.todo) \in Nat
  BY PanesFinite DEF ReapTyped, ReapTypeOK
<1> QED BY <1>1, OldestTyped DEF ReapTyped, ReapTypeOK, LagBound, Spare

\* What a sweep has still to do grows less while its age does not grow.
LEMMA LagKept ==
  ASSUME ReapTyped, sweep'.lag = sweep.lag, sweep'.todo \subseteq sweep.todo, Spare' <= Spare
  PROVE  LagBound'
<1>1. sweep.todo \subseteq Panes /\ sweep.lag \in Nat
  BY DEF ReapTyped, ReapTypeOK
<1>2. /\ Cardinality(sweep'.todo) <= Cardinality(sweep.todo)
      /\ Cardinality(sweep'.todo) \in Nat /\ Cardinality(sweep.todo) \in Nat
  BY <1>1, PanesFinite, FS_Subset
<1>3. Spare \in Nat /\ Spare' \in Nat
  BY DEF Spare
<1> QED BY <1>1, <1>2, <1>3, OldestTyped DEF ReapTyped, LagBound

LEMMA ReapTypedInit == ReapInit => ReapTyped
<1> SUFFICES ASSUME ReapInit PROVE ReapTyped
  OBVIOUS
<1>1. sweep = Off
  BY DEF ReapInit
<1>2. ReapTypeOK
  BY <1>1, OldestTyped DEF ReapInit, ReapTypeOK, Off, Open, Unset
<1>3. Cardinality(sweep.todo) = 0
  BY <1>1, FS_EmptySet DEF Off
<1>4. LagBound
  BY <1>1, <1>3, OldestTyped DEF LagBound, Spare, Off
<1> QED BY <1>2, <1>4 DEF ReapTyped

LEMMA ActsTyped == ASSUME ReapTyped, NEW p \in Panes, Acts(p) PROVE ReapTyped'
<1>1. UNCHANGED <<sweep, due>>
  BY DEF Acts, Engage, Turned, ToolUse, Ask, Finish, Exit, Opens, Keep, history
<1>2. LagBound'
  BY <1>1 DEF ReapTyped, LagBound, Spare
<1>3. CASE Engage(p)
  BY <1>2, <1>3 DEF Engage, Turned, ReapTyped, ReapTypeOK
<1>4. CASE ToolUse(p)
  BY <1>2, <1>4, OldestTyped DEF ToolUse, ReapTyped, ReapTypeOK
<1>5. CASE Ask(p)
  BY <1>2, <1>5 DEF Ask, ReapTyped, ReapTypeOK, history
<1>6. CASE Finish(p)
  BY <1>2, <1>6 DEF Finish, ReapTyped, ReapTypeOK
<1>7. CASE Exit(p)
  BY <1>2, <1>7 DEF Exit, ReapTyped, ReapTypeOK
<1>8. CASE Opens(p)
  BY <1>2, <1>8, OldestTyped DEF Opens, ReapTyped, ReapTypeOK, Open, Unset
<1>9. CASE Keep(p)
  BY <1>2, <1>9 DEF Keep, ReapTyped, ReapTypeOK
<1> QED BY <1>2, <1>3, <1>4, <1>5, <1>6, <1>7, <1>8, <1>9 DEF Acts, ReapTyped

\* The states a sweep goes through.
LEMMA SweepTyped ==
  ASSUME ReapTyped, NEW p \in Panes
  PROVE  /\ sweep = [at |-> sweep.at, todo |-> sweep.todo, pane |-> sweep.pane,
                     lag |-> sweep.lag, slow |-> sweep.slow]
         /\ sweep.todo \subseteq Panes /\ sweep.lag \in Nat
         /\ Cardinality(sweep.todo) \in Nat
         /\ Done(p) => sweep' = [sweep EXCEPT !.todo = sweep.todo \ {p}]
BY PanesFinite DEF ReapTyped, ReapTypeOK, Done

\* A pane is passed.
LEMMA DoneTyped ==
  ASSUME ReapTyped, NEW p \in Panes, sweep.at = "next", Done(p)
  PROVE  /\ sweep' \in [at : {"off", "next", "checkpoint"}, todo : SUBSET Panes,
                        pane : SUBSET Panes, lag : Nat, slow : BOOLEAN]
         /\ LagBound'
<1>1. sweep' = [sweep EXCEPT !.todo = sweep.todo \ {p}]
  BY SweepTyped
<1>2. /\ sweep'.lag = sweep.lag /\ sweep'.todo \subseteq sweep.todo
      /\ sweep'.at = "next" /\ sweep'.slow = sweep.slow
  BY <1>1 DEF ReapTyped, ReapTypeOK
<1>3. Spare' <= Spare
  BY <1>2 DEF Spare
<1> QED BY <1>1, <1>2, <1>3, LagKept DEF ReapTyped, ReapTypeOK

LEMMA SweepsTyped == ASSUME ReapTyped, Sweeps PROVE ReapTyped'
<1>0. sweep \in [at : {"off", "next", "checkpoint"}, todo : SUBSET Panes,
                 pane : SUBSET Panes, lag : Nat, slow : BOOLEAN]
  BY DEF ReapTyped, ReapTypeOK
<1>1. CASE SweepStarts
  <2>1. sweep' = [Off EXCEPT !.at = "next", !.todo = registered]
    BY <1>1 DEF SweepStarts
  <2>2. sweep'.at = "next" /\ sweep'.todo = registered /\ sweep'.lag = 0
    BY <2>1 DEF Off
  <2>3. registered \subseteq Panes
    BY DEF ReapTyped, ReapTypeOK
  <2>4. Cardinality(sweep'.todo) <= Cardinality(Panes) /\ Cardinality(sweep'.todo) \in Nat
    BY <2>2, <2>3, PanesFinite
  <2>5. LagBound'
    BY <2>2, <2>4, OldestTyped DEF LagBound, Spare
  <2>6. sweep' \in [at : {"off", "next", "checkpoint"}, todo : SUBSET Panes,
                   pane : SUBSET Panes, lag : Nat, slow : BOOLEAN]
    BY <2>1, <2>3 DEF Off
  <2>7. ReapTypeOK'
    BY <1>1, <2>6, OldestTyped DEF SweepStarts, ReapTyped, ReapTypeOK, agents, history
  <2> QED BY <2>5, <2>7 DEF ReapTyped
<1>2. CASE SweepEnds
  <2>1. sweep' = Off /\ sweep'.todo = {} /\ sweep'.lag = 0 /\ sweep'.at = "off"
    BY <1>2 DEF SweepEnds, Off
  <2>2. LagBound'
    BY <2>1, FS_EmptySet, OldestTyped DEF LagBound, Spare
  <2>3. ReapTypeOK'
    BY <1>2, <2>1 DEF SweepEnds, ReapTyped, ReapTypeOK, Off, agents, history
  <2> QED BY <2>2, <2>3 DEF ReapTyped
<1>3. ASSUME NEW p \in Panes, Passes(p) PROVE ReapTyped'
  <2>1. sweep.at = "next" /\ Done(p)
    BY <1>3 DEF Passes, Look
  <2>2. marker' = marker \/ marker' = [marker EXCEPT ![p] = Unset]
    BY <1>3 DEF Passes, Unmark
  <2>3. marker' \in [Panes -> -1 .. Oldest]
    BY <2>2, OldestTyped DEF ReapTyped, ReapTypeOK, Unset
  <2>4. missed' \subseteq Panes
    BY <1>3 DEF Passes, ReapTyped, ReapTypeOK
  <2> QED BY <1>3, <2>1, <2>3, <2>4, DoneTyped DEF Passes, ReapTyped, ReapTypeOK, agents
<1>4. ASSUME NEW p \in Panes, Spares(p) PROVE ReapTyped'
  <2>1. sweep.at = "next" /\ Done(p)
    BY <1>4 DEF Spares, Look
  <2>2. marker' \in [Panes -> -1 .. Oldest]
    BY <1>4, OldestTyped DEF Spares, Unmark, ReapTyped, ReapTypeOK, Unset
  <2> QED BY <1>4, <2>1, <2>2, DoneTyped DEF Spares, ReapTyped, ReapTypeOK, agents, history
<1>5. ASSUME NEW p \in Panes, Nudges(p) PROVE ReapTyped'
  <2>1. sweep.at = "next" /\ Done(p)
    BY <1>5 DEF Nudges, Look
  <2>2. marker' \in [Panes -> -1 .. Oldest]
    BY <1>5, LagTyped, OldestTyped DEF Nudges, ReapTyped, ReapTypeOK
  <2>3. turn' \in [Panes -> {"none", "human", "asking", "nudge", "late"}]
    BY <1>5 DEF Nudges, ReapTyped, ReapTypeOK
  <2>4. alone' \subseteq Panes
    BY <1>5 DEF Nudges, ReapTyped, ReapTypeOK
  <2> QED BY <1>5, <2>1, <2>2, <2>3, <2>4, DoneTyped DEF Nudges, ReapTyped, ReapTypeOK
<1>6. ASSUME NEW p \in Panes, Checkpoints(p) PROVE ReapTyped'
  <2>1. /\ sweep.at = "next" /\ p \in sweep.todo
        /\ sweep' = [sweep EXCEPT !.at = "checkpoint", !.pane = {p}, !.todo = sweep.todo \ {p},
                                  !.slow = FALSE]
    BY <1>6, <1>0 DEF Checkpoints, Look
  <2>2. sweep'.at = "checkpoint" /\ sweep'.todo = sweep.todo \ {p} /\ sweep'.lag = sweep.lag
    BY <1>0, <2>1
  <2>3. IsFiniteSet(sweep.todo) /\ Cardinality(sweep.todo) \in Nat
    BY <1>0, PanesFinite
  <2>4. Cardinality(sweep'.todo) = Cardinality(sweep.todo) - 1
    BY <2>1, <2>2, <2>3, FS_RemoveElement
  <2>5. Spare = 0 /\ Spare' \in {0, 1}
    BY <2>1 DEF Spare
  <2>6. LagBound'
    BY <1>0, <2>2, <2>3, <2>4, <2>5, OldestTyped DEF LagBound, ReapTyped
  <2>7. sweep' \in [at : {"off", "next", "checkpoint"}, todo : SUBSET Panes,
                   pane : SUBSET Panes, lag : Nat, slow : BOOLEAN]
    BY <1>0, <2>1
  <2>8. ReapTypeOK'
    BY <1>6, <2>7 DEF Checkpoints, ReapTyped, ReapTypeOK, agents
  <2> QED BY <2>6, <2>8 DEF ReapTyped
<1>7. ASSUME NEW p \in Panes, Closes(p) \/ KillFails(p) PROVE ReapTyped'
  <2>1. sweep' = [sweep EXCEPT !.at = "next", !.pane = {}]
    BY <1>7 DEF Closes, KillFails, Onwards
  <2>2. sweep'.at = "next" /\ sweep'.todo = sweep.todo /\ sweep'.lag = sweep.lag
    BY <1>0, <2>1
  <2>3. Spare' <= Spare
    BY <2>2 DEF Spare
  <2>4. LagBound'
    BY <2>2, <2>3, LagKept
  <2>5. sweep' \in [at : {"off", "next", "checkpoint"}, todo : SUBSET Panes,
                    pane : SUBSET Panes, lag : Nat, slow : BOOLEAN]
    BY <1>0, <2>1
  <2>6. CASE Closes(p)
    <3>1. marker' \in [Panes -> -1 .. Oldest]
      BY <2>6, OldestTyped DEF Closes, Unmark, ReapTyped, ReapTypeOK, Unset
    <3>2. closed' \in [Panes -> [marker : -1 .. Oldest, busy : BOOLEAN, kept : BOOLEAN]]
      <4>1. [marker |-> marker[p], busy |-> turn[p] = "human", kept |-> p \in kept]
              \in [marker : -1 .. Oldest, busy : BOOLEAN, kept : BOOLEAN]
        BY DEF ReapTyped, ReapTypeOK
      <4> QED BY <2>6, <4>1 DEF Closes, ReapTyped, ReapTypeOK
    <3> QED BY <2>4, <2>5, <2>6, <3>1, <3>2 DEF Closes, ReapTyped, ReapTypeOK
  <2>7. CASE KillFails(p)
    BY <2>4, <2>5, <2>7 DEF KillFails, ReapTyped, ReapTypeOK, agents, history
  <2> QED BY <1>7, <2>6, <2>7
<1> QED BY <1>1, <1>2, <1>3, <1>4, <1>5, <1>6, <1>7 DEF Sweeps

LEMMA OlderTyped == \A n \in -1 .. Oldest : Older(n) \in -1 .. Oldest /\ (n >= 0 => Older(n) >= 0)
BY OldestTyped DEF Older, Unset

LEMMA TickTyped == ASSUME ReapTyped, Tick PROVE ReapTyped'
<1>0. sweep \in [at : {"off", "next", "checkpoint"}, todo : SUBSET Panes,
                 pane : SUBSET Panes, lag : Nat, slow : BOOLEAN]
  BY DEF ReapTyped, ReapTypeOK
<1>1. ref' \in [Panes -> 0 .. Oldest] /\ marker' \in [Panes -> -1 .. Oldest]
  BY OlderTyped, OldestTyped DEF Tick, ReapTyped, ReapTypeOK
<1>2. turn' \in [Panes -> {"none", "human", "asking", "nudge", "late"}] /\ due' \in 0 .. Period
  BY OldestTyped DEF Tick, ReapTyped, ReapTypeOK
<1>3. /\ sweep' \in [at : {"off", "next", "checkpoint"}, todo : SUBSET Panes,
                     pane : SUBSET Panes, lag : Nat, slow : BOOLEAN]
      /\ LagBound'
  <2>1. CASE sweep.at = "off"
    <3>1. sweep' = sweep
      BY <2>1 DEF Tick, Sweeping
    <3> QED BY <1>0, <3>1 DEF ReapTyped, LagBound, Spare
  <2>2. CASE sweep.at = "checkpoint" /\ ~sweep.slow
    <3>1. sweep' = [sweep EXCEPT !.lag = sweep.lag + 1, !.slow = TRUE]
      BY <2>2 DEF Tick, Sweeping
    <3>2. sweep'.lag = sweep.lag + 1 /\ sweep'.slow = TRUE /\ sweep'.todo = sweep.todo
      BY <1>0, <3>1
    <3>3. Spare = 1 /\ Spare' = 0
      BY <2>2, <3>2 DEF Spare
    <3>4. Cardinality(sweep.todo) \in Nat
      BY <1>0, PanesFinite
    <3>5. LagBound'
      BY <1>0, <3>2, <3>3, <3>4, OldestTyped DEF LagBound, ReapTyped
    <3>6. sweep.lag + 1 \in Nat
      BY <1>0
    <3>7. sweep' \in [at : {"off", "next", "checkpoint"}, todo : SUBSET Panes,
                     pane : SUBSET Panes, lag : Nat, slow : BOOLEAN]
      BY <1>0, <3>1, <3>6
    <3> QED BY <3>5, <3>7
  <2> QED BY <2>1, <2>2 DEF Tick
<1> QED BY <1>1, <1>2, <1>3 DEF Tick, ReapTyped, ReapTypeOK, history

LEMMA ReapTypedNext == ReapTyped /\ [ReapNext]_reapVars => ReapTyped'
<1> SUFFICES ASSUME ReapTyped, [ReapNext]_reapVars PROVE ReapTyped'
  OBVIOUS
<1>1. CASE UNCHANGED reapVars
  BY <1>1 DEF reapVars, agents, history, ReapTyped, ReapTypeOK, LagBound, Spare
<1> QED BY <1>1, ActsTyped, SweepsTyped, TickTyped DEF ReapNext

\* However many panes a sweep goes through, and however long their checkpoints
\* take, the clock it judges by is behind by less than the marker can count
\* (overseer-reap.sh 80-84, 238-257).
THEOREM ReaperTypes == ReapSpec => []ReapTypeOK
<1>1. ReapTyped => ReapTypeOK
  BY DEF ReapTyped
<1> QED BY <1>1, ReapTypedInit, ReapTypedNext, PTL DEF ReapSpec

-----------------------------------------------------------------------------
(* Reaper: what it saw of the pane it is at still holds, unless something   *)
(* happened to the pane since the checkpoint began.                         *)

\* An agent in a human's turn is at work, unless it has called no tool yet.
TurnsShow ==
  \A p \in Panes : /\ p \notin alive => turn[p] = "none"
                   /\ turn[p] = "human" => waiting[p] = "0" \/ p \in unseen

JudgedSo(p) == p \notin kept /\ (turn[p] = "human" => p \in unseen)
StillSo ==
  sweep.at = "checkpoint" => \A p \in sweep.pane : p \in meanwhile \/ JudgedSo(p)

ClosedAreGone == \A p \in Panes : closed[p] # Open => p \notin alive

JudgedInv == TurnsShow /\ StillSo /\ ClosedAreGone /\ ClosedWasJudged

\* What happens to a pane is noted, or changes nothing that was judged; and who is
\* closed is out of it.
LEMMA ActsJudged == ASSUME ReapTyped, JudgedInv, NEW p \in Panes, Acts(p) PROVE JudgedInv'
<1> USE DEF ReapTyped, ReapTypeOK, JudgedInv, history
<1>0. UNCHANGED sweep
  BY DEF Acts, Engage, Turned, ToolUse, Ask, Finish, Exit, Opens, Keep
<1>1. TurnsShow'
  BY DEF Acts, Engage, Turned, ToolUse, Ask, Finish, Exit, Opens, Keep, TurnsShow
<1>2. p \in meanwhile' \/ (JudgedSo(p) => JudgedSo(p)')
  BY DEF Acts, Engage, Turned, ToolUse, Ask, Finish, Exit, Opens, Keep, JudgedSo
<1>3. \A s \in Panes \ {p} : /\ JudgedSo(s) => JudgedSo(s)'
                             /\ s \in meanwhile => s \in meanwhile'
                             /\ s \in unseen => s \in unseen'
  BY DEF Acts, Engage, Turned, ToolUse, Ask, Finish, Exit, Opens, Keep, JudgedSo
<1>4. meanwhile \subseteq meanwhile'
  BY DEF Acts, Engage, Turned, ToolUse, Ask, Finish, Exit, Opens, Keep
<1>5. StillSo'
  BY <1>0, <1>2, <1>3, <1>4 DEF StillSo
<1>6. closed' = closed \/ (p \notin alive /\ closed' = [closed EXCEPT ![p] = Open])
  BY DEF Acts, Engage, Turned, ToolUse, Ask, Finish, Exit, Opens, Keep
<1>7. alive' \subseteq alive \cup {p} /\ (p \in alive \/ closed'[p] = Open \/ alive' = alive)
  BY DEF Acts, Engage, Turned, ToolUse, Ask, Finish, Exit, Opens, Keep
<1>8. ClosedAreGone'
  BY <1>6, <1>7 DEF ClosedAreGone
<1>9. p \in alive \/ unseen' = unseen
  BY DEF Acts, Engage, Turned, ToolUse, Ask, Finish, Exit, Opens, Keep
<1>10. closed'[p] = Open \/ (closed'[p] = closed[p] /\ unseen' = unseen)
  BY <1>6, <1>9 DEF ClosedAreGone
<1>11. ~Open.kept /\ ~Open.busy
  BY DEF Open
<1>12. ClosedWasJudged'
  <2> SUFFICES ASSUME NEW s \in Panes
               PROVE  /\ closed'[s].kept => s \in meanwhile'
                      /\ closed'[s].busy => s \in meanwhile' \cup unseen'
    BY DEF ClosedWasJudged
  <2>1. /\ closed[s].kept => s \in meanwhile
        /\ closed[s].busy => s \in meanwhile \cup unseen
    BY DEF ClosedWasJudged
  <2>2. CASE s = p
    BY <1>4, <1>10, <1>11, <2>1, <2>2
  <2>3. CASE s # p
    BY <1>3, <1>6, <2>1, <2>3
  <2> QED BY <2>2, <2>3
<1> QED BY <1>1, <1>5, <1>8, <1>12

\* A step that is away from a checkpoint and closes nobody.
LEMMA AwayJudged ==
  ASSUME ReapTyped, JudgedInv, UNCHANGED <<alive, waiting, kept, unseen, meanwhile, closed>>,
         sweep'.at # "checkpoint",
         \A p \in Panes : turn'[p] # turn[p] => turn'[p] # "human" /\ p \in alive
  PROVE  JudgedInv'
BY DEF JudgedInv, TurnsShow, StillSo, ClosedAreGone, ClosedWasJudged

LEMMA SweepsJudged == ASSUME ReapTyped, JudgedInv, Sweeps PROVE JudgedInv'
<1> USE DEF history, agents
<1>0. sweep \in [at : {"off", "next", "checkpoint"}, todo : SUBSET Panes,
                 pane : SUBSET Panes, lag : Nat, slow : BOOLEAN]
  BY DEF ReapTyped, ReapTypeOK
<1>1. CASE SweepStarts
  BY <1>1, AwayJudged DEF SweepStarts, Off
<1>2. CASE SweepEnds
  BY <1>2, AwayJudged DEF SweepEnds, Off
<1>3. ASSUME NEW p \in Panes, Passes(p) \/ Spares(p) PROVE JudgedInv'
  <2>1. sweep'.at = "next"
    BY <1>0, <1>3 DEF Passes, Spares, Look, Done
  <2> QED BY <1>3, <2>1, AwayJudged DEF Passes, Spares
<1>4. ASSUME NEW p \in Panes, Nudges(p) PROVE JudgedInv'
  <2>1. sweep'.at = "next"
    BY <1>0, <1>4 DEF Nudges, Look, Done
  <2>2. \A s \in Panes : turn'[s] # turn[s] => turn'[s] # "human" /\ s \in alive
    BY <1>4 DEF Nudges, Nudgeable, Waits, Watched, ReapTyped, ReapTypeOK
  <2> QED BY <1>4, <2>1, <2>2, AwayJudged DEF Nudges
<1>5. ASSUME NEW p \in Panes, Checkpoints(p) PROVE JudgedInv'
  <2>1. /\ p \in alive /\ p \notin kept /\ waiting[p] # "0" /\ meanwhile' = meanwhile \ {p}
        /\ UNCHANGED <<alive, turn, waiting, kept, unseen, closed>>
    BY <1>5 DEF Checkpoints, Waits, Watched
  <2>2. sweep'.at = "checkpoint" /\ sweep'.pane = {p}
    BY <1>0, <1>5 DEF Checkpoints
  <2>3. StillSo'
    BY <2>1, <2>2 DEF StillSo, JudgedSo, JudgedInv, TurnsShow
  <2>4. closed[p] = Open /\ ~Open.kept /\ ~Open.busy
    BY <2>1 DEF JudgedInv, ClosedAreGone, Open
  <2>5. ClosedWasJudged'
    BY <2>1, <2>4 DEF JudgedInv, ClosedWasJudged
  <2> QED BY <2>1, <2>3, <2>5 DEF JudgedInv, TurnsShow, ClosedAreGone
<1>6. ASSUME NEW p \in Panes, Closes(p) PROVE JudgedInv'
  <2>1. /\ sweep.at = "checkpoint" /\ sweep.pane = {p} /\ alive' = alive \ {p}
        /\ turn' = [turn EXCEPT ![p] = "none"] /\ UNCHANGED <<waiting, kept, unseen, meanwhile>>
        /\ closed' = [closed EXCEPT ![p] =
             [marker |-> marker[p], busy |-> turn[p] = "human", kept |-> p \in kept]]
    BY <1>6 DEF Closes
  <2>2. sweep'.at = "next"
    BY <1>0, <1>6 DEF Closes, Onwards
  <2>3. p \in meanwhile \/ JudgedSo(p)
    BY <2>1 DEF JudgedInv, StillSo
  <2>4. TurnsShow'
    BY <2>1 DEF JudgedInv, TurnsShow, ReapTyped, ReapTypeOK
  <2>5. ClosedAreGone'
    BY <2>1 DEF JudgedInv, ClosedAreGone, ReapTyped, ReapTypeOK
  <2>6. /\ closed'[p].kept => p \in meanwhile
        /\ closed'[p].busy => p \in meanwhile \cup unseen
    BY <2>1, <2>3 DEF JudgedSo, ReapTyped, ReapTypeOK
  <2>7. \A s \in Panes \ {p} : closed'[s] = closed[s]
    BY <2>1 DEF ReapTyped, ReapTypeOK
  <2>8. ClosedWasJudged'
    BY <2>1, <2>6, <2>7 DEF JudgedInv, ClosedWasJudged
  <2> QED BY <2>2, <2>4, <2>5, <2>8 DEF JudgedInv, StillSo
<1>7. ASSUME NEW p \in Panes, KillFails(p) PROVE JudgedInv'
  <2>1. sweep'.at = "next"
    BY <1>0, <1>7 DEF KillFails, Onwards
  <2> QED BY <1>7, <2>1, AwayJudged DEF KillFails
<1> QED BY <1>1, <1>2, <1>3, <1>4, <1>5, <1>6, <1>7 DEF Sweeps

LEMMA TickJudged == ASSUME ReapTyped, JudgedInv, Tick PROVE JudgedInv'
<1>1. \A p \in Panes : /\ turn'[p] = "human" <=> turn[p] = "human"
                       /\ turn[p] = "none" => turn'[p] = "none"
  BY DEF Tick
<1>2. sweep'.at = sweep.at /\ sweep'.pane = sweep.pane /\ sweep.pane \subseteq Panes
  BY DEF Tick, Sweeping, ReapTyped, ReapTypeOK
<1>3. UNCHANGED <<alive, waiting, kept, unseen, meanwhile, closed>>
  BY DEF Tick, history
<1> QED BY <1>1, <1>2, <1>3
        DEF JudgedInv, TurnsShow, StillSo, JudgedSo, ClosedAreGone, ClosedWasJudged

LEMMA JudgedNext == ReapTyped /\ JudgedInv /\ [ReapNext]_reapVars => JudgedInv'
<1> SUFFICES ASSUME ReapTyped, JudgedInv, [ReapNext]_reapVars PROVE JudgedInv'
  OBVIOUS
<1>1. CASE UNCHANGED reapVars
  BY <1>1 DEF reapVars, agents, history, JudgedInv, TurnsShow, StillSo, JudgedSo, ClosedAreGone,
              ClosedWasJudged
<1> QED BY <1>1, ActsJudged, SweepsJudged, TickJudged DEF ReapNext

\* Whoever acts while a checkpoint takes its minutes, in whatever pane: an agent that
\* is closed in a human's turn, or kept, became so after the sweep had judged it, or
\* had not called a tool yet (overseer-reap.sh 182-187, 238-276).
THEOREM NobodyClosedUnjudged == ReapSpec => []ClosedWasJudged
<1>1. ReapInit => JudgedInv
  BY DEF ReapInit, JudgedInv, TurnsShow, StillSo, ClosedAreGone, ClosedWasJudged, Off, Open
<1>2. JudgedInv => ClosedWasJudged
  BY DEF JudgedInv
<1> QED BY <1>1, <1>2, ReapTypedInit, ReapTypedNext, JudgedNext, PTL DEF ReapSpec

-----------------------------------------------------------------------------
(* Reaper: the marker of an agent that only answered its nudge is older     *)
(* than its last tool by a tick of the answer at most.                      *)

AnswersOnly(p) ==
  /\ p \in alive /\ turn[p] \in {"none", "nudge", "late"}
  /\ turn[p] = "nudge" => marker[p] = 0
  /\ turn[p] = "late" => marker[p] <= 1
  /\ marker[p] - ref[p] <= SLOP
LeftAlone == \A p \in alone : marker[p] # Unset => AnswersOnly(p)

LEMMA LeftAloneNext == ReapTyped /\ LeftAlone /\ [ReapNext]_reapVars => LeftAlone'
<1> SUFFICES ASSUME ReapTyped, LeftAlone, [ReapNext]_reapVars PROVE LeftAlone'
  OBVIOUS
<1> USE DEF history, agents
<1>0. /\ alone \subseteq Panes /\ turn \in [Panes -> {"none", "human", "asking", "nudge", "late"}]
      /\ ref \in [Panes -> 0 .. Oldest] /\ marker \in [Panes -> -1 .. Oldest]
      /\ SLOP \in Nat \ {0} /\ Oldest \in Nat
  BY OldestTyped DEF ReapTyped, ReapTypeOK
<1>1. ASSUME NEW p \in Panes, Acts(p), NEW s \in alone', marker'[s] # Unset
      PROVE  AnswersOnly(s)'
  <2>0. s \in alone /\ s \in Panes /\ UNCHANGED marker
    BY <1>0, <1>1 DEF Acts, Engage, Turned, ToolUse, Ask, Finish, Exit, Opens, Keep
  <2>1. AnswersOnly(s)
    BY <1>1, <2>0 DEF LeftAlone
  <2>2. CASE s # p
    <3>1. turn'[s] = turn[s] /\ ref'[s] = ref[s] /\ (s \in alive => s \in alive')
      BY <1>0, <1>1, <2>0, <2>2
         DEF Acts, Engage, Turned, ToolUse, Ask, Finish, Exit, Opens, Keep
    <3> QED BY <2>0, <2>1, <3>1 DEF AnswersOnly
  <2>3. CASE s = p /\ ToolUse(p)
    <3>1. ref'[s] = 0 /\ turn'[s] = turn[s] /\ turn[s] \in {"nudge", "late"} /\ alive' = alive
      BY <1>0, <2>0, <2>1, <2>3 DEF ToolUse, AnswersOnly
    <3> QED BY <1>0, <2>0, <2>1, <3>1 DEF AnswersOnly
  <2>4. CASE s = p /\ ~ToolUse(p)
    <3>1. s \in alive /\ turn[s] # "human"
      BY <2>1 DEF AnswersOnly
    <3>2. /\ turn'[s] = turn[s] \/ turn'[s] = "none"
          /\ ref'[s] = ref[s] /\ s \in alive'
      BY <1>0, <1>1, <2>0, <2>4, <3>1
         DEF Acts, Engage, Turned, Ask, Finish, Exit, Opens, Keep
    <3> QED BY <2>0, <2>1, <3>2 DEF AnswersOnly
  <2> QED BY <2>2, <2>3, <2>4
<1>2. ASSUME NEW p \in Panes, Nudges(p), NEW s \in alone', marker'[s] # Unset
      PROVE  AnswersOnly(s)'
  <2>1. /\ marker' = [marker EXCEPT ![p] = sweep.lag] /\ UNCHANGED <<alive, ref>>
        /\ turn' = [turn EXCEPT ![p] = IF turn[p] = "none" THEN "nudge" ELSE turn[p]] \/ UNCHANGED turn
        /\ alone' = IF sweep.lag = 0 /\ turn[p] = "none" THEN alone \cup {p} ELSE alone \ {p}
    BY <1>0, <1>2 DEF Nudges
  <2>2. CASE s = p
    <3>1. sweep.lag = 0 /\ turn[p] = "none" /\ p \in alive
      BY <1>2, <2>1, <2>2 DEF Nudges, Nudgeable, Waits, Watched
    <3>2. marker'[s] = 0 /\ turn'[s] \in {"none", "nudge"}
      BY <1>0, <2>1, <2>2, <3>1
    <3>3. ref'[s] \in Nat /\ s \in alive'
      BY <1>0, <2>1, <2>2, <3>1
    <3> QED BY <1>0, <3>2, <3>3 DEF AnswersOnly
  <2>3. CASE s # p
    <3>1. s \in alone /\ s \in Panes
      BY <1>0, <2>1, <2>3
    <3>2. turn'[s] = turn[s] /\ marker'[s] = marker[s]
      BY <1>0, <2>1, <2>3, <3>1
    <3> QED BY <1>2, <2>1, <3>1, <3>2 DEF AnswersOnly, LeftAlone
  <2> QED BY <2>2, <2>3
<1>3. ASSUME NEW p \in Panes, Closes(p), NEW s \in alone', marker'[s] # Unset
      PROVE  AnswersOnly(s)'
  <2>1. /\ alive' = alive \ {p} /\ marker' = [marker EXCEPT ![p] = Unset]
        /\ turn' = [turn EXCEPT ![p] = "none"] /\ UNCHANGED <<ref, alone>>
    BY <1>3 DEF Closes, Unmark
  <2>2. s # p /\ s \in alone /\ s \in Panes
    BY <1>0, <1>3, <2>1
  <2>3. turn'[s] = turn[s] /\ marker'[s] = marker[s]
    BY <1>0, <2>1, <2>2
  <2> QED BY <1>3, <2>1, <2>2, <2>3 DEF AnswersOnly, LeftAlone
<1>4. ASSUME UNCHANGED <<alive, turn, ref, alone>>,
             \A s \in alone : marker'[s] # Unset => marker'[s] = marker[s]
      PROVE  LeftAlone'
  BY <1>4 DEF LeftAlone, AnswersOnly
<1>5. CASE Sweeps
  <2>1. ASSUME NEW p \in Panes, Passes(p) \/ Spares(p) PROVE LeftAlone'
    <3>1. UNCHANGED marker \/ marker' = [marker EXCEPT ![p] = Unset]
      BY <2>1 DEF Passes, Spares, Unmark
    <3>2. \A s \in alone : marker'[s] # Unset => marker'[s] = marker[s]
      BY <1>0, <3>1
    <3> QED BY <1>4, <2>1, <3>2 DEF Passes, Spares
  <2>2. CASE SweepStarts \/ SweepEnds
    BY <1>4, <2>2 DEF SweepStarts, SweepEnds
  <2>3. ASSUME NEW p \in Panes, Checkpoints(p) \/ KillFails(p) PROVE LeftAlone'
    BY <1>4, <2>3 DEF Checkpoints, KillFails
  <2> QED BY <1>2, <1>3, <1>5, <2>1, <2>2, <2>3 DEF Sweeps, LeftAlone
<1>6. CASE Tick
  <2> SUFFICES ASSUME NEW s \in alone, marker'[s] # Unset PROVE AnswersOnly(s)'
    BY <1>6 DEF Tick, LeftAlone
  <2>1. /\ marker'[s] = Older(marker[s]) /\ ref'[s] = Older(ref[s]) /\ alive' = alive
        /\ turn[s] # "late" /\ turn'[s] = IF turn[s] = "nudge" THEN "late" ELSE turn[s]
    BY <1>0, <1>6 DEF Tick
  <2>2. marker[s] \in -1 .. Oldest /\ ref[s] \in 0 .. Oldest
    BY <1>0
  <2>3. marker[s] # Unset /\ AnswersOnly(s)
    BY <2>1 DEF Older, LeftAlone
  <2>4. marker'[s] <= marker[s] + 1 /\ marker'[s] - ref'[s] <= SLOP
    BY <1>0, <2>1, <2>2, <2>3 DEF Older, Unset, AnswersOnly
  <2> QED BY <2>1, <2>2, <2>3, <2>4 DEF AnswersOnly
<1>7. CASE UNCHANGED reapVars
  BY <1>7 DEF reapVars, LeftAlone, AnswersOnly
<1> QED BY <1>1, <1>5, <1>6, <1>7 DEF ReapNext, LeftAlone

\* A nudge resets the clock it is judged by, at most a tick and so the slop after it:
\* no agent is spared for its own answer, for any limits (overseer-reap.sh 198-213).
THEOREM AnswersAreNotHumans == ReapSpec => SparedForHumans
<1>1. ReapInit => LeftAlone
  BY DEF ReapInit, LeftAlone
<1>2. ReapTyped /\ LeftAlone /\ [ReapNext]_reapVars =>
        [\A p \in Panes : Spares(p) => p \notin alone]_reapVars
  <2> SUFFICES ASSUME ReapTyped, LeftAlone, NEW p \in Panes, Spares(p), p \in alone PROVE FALSE
    OBVIOUS
  <2>1. marker[p] # Unset /\ marker[p] - ref[p] > SLOP
    BY DEF Spares, Expired, Told, CameBack
  <2>2. marker[p] - ref[p] <= SLOP /\ marker[p] \in -1 .. Oldest /\ ref[p] \in 0 .. Oldest
    BY <2>1 DEF LeftAlone, AnswersOnly, ReapTyped, ReapTypeOK
  <2> QED BY <2>1, <2>2, OldestTyped
<1> QED BY <1>1, <1>2, ReapTypedInit, ReapTypedNext, LeftAloneNext, PTL
        DEF ReapSpec, SparedForHumans

-----------------------------------------------------------------------------
(* Reaper: with sweeps on time, every look at a pane comes a whole number   *)
(* of periods after the one that set its marker, and the look before the    *)
(* limit is in the warning window.                                          *)

\* The part of the limit that comes before the window, and up to which age the next
\* look is still to come.
Before == IDLE - LEAD
LookedUpTo(p) == IF p \in sweep.todo THEN Before + Period ELSE Before

OnGrid == \A p \in Panes :
  marker[p] # Unset => marker[p] >= LEAD \/ \E k \in Nat : marker[p] - due = k * Period
WarnedInTime(p) ==
  marker[p] >= LEAD \/ (marker[p] # Unset /\ ref[p] - marker[p] < Before + Period)
SeenIsWarned ==
  \A p \in alive \ (heir \cup missed) : ref[p] - due >= LookedUpTo(p) => WarnedInTime(p)

\* From the checkpoint on, whoever acts, the marker only gets older.
JudgedIsWarned ==
  sweep.at = "checkpoint" => \A p \in sweep.pane \ (heir \cup missed) : marker[p] >= LEAD
ClosedWasWarned == \A p \in Panes \ (heir \cup missed) : closed[p].marker >= LEAD

SweepOnTime ==
  /\ Sweeping => sweep.lag = due
  /\ sweep.at # "checkpoint" => sweep.pane = {}
  /\ sweep.at = "off" => sweep.todo = {}
Budgets == [humans : Nat, opens : Nat, faults : Nat, timely : BOOLEAN]
TimelyInv ==
  /\ budget \in Budgets
  /\ alive \subseteq registered /\ \A p \in alive : closed[p] = Open
  /\ budget.timely =>
       SweepOnTime /\ OnGrid /\ SeenIsWarned /\ JudgedIsWarned /\ ClosedWasWarned

LEMMA WholePeriods ==
  ASSUME NEW k \in Nat, k * Period > LEAD - Period
  PROVE  k * Period >= LEAD
<1>1. PICK n \in Nat : LEAD = n * Period
  BY LeadAssumption, OldestTyped
<1>2. CASE k >= n
  BY <1>1, <1>2, OldestTyped
<1>3. CASE k <= n - 1
  <2>1. k * Period <= (n - 1) * Period
    BY <1>3, OldestTyped
  <2>2. (n - 1) * Period = n * Period - Period
    BY OldestTyped
  <2> QED BY <1>1, <2>1, <2>2, OldestTyped
<1> QED BY <1>2, <1>3

LEMMA PeriodInLead == Period <= LEAD
<1>1. PICK n \in Nat : LEAD = n * Period
  BY LeadAssumption, OldestTyped
<1>2. n >= 1
  BY <1>1, OldestTyped
<1> QED BY <1>1, <1>2, OldestTyped

LEMMA UsesKeeps ==
  ASSUME budget \in Budgets, NEW what \in {"humans", "opens", "faults"}, Uses(what)
  PROVE  budget' \in Budgets /\ budget'.timely = budget.timely
BY DEF Uses, Budgets

\* Steps that change nothing a warning depends on.
LEMMA QuietTimely ==
  ASSUME TimelyInv, budget' \in Budgets, budget'.timely = budget.timely,
         UNCHANGED <<registered, ref, marker, sweep, due, missed, heir, closed>>,
         alive' \subseteq alive
  PROVE  TimelyInv'
BY DEF TimelyInv, SweepOnTime, OnGrid, SeenIsWarned, JudgedIsWarned, ClosedWasWarned, Sweeping,
       WarnedInTime, LookedUpTo

LEMMA ActsTimely == ASSUME ReapTyped, TimelyInv, NEW p \in Panes, Acts(p) PROVE TimelyInv'
<1>0. /\ UNCHANGED <<sweep, due, marker>> /\ due \in Nat /\ Before \in Nat \ {0} /\ budget \in Budgets
      /\ alive \subseteq Panes /\ ref \in [Panes -> 0 .. Oldest] /\ Period \in Nat
      /\ closed \in [Panes -> [marker : -1 .. Oldest, busy : BOOLEAN, kept : BOOLEAN]]
  BY OldestTyped DEF Acts, Engage, Turned, ToolUse, Ask, Finish, Exit, Opens, Keep, ReapTyped,
                     ReapTypeOK, Before, TimelyInv
<1>1. CASE Engage(p) \/ Finish(p) \/ Keep(p) \/ Ask(p) \/ Exit(p)
  <2>1. budget' \in Budgets /\ budget'.timely = budget.timely
    BY <1>0, <1>1, UsesKeeps DEF Engage, Turned, Finish, Keep, Ask, Exit, history
  <2> QED BY <1>1, <2>1, QuietTimely DEF Engage, Turned, Finish, Keep, Ask, Exit, history
<1>2. CASE ToolUse(p)
  <2>1. /\ p \in alive /\ ref' = [ref EXCEPT ![p] = 0] /\ missed' = missed \ ({p} \ sweep.pane)
        /\ UNCHANGED <<alive, registered, marker, sweep, due, budget, heir, closed>>
    BY <1>2 DEF ToolUse
  <2>2. alive' \subseteq registered' /\ \A s \in alive' : closed'[s] = Open
    BY <2>1 DEF TimelyInv
  <2> SUFFICES ASSUME budget.timely
               PROVE  (SweepOnTime /\ OnGrid /\ SeenIsWarned /\ JudgedIsWarned /\ ClosedWasWarned)'
    BY <1>0, <2>1, <2>2 DEF TimelyInv
  <2>3. SweepOnTime' /\ OnGrid'
    BY <2>1 DEF TimelyInv, SweepOnTime, OnGrid, Sweeping
  <2>4. SeenIsWarned'
    <3> SUFFICES ASSUME NEW s \in alive \ (heir \cup missed'), ref'[s] - due >= LookedUpTo(s)
                 PROVE  WarnedInTime(s)'
      BY <2>1 DEF SeenIsWarned, LookedUpTo
    <3>1. s # p
      BY <1>0, <2>1 DEF LookedUpTo
    <3>2. s \notin missed /\ ref'[s] = ref[s]
      BY <1>0, <2>1, <3>1
    <3> QED BY <2>1, <3>2 DEF TimelyInv, SeenIsWarned, WarnedInTime
  <2>5. JudgedIsWarned'
    BY <2>1 DEF TimelyInv, JudgedIsWarned
  <2>6. ClosedWasWarned'
    <3>1. closed[p].marker >= LEAD
      BY <2>1, OldestTyped DEF TimelyInv, Open
    <3> QED BY <2>1, <3>1 DEF TimelyInv, ClosedWasWarned
  <2> QED BY <2>3, <2>4, <2>5, <2>6
<1>3. CASE Opens(p)
  <2>1. /\ p \notin alive /\ alive' = alive \cup {p} /\ registered' = registered \cup {p}
        /\ missed' = missed \ {p} /\ closed' = [closed EXCEPT ![p] = Open]
        /\ \/ heir' = heir \cup {p} /\ (ref' = ref \/ ref' = [ref EXCEPT ![p] = 0])
           \/ /\ heir' = heir \ {p} /\ p \notin sweep.pane /\ ref' = [ref EXCEPT ![p] = 0]
        /\ UNCHANGED <<marker, sweep, due>>
    BY <1>3 DEF Opens
  <2>2. budget' \in Budgets /\ budget'.timely = budget.timely
    BY <1>0, <1>3, UsesKeeps DEF Opens
  <2>3. alive' \subseteq registered' /\ \A s \in alive' : closed'[s] = Open
    BY <1>0, <2>1 DEF TimelyInv
  <2> SUFFICES ASSUME budget.timely
               PROVE  (SweepOnTime /\ OnGrid /\ SeenIsWarned /\ JudgedIsWarned /\ ClosedWasWarned)'
    BY <2>2, <2>3 DEF TimelyInv
  <2>4. SweepOnTime' /\ OnGrid'
    BY <2>1 DEF TimelyInv, SweepOnTime, OnGrid, Sweeping
  <2>5. SeenIsWarned'
    <3> SUFFICES ASSUME NEW s \in alive' \ (heir' \cup missed'), ref'[s] - due >= LookedUpTo(s)
                 PROVE  WarnedInTime(s)'
      BY <2>1 DEF SeenIsWarned, LookedUpTo
    <3>1. s # p
      BY <1>0, <2>1 DEF LookedUpTo
    <3>2. s \in alive \ (heir \cup missed) /\ ref'[s] = ref[s]
      BY <1>0, <2>1, <3>1
    <3> QED BY <2>1, <3>2 DEF TimelyInv, SeenIsWarned, WarnedInTime
  <2>6. JudgedIsWarned'
    <3> SUFFICES ASSUME sweep.at = "checkpoint", NEW s \in sweep.pane \ (heir' \cup missed')
                 PROVE  marker[s] >= LEAD
      BY <2>1 DEF JudgedIsWarned
    <3>1. s # p
      BY <2>1
    <3> QED BY <2>1, <3>1 DEF TimelyInv, JudgedIsWarned
  <2>7. ClosedWasWarned'
    <3> SUFFICES ASSUME NEW s \in Panes \ (heir' \cup missed') PROVE closed'[s].marker >= LEAD
      BY DEF ClosedWasWarned
    <3>1. CASE s = p
      BY <1>0, <2>1, <3>1, OldestTyped DEF Open
    <3>2. CASE s # p
      BY <1>0, <2>1, <3>2 DEF TimelyInv, ClosedWasWarned
    <3> QED BY <3>1, <3>2
  <2> QED BY <2>4, <2>5, <2>6, <2>7
<1> QED BY <1>1, <1>2, <1>3 DEF Acts

LEMMA ReapSorts ==
  ASSUME ReapTyped
  PROVE  /\ sweep \in [at : {"off", "next", "checkpoint"}, todo : SUBSET Panes,
                       pane : SUBSET Panes, lag : Nat, slow : BOOLEAN]
         /\ marker \in [Panes -> -1 .. Oldest] /\ ref \in [Panes -> 0 .. Oldest]
         /\ due \in 0 .. Period /\ alive \subseteq Panes /\ registered \subseteq Panes
         /\ closed \in [Panes -> [marker : -1 .. Oldest, busy : BOOLEAN, kept : BOOLEAN]]
BY DEF ReapTyped, ReapTypeOK

\* Who has reached the limit, or the deadline of its warning, was warned LEAD ago.
LEMMA ExpiredIsWarned ==
  ASSUME ReapTyped, TimelyInv, budget.timely, sweep.at = "next",
         NEW p \in alive \ (heir \cup missed), p \in sweep.todo, Expired(p)
  PROVE  marker[p] >= LEAD
<1>1. /\ p \in Panes /\ marker[p] \in -1 .. Oldest /\ ref[p] \in Nat /\ due \in Nat
      /\ sweep.lag = due
  BY ReapSorts, OldestTyped DEF TimelyInv, SweepOnTime, Sweeping
<1>2. CASE Told(p)
  BY <1>1, <1>2, OldestTyped DEF Told, ToldFor
<1>3. CASE IdleFor(p) >= IDLE
  <2>1. ref[p] - due >= LookedUpTo(p)
    BY <1>1, <1>3, OldestTyped, PeriodInLead DEF IdleFor, LookedUpTo, Before
  <2>2. WarnedInTime(p)
    BY <2>1 DEF TimelyInv, SeenIsWarned
  <2>3. SUFFICES ASSUME marker[p] # Unset, ref[p] - marker[p] < Before + Period PROVE marker[p] >= LEAD
    BY <2>2 DEF WarnedInTime
  <2>4. marker[p] - due > LEAD - Period
    BY <1>1, <1>3, <2>3, OldestTyped DEF IdleFor, Before
  <2>5. SUFFICES ASSUME NEW k \in Nat, marker[p] - due = k * Period PROVE marker[p] >= LEAD
    BY <1>1, <2>3 DEF TimelyInv, OnGrid
  <2>6. k * Period >= LEAD
    BY <2>4, <2>5, WholePeriods
  <2>7. marker[p] - due >= LEAD
    BY <2>5, <2>6
  <2> QED BY <1>1, <2>7, OldestTyped
<1> QED BY <1>2, <1>3 DEF Expired

\* A pane is looked at, and no checkpoint comes of it.
LEMMA DoneTimely ==
  ASSUME ReapTyped, TimelyInv, NEW p \in Panes, sweep.at = "next", Done(p),
         UNCHANGED <<alive, registered, ref, due, heir, closed>>, missed \subseteq missed',
         budget' \in Budgets, budget'.timely = budget.timely,
         \A s \in Panes \ {p} : marker'[s] = marker[s],
         marker'[p] \in {Unset, marker[p], sweep.lag},
         budget.timely /\ p \in alive \ (heir \cup missed') /\ ref[p] - due >= Before => WarnedInTime(p)'
  PROVE  TimelyInv'
<1>0. /\ due \in Nat /\ Period \in Nat /\ \A s \in Panes : ref[s] \in Nat
      /\ alive \subseteq Panes /\ Before \in Int
  BY ReapSorts, OldestTyped DEF Before
<1>1. /\ sweep'.at = "next" /\ sweep'.todo = sweep.todo \ {p} /\ sweep'.lag = sweep.lag
      /\ sweep'.pane = sweep.pane
  BY ReapSorts, SweepTyped
<1> SUFFICES ASSUME budget.timely
             PROVE  (SweepOnTime /\ OnGrid /\ SeenIsWarned /\ JudgedIsWarned /\ ClosedWasWarned)'
  BY DEF TimelyInv
<1>2. SweepOnTime'
  BY <1>1 DEF TimelyInv, SweepOnTime, Sweeping
<1>3. OnGrid'
  <2> SUFFICES ASSUME NEW s \in Panes, marker'[s] # Unset
               PROVE  marker'[s] >= LEAD \/ \E k \in Nat : marker'[s] - due = k * Period
    BY DEF OnGrid
  <2>1. CASE marker'[s] = marker[s]
    BY <2>1 DEF TimelyInv, OnGrid
  <2>2. CASE marker'[s] = sweep.lag
    <3>1. marker'[s] - due = 0
      BY <1>0, <2>2 DEF TimelyInv, SweepOnTime, Sweeping
    <3> QED BY <1>0, <3>1
  <2> QED BY <2>1, <2>2
<1>4. SeenIsWarned'
  <2> SUFFICES ASSUME NEW s \in alive \ (heir \cup missed'), ref[s] - due >= LookedUpTo(s)'
               PROVE  WarnedInTime(s)'
    BY DEF SeenIsWarned, LookedUpTo
  <2>1. CASE s = p
    BY <1>1, <2>1 DEF LookedUpTo
  <2>2. CASE s # p
    <3>1. s \in Panes /\ s \notin missed /\ marker'[s] = marker[s] /\ LookedUpTo(s)' = LookedUpTo(s)
      BY <1>0, <1>1, <2>2 DEF LookedUpTo
    <3> QED BY <3>1 DEF TimelyInv, SeenIsWarned, WarnedInTime
  <2> QED BY <2>1, <2>2
<1>5. JudgedIsWarned' /\ ClosedWasWarned'
  BY <1>1 DEF TimelyInv, JudgedIsWarned, ClosedWasWarned
<1> QED BY <1>2, <1>3, <1>4, <1>5

LEMMA LooksTimely ==
  ASSUME ReapTyped, TimelyInv, NEW p \in Panes, Passes(p) \/ Spares(p) \/ Nudges(p)
  PROVE  TimelyInv'
<1>0. /\ sweep.at = "next" /\ p \in sweep.todo /\ Done(p) /\ due \in Nat /\ sweep.lag \in Nat
      /\ marker \in [Panes -> -1 .. Oldest] /\ ref[p] \in Nat /\ Period \in Nat
      /\ UNCHANGED <<alive, registered, ref, due, heir, closed>> /\ Before \in Int
      /\ budget.timely => sweep.lag = due
  BY ReapSorts, OldestTyped DEF Passes, Spares, Nudges, Look, agents, Before, TimelyInv, SweepOnTime, Sweeping
<1>1. InWindow(p) <=> ref[p] - sweep.lag >= Before
  BY DEF InWindow, IdleFor, Before
<1>2. ASSUME budget.timely, p \in alive \ (heir \cup missed), ref[p] - due >= Before + Period
      PROVE  WarnedInTime(p)
  BY <1>0, <1>2 DEF TimelyInv, SeenIsWarned, LookedUpTo
<1>3. CASE Passes(p)
  <2>1. /\ marker' = marker \/ marker' = [marker EXCEPT ![p] = Unset]
        /\ missed' = missed \cup {q \in {p} : InWindow(p) /\ ~(Waits(p) /\ marker[p] # Unset)}
        /\ p \in alive /\ Waits(p) => marker' = marker
        /\ budget' \in Budgets /\ budget'.timely = budget.timely
    BY <1>3 DEF Passes, Unmark, TimelyInv
  <2>2. ASSUME budget.timely, p \in alive \ (heir \cup missed'), ref[p] - due >= Before
        PROVE  WarnedInTime(p)'
    <3>1. /\ Waits(p) /\ marker[p] # Unset /\ marker' = marker /\ p \notin missed
      BY <1>0, <1>1, <2>1, <2>2
    <3>2. CASE ref[p] - due >= Before + Period
      BY <1>0, <1>2, <2>2, <3>1, <3>2 DEF WarnedInTime
    <3>3. CASE ref[p] - due < Before + Period
      <4>1. marker[p] >= LEAD \/ \E k \in Nat : marker[p] - due = k * Period
        BY <2>2, <3>1 DEF TimelyInv, OnGrid
      <4>2. ASSUME NEW k \in Nat, marker[p] - due = k * Period PROVE marker[p] >= due
        <5>1. k * Period \in Nat
          BY <1>0
        <5> QED BY <1>0, <4>2, <5>1
      <4>3. marker[p] >= LEAD \/ marker[p] >= due
        BY <4>1, <4>2
      <4>4. marker[p] \in Int /\ LEAD \in Int
        BY <1>0, OldestTyped
      <4> QED BY <1>0, <3>1, <3>3, <4>3, <4>4 DEF WarnedInTime
    <3> QED BY <1>0, <3>2, <3>3
  <2>3. marker'[p] \in {Unset, marker[p], sweep.lag} /\ \A s \in Panes \ {p} : marker'[s] = marker[s]
    BY <1>0, <2>1
  <2> QED BY <1>0, <2>1, <2>2, <2>3, DoneTimely
<1>4. CASE Spares(p)
  <2>1. /\ marker' = [marker EXCEPT ![p] = Unset] /\ budget' \in Budgets /\ budget'.timely = budget.timely
        /\ missed' = missed \cup {q \in {p} : InWindow(p)}
    BY <1>4 DEF Spares, Unmark, TimelyInv
  <2>2. ~(budget.timely /\ p \in alive \ (heir \cup missed') /\ ref[p] - due >= Before)
    BY <1>0, <1>1, <2>1
  <2>3. marker'[p] \in {Unset, marker[p], sweep.lag} /\ \A s \in Panes \ {p} : marker'[s] = marker[s]
    BY <1>0, <2>1
  <2> QED BY <1>0, <2>1, <2>2, <2>3, DoneTimely
<1>5. CASE Nudges(p)
  <2>1. /\ marker[p] = Unset /\ marker' = [marker EXCEPT ![p] = sweep.lag] /\ missed' = missed
    BY <1>5 DEF Nudges, Nudgeable
  <2>2. ASSUME budget.timely, p \in alive \ (heir \cup missed'), ref[p] - due >= Before
        PROVE  WarnedInTime(p)'
    <3>1. ~WarnedInTime(p)
      BY <2>1, OldestTyped DEF WarnedInTime, Unset
    <3>2. ref[p] - due < Before + Period
      BY <1>0, <1>2, <2>1, <2>2, <3>1
    <3>3. marker'[p] = due /\ due # Unset
      BY <1>0, <2>1, <2>2 DEF Unset
    <3> QED BY <1>0, <3>2, <3>3 DEF WarnedInTime
  <2>3. marker'[p] \in {Unset, marker[p], sweep.lag} /\ \A s \in Panes \ {p} : marker'[s] = marker[s]
    BY <1>0, <2>1
  <2>4. budget' \in Budgets /\ budget'.timely = budget.timely
    BY <1>5, UsesKeeps DEF Nudges, TimelyInv
  <2> QED BY <1>0, <2>1, <2>2, <2>3, <2>4, DoneTimely
<1> QED BY <1>3, <1>4, <1>5

LEMMA CheckpointTimely ==
  ASSUME ReapTyped, TimelyInv, NEW p \in Panes, Checkpoints(p)
  PROVE  TimelyInv'
<1>1. /\ sweep.at = "next" /\ p \in sweep.todo /\ p \in alive /\ Expired(p)
      /\ UNCHANGED <<alive, registered, ref, marker, due, budget, missed, heir, closed>>
      /\ sweep'.at = "checkpoint" /\ sweep'.pane = {p} /\ sweep'.todo = sweep.todo \ {p}
      /\ sweep'.lag = sweep.lag
  BY ReapSorts DEF Checkpoints, Look, Waits, Watched, agents
<1> SUFFICES ASSUME budget.timely
             PROVE  (SweepOnTime /\ OnGrid /\ SeenIsWarned /\ JudgedIsWarned /\ ClosedWasWarned)'
  BY <1>1 DEF TimelyInv
<1>2. p \notin heir \cup missed => marker[p] >= LEAD
  BY <1>1, ExpiredIsWarned
<1>3. SweepOnTime' /\ OnGrid' /\ ClosedWasWarned'
  BY <1>1 DEF TimelyInv, SweepOnTime, OnGrid, ClosedWasWarned, Sweeping
<1>4. JudgedIsWarned'
  BY <1>1, <1>2 DEF JudgedIsWarned
<1>5. SeenIsWarned'
  <2> SUFFICES ASSUME NEW s \in alive \ (heir \cup missed), ref[s] - due >= LookedUpTo(s)'
               PROVE  WarnedInTime(s)
    BY <1>1 DEF SeenIsWarned, LookedUpTo, WarnedInTime
  <2>1. CASE s = p
    BY <1>2, <2>1 DEF WarnedInTime
  <2>2. CASE s # p
    BY <1>1, <2>2 DEF TimelyInv, SeenIsWarned, LookedUpTo
  <2> QED BY <2>1, <2>2
<1> QED BY <1>3, <1>4, <1>5

LEMMA ClosesTimely ==
  ASSUME ReapTyped, TimelyInv, NEW p \in Panes, Closes(p) \/ KillFails(p)
  PROVE  TimelyInv'
<1>1. /\ sweep.at = "checkpoint" /\ sweep.pane = {p} /\ sweep'.at = "next" /\ sweep'.pane = {}
      /\ sweep'.todo = sweep.todo /\ sweep'.lag = sweep.lag
      /\ UNCHANGED <<ref, due, missed, heir>>
  BY ReapSorts DEF Closes, KillFails, Onwards, agents, history
<1>2. CASE Closes(p)
  <2>1. /\ alive' = alive \ {p} /\ registered' = registered \ {p} /\ UNCHANGED budget
        /\ marker' = [marker EXCEPT ![p] = Unset]
        /\ closed' = [closed EXCEPT ![p] =
             [marker |-> marker[p], busy |-> turn[p] = "human", kept |-> p \in kept]]
    BY <1>2 DEF Closes, Unmark
  <2>2. /\ \A s \in Panes \ {p} : marker'[s] = marker[s] /\ closed'[s] = closed[s]
        /\ marker'[p] = Unset /\ closed'[p].marker = marker[p]
    BY <2>1, ReapSorts
  <2>3. alive' \subseteq registered' /\ \A s \in alive' : closed'[s] = Open
    BY <2>1, <2>2, ReapSorts DEF TimelyInv
  <2> SUFFICES ASSUME budget.timely
               PROVE  (SweepOnTime /\ OnGrid /\ SeenIsWarned /\ JudgedIsWarned /\ ClosedWasWarned)'
    BY <2>1, <2>3 DEF TimelyInv
  <2>4. SweepOnTime' /\ JudgedIsWarned'
    BY <1>1 DEF TimelyInv, SweepOnTime, JudgedIsWarned, Sweeping
  <2>5. OnGrid'
    BY <1>1, <2>2 DEF TimelyInv, OnGrid
  <2>6. SeenIsWarned'
    BY <1>1, <2>1, <2>2, ReapSorts DEF TimelyInv, SeenIsWarned, WarnedInTime, LookedUpTo
  <2>7. ClosedWasWarned'
    BY <1>1, <2>2 DEF TimelyInv, ClosedWasWarned, JudgedIsWarned
  <2> QED BY <2>4, <2>5, <2>6, <2>7
<1>3. CASE KillFails(p)
  <2>1. UNCHANGED <<alive, registered, marker, closed>>
    BY <1>3 DEF KillFails, agents, history
  <2>2. budget' \in Budgets /\ budget'.timely = budget.timely
    BY <1>3, UsesKeeps DEF KillFails, TimelyInv
  <2> QED BY <1>1, <2>1, <2>2 DEF TimelyInv, SweepOnTime, OnGrid, SeenIsWarned, JudgedIsWarned,
             ClosedWasWarned, Sweeping, WarnedInTime, LookedUpTo
<1> QED BY <1>2, <1>3

LEMMA BoundsTimely == ASSUME ReapTyped, TimelyInv, SweepStarts \/ SweepEnds PROVE TimelyInv'
<1>1. UNCHANGED <<alive, registered, ref, marker, budget, missed, heir, closed>>
  BY DEF SweepStarts, SweepEnds, agents, history
<1> SUFFICES ASSUME budget.timely
             PROVE  (SweepOnTime /\ OnGrid /\ SeenIsWarned /\ JudgedIsWarned /\ ClosedWasWarned)'
  BY <1>1 DEF TimelyInv
<1>2. /\ Period \in Nat /\ Before \in Int /\ due \in 0 .. Period
      /\ \A s \in Panes : ref[s] \in Nat /\ marker[s] \in Int
  BY ReapSorts, OldestTyped DEF Before
<1>3. sweep'.at # "checkpoint"
  <2>1. CASE SweepStarts
    BY <2>1 DEF SweepStarts, Off
  <2>2. CASE SweepEnds
    BY <2>2 DEF SweepEnds, Off
  <2> QED BY <2>1, <2>2
<1>4. JudgedIsWarned' /\ ClosedWasWarned'
  BY <1>1, <1>3 DEF TimelyInv, JudgedIsWarned, ClosedWasWarned
<1>5. CASE SweepStarts
  <2>1. /\ sweep.at = "off" /\ sweep.todo = {} /\ due = Period /\ due' = 0
        /\ sweep'.at = "next" /\ sweep'.todo = registered /\ sweep'.pane = {} /\ sweep'.lag = 0
    BY <1>2, <1>5 DEF SweepStarts, Sweeping, Off, TimelyInv, SweepOnTime
  <2>2. SweepOnTime'
    BY <2>1 DEF SweepOnTime, Sweeping
  <2>3. OnGrid'
    <3> SUFFICES ASSUME NEW s \in Panes, marker[s] # Unset, ~(marker[s] >= LEAD)
                 PROVE  \E k \in Nat : marker[s] - due' = k * Period
      BY <1>1 DEF OnGrid
    <3>1. PICK k \in Nat : marker[s] - Period = k * Period
      BY <2>1 DEF TimelyInv, OnGrid
    <3>2. marker[s] - due' = (k + 1) * Period
      BY <1>2, <2>1, <3>1
    <3> QED BY <3>2
  <2>4. SeenIsWarned'
    <3> SUFFICES ASSUME NEW s \in alive \ (heir \cup missed), ref[s] - 0 >= LookedUpTo(s)'
                 PROVE  WarnedInTime(s)
      BY <1>1, <2>1 DEF SeenIsWarned, WarnedInTime
    <3>1. s \in Panes /\ LookedUpTo(s)' = Before + Period /\ LookedUpTo(s) = Before
      BY <2>1, ReapSorts DEF LookedUpTo, TimelyInv
    <3>2. ref[s] - due >= LookedUpTo(s)
      BY <1>2, <2>1, <3>1
    <3> QED BY <3>2 DEF TimelyInv, SeenIsWarned
  <2> QED BY <1>4, <2>2, <2>3, <2>4
<1>6. CASE SweepEnds
  <2>1. /\ sweep.todo = {} /\ sweep'.todo = {} /\ sweep'.pane = {} /\ sweep'.at = "off"
        /\ UNCHANGED due
    BY <1>6 DEF SweepEnds, Off
  <2> QED BY <1>1, <1>4, <2>1 DEF TimelyInv, SweepOnTime, OnGrid, SeenIsWarned, Sweeping, WarnedInTime,
             LookedUpTo
<1> QED BY <1>5, <1>6

LEMMA TickTimely == ASSUME ReapTyped, TimelyInv, Tick PROVE TimelyInv'
<1>1. UNCHANGED <<alive, registered, budget, missed, heir, closed>>
  BY DEF Tick, history
<1> SUFFICES ASSUME budget.timely
             PROVE  (SweepOnTime /\ OnGrid /\ SeenIsWarned /\ JudgedIsWarned /\ ClosedWasWarned)'
  BY <1>1 DEF TimelyInv
<1>2. /\ Period \in Nat /\ Before \in Int /\ due \in Nat /\ due' = due + 1 /\ LEAD < Oldest
      /\ LEAD \in Nat /\ Oldest \in Nat
  BY ReapSorts, OldestTyped DEF Before, Tick
<1>3. \A s \in Panes : /\ ref[s] \in 0 .. Oldest /\ ref'[s] = Older(ref[s])
                       /\ marker[s] \in -1 .. Oldest /\ marker'[s] = Older(marker[s])
  BY ReapSorts DEF Tick
<1>4. /\ sweep'.at = sweep.at /\ sweep'.pane = sweep.pane /\ sweep'.todo = sweep.todo
      /\ sweep'.lag = IF Sweeping THEN sweep.lag + 1 ELSE sweep.lag
  BY ReapSorts DEF Tick, Sweeping
<1>5. \A s \in Panes : /\ marker[s] >= LEAD => marker'[s] >= LEAD
                       /\ marker'[s] # Unset => marker[s] # Unset
                       /\ marker[s] # Unset /\ marker[s] < LEAD => marker'[s] = marker[s] + 1
                       /\ ref'[s] <= ref[s] + 1 /\ ref'[s] \in Nat
  BY <1>2, <1>3 DEF Older, Unset
<1>6. SweepOnTime'
  BY <1>2, <1>4 DEF TimelyInv, SweepOnTime, Sweeping
<1>7. OnGrid'
  <2> SUFFICES ASSUME NEW s \in Panes, marker'[s] # Unset, ~(marker'[s] >= LEAD)
               PROVE  \E k \in Nat : marker'[s] - due' = k * Period
    BY DEF OnGrid
  <2>1. marker[s] # Unset /\ marker[s] < LEAD /\ marker'[s] = marker[s] + 1
    BY <1>2, <1>3, <1>5
  <2>2. PICK k \in Nat : marker[s] - due = k * Period
    BY <1>2, <1>3, <2>1 DEF TimelyInv, OnGrid
  <2>3. marker'[s] - due' = marker[s] - due
    BY <1>2, <1>3, <2>1
  <2> QED BY <2>2, <2>3
<1>8. SeenIsWarned'
  <2> SUFFICES ASSUME NEW s \in alive \ (heir \cup missed), ref'[s] - due' >= LookedUpTo(s)
               PROVE  WarnedInTime(s)'
    BY <1>1, <1>4 DEF SeenIsWarned, LookedUpTo
  <2>1. s \in Panes /\ ref[s] \in Nat /\ marker[s] \in Int
    BY <1>2, <1>3, ReapSorts
  <2>2. LookedUpTo(s) \in Int
    BY <1>2 DEF LookedUpTo
  <2>3. ref[s] - due >= LookedUpTo(s)
    BY <1>2, <1>5, <2>1, <2>2
  <2>4. WarnedInTime(s)
    BY <2>3 DEF TimelyInv, SeenIsWarned
  <2>5. CASE marker[s] >= LEAD
    BY <1>5, <2>1, <2>5 DEF WarnedInTime
  <2>6. CASE marker[s] < LEAD
    <3>1. marker[s] # Unset /\ ref[s] - marker[s] < Before + Period
      BY <1>2, <2>1, <2>4, <2>6 DEF WarnedInTime
    <3>2. marker'[s] = marker[s] + 1 /\ marker[s] >= 0 /\ ref'[s] <= ref[s] + 1 /\ ref'[s] \in Nat
      BY <1>3, <1>5, <2>1, <2>6, <3>1 DEF Unset
    <3> QED BY <1>2, <2>1, <3>1, <3>2 DEF WarnedInTime, Unset
  <2> QED BY <1>2, <2>1, <2>5, <2>6
<1>9. JudgedIsWarned' /\ ClosedWasWarned'
  BY <1>1, <1>4, <1>5, ReapSorts DEF TimelyInv, JudgedIsWarned, ClosedWasWarned
<1> QED BY <1>6, <1>7, <1>8, <1>9

LEMMA TimelyInit == ReapInit => TimelyInv
<1> SUFFICES ASSUME ReapInit PROVE TimelyInv
  OBVIOUS
<1>1. /\ budget \in Budgets /\ alive \subseteq Panes /\ registered = alive /\ due = 0
      /\ \A p \in Panes : closed[p] = Open /\ ref[p] = 0 /\ marker[p] = Unset
      /\ sweep.at = "off" /\ sweep.todo = {} /\ sweep.pane = {}
  BY ReaperAssumption DEF ReapInit, Budgets, Off
<1>2. SeenIsWarned
  BY <1>1, OldestTyped DEF SeenIsWarned, LookedUpTo, Before
<1>3. ClosedWasWarned
  BY <1>1, OldestTyped DEF ClosedWasWarned, Open
<1> QED BY <1>1, <1>2, <1>3 DEF TimelyInv, SweepOnTime, OnGrid, JudgedIsWarned, Sweeping

LEMMA TimelyNext == ReapTyped /\ TimelyInv /\ [ReapNext]_reapVars => TimelyInv'
<1> SUFFICES ASSUME ReapTyped, TimelyInv, [ReapNext]_reapVars PROVE TimelyInv'
  OBVIOUS
<1>1. CASE UNCHANGED reapVars
  BY <1>1, QuietTimely DEF reapVars, agents, history, TimelyInv
<1>2. CASE Sweeps
  BY <1>2, BoundsTimely, LooksTimely, CheckpointTimely, ClosesTimely DEF Sweeps
<1> QED BY <1>1, <1>2, ActsTimely, TickTimely DEF ReapNext

\* With a timer that is on time, and a warning that is a whole number of its periods,
\* nobody is closed less than LEAD after a warning, however checkpoints delay a sweep
\* and whatever agents and humans do: but for those whose look in the window found
\* them not ready, and those who found the files of another (overseer-reap.sh 7-22,
\* 195-236).
THEOREM NobodyClosedUnwarned == ReapSpec => []WarnedBeforeClosed
<1>1. TimelyInv => WarnedBeforeClosed
  BY DEF TimelyInv, ClosedWasWarned, WarnedBeforeClosed
<1> QED BY <1>1, ReapTypedInit, ReapTypedNext, TimelyInit, TimelyNext, PTL DEF ReapSpec
=============================================================================
