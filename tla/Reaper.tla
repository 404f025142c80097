------------------------------- MODULE Reaper -------------------------------
(***************************************************************************)
(* overseer-reap.sh under herdr: every Period a sweep goes through the     *)
(* registry, nudges the agents that are about to count as idle to save     *)
(* what they know, and closes those that are, after a checkpoint.  Time is *)
(* in ticks; a checkpoint, and an agent's answer to the nudge, take less   *)
(* than one.  A sweep reads the clock once, when it starts.                *)
(*                                                                         *)
(* The options of a pane (@last_tool, @keep) and its marker are files      *)
(* named by the pane: who opens in a pane used before inherits them.       *)
(***************************************************************************)
EXTENDS Integers, Herdr

CONSTANTS
  IDLE, LEAD, SLOP,  \* REAP_IDLE_SECS, PREREAP_LEAD_SECS, PREREAP_ACTIVITY_SLOP
  Period,            \* between the starts of two sweeps
  Limits             \* how often humans act, panes are opened, a kill fails;
                     \* and whether the timer is on time

ASSUME ReaperAssumption ==
  /\ {IDLE, LEAD, SLOP, Period} \subseteq Nat \ {0} /\ LEAD < IDLE
  /\ Limits \subseteq [humans : Nat, opens : Nat, faults : Nat, timely : BOOLEAN]

\* The timers start a sweep every 900 seconds, PREREAP_LEAD_SECS being 900.
ASSUME LeadAssumption == \E n \in 1 .. LEAD : LEAD = n * Period

VARIABLES
  alive,      \* panes with an agent in them
  registered, \* panes with a registry entry
  turn,       \* what each agent does: nothing, a turn of a human's (or waits in it
              \* for an answer), or the answer to a nudge
  waiting,    \* @waiting: "0" at work, "1" at a prompt, "2" finished
  ref,        \* the age of @last_tool or, if it has none, of the entry (AT)
  tooled,     \* panes with a @last_tool
  kept,       \* panes with @keep or @cohort
  marker,     \* the age of the epoch in the pre-reap marker, Unset without one
  sweep, due, \* what the sweep is at; ticks since it started
  budget,     \* what is left of the limits
  unseen,     \* history: panes whose human has turned to them, no tool called since
  meanwhile,  \* history: panes something happened to since their checkpoint began
  alone,      \* history: panes nudged on time that no human turned to since
  missed,     \* history: panes seen in the warning window, and not ready for it
  heir,       \* history: panes whose agent found the files of another, or its verdict
  closed      \* history: what can be said against each close of the reaper

agents == <<alive, registered, turn, waiting, ref, tooled, kept>>
history == <<unseen, meanwhile, alone, missed, heir, closed>>
reapVars == <<agents, marker, sweep, due, budget, history>>

Unset == -1
Off == [at |-> "off", todo |-> {}, pane |-> {}, lag |-> 0, slow |-> FALSE]

\* Ages are counted as far as they are told apart.
Oldest == IDLE + SLOP + Cardinality(Panes) + 1
Open == [marker |-> Oldest, busy |-> FALSE, kept |-> FALSE]
Older(n) == IF n = Unset \/ n = Oldest THEN n ELSE n + 1

Uses(what) == budget[what] > 0 /\ budget' = [budget EXCEPT ![what] = @ - 1]

-----------------------------------------------------------------------------
(* The agents and their hooks.                                             *)

\* A human types into the pane, or answers its prompt.
Turned(p) ==
  /\ Uses("humans") /\ unseen' = unseen \cup {p} /\ alone' = alone \ {p}
  /\ meanwhile' = meanwhile \cup {p}
Engage(p) ==
  /\ p \in alive /\ turn[p] \in {"none", "asking"} /\ Turned(p)
  /\ turn' = [turn EXCEPT ![p] = "human"]
  /\ UNCHANGED <<alive, registered, waiting, ref, tooled, kept, marker, sweep, due,
                 missed, heir, closed>>

\* PreToolUse: report-state working, with the time.
ToolUse(p) ==
  /\ p \in alive /\ turn[p] \in {"human", "nudge", "late"}
  /\ waiting' = [waiting EXCEPT ![p] = "0"] /\ ref' = [ref EXCEPT ![p] = 0]
  /\ tooled' = tooled \cup {p} /\ unseen' = unseen \ {p}
  /\ missed' = missed \ ({p} \ sweep.pane) /\ meanwhile' = meanwhile \cup {p}
  /\ UNCHANGED <<alive, registered, turn, kept, marker, sweep, due, budget, alone, heir,
                 closed>>

\* Notification: the call asks for permission.
Ask(p) ==
  /\ p \in alive /\ turn[p] = "human" /\ waiting[p] = "0"
  /\ waiting' = [waiting EXCEPT ![p] = "1"] /\ turn' = [turn EXCEPT ![p] = "asking"]
  /\ UNCHANGED <<alive, registered, ref, tooled, kept, marker, sweep, due, budget, history>>

\* Stop: report-state idle.
Finish(p) ==
  /\ p \in alive /\ turn[p] \in {"human", "nudge", "late"}
  /\ turn' = [turn EXCEPT ![p] = "none"] /\ waiting' = [waiting EXCEPT ![p] = "2"]
  /\ unseen' = unseen \ {p}
  /\ UNCHANGED <<alive, registered, ref, tooled, kept, marker, sweep, due, budget,
                 meanwhile, alone, missed, heir, closed>>

\* herdr tells nobody that a pane is gone.
Exit(p) ==
  /\ p \in alive /\ Uses("humans")
  /\ alive' = alive \ {p} /\ turn' = [turn EXCEPT ![p] = "none"]
  /\ unseen' = unseen \ {p} /\ meanwhile' = meanwhile \cup {p} /\ alone' = alone \ {p}
  /\ UNCHANGED <<registered, waiting, ref, tooled, kept, marker, sweep, due, missed,
                 heir, closed>>

\* open-claude.sh: pane ids are used again, and the files of the pane with them.
Opens(p) ==
  /\ p \notin alive /\ Uses("opens")
  /\ alive' = alive \cup {p} /\ registered' = registered \cup {p}
  /\ waiting' = [waiting EXCEPT ![p] = "2"]
  /\ ref' = IF p \in tooled THEN ref ELSE [ref EXCEPT ![p] = 0]
  /\ heir' = IF p \in tooled \cup kept \cup sweep.pane \/ marker[p] # Unset
             THEN heir \cup {p} ELSE heir \ {p}
  /\ missed' = missed \ {p} /\ closed' = [closed EXCEPT ![p] = Open]
  /\ meanwhile' = meanwhile \cup {p}
  /\ UNCHANGED <<turn, tooled, kept, marker, sweep, due, unseen, alone>>

\* agent-keep.sh, agent-cohort.sh.
Keep(p) ==
  /\ p \in alive /\ Uses("humans")
  /\ kept' = IF p \in kept THEN kept \ {p} ELSE kept \cup {p}
  /\ meanwhile' = meanwhile \cup {p}
  /\ UNCHANGED <<alive, registered, turn, waiting, ref, tooled, marker, sweep, due,
                 unseen, alone, missed, heir, closed>>

-----------------------------------------------------------------------------
(* The sweep.                                                              *)

Sweeping == sweep.at # "off"

SweepStarts ==
  /\ ~Sweeping /\ due >= Period
  /\ sweep' = [Off EXCEPT !.at = "next", !.todo = registered] /\ due' = 0
  /\ UNCHANGED <<agents, marker, budget, history>>

SweepEnds ==
  /\ sweep.at = "next" /\ sweep.todo = {} /\ sweep' = Off
  /\ UNCHANGED <<agents, marker, due, budget, history>>

\* By the clock of the sweep.
IdleFor(p) == ref[p] - sweep.lag
ToldFor(p) == marker[p] - sweep.lag
Told(p) == marker[p] # Unset /\ ToldFor(p) >= LEAD
CameBack_Any(p) == marker[p] > ref[p]   \* (bug: the answer to the nudge counts)
CameBack(p) == marker[p] - ref[p] > SLOP

InWindow_Open(p) == IdleFor(p) > IDLE - LEAD   \* (bug: off by one)
InWindow(p) == IdleFor(p) >= IDLE - LEAD
Expired(p) == IdleFor(p) >= IDLE \/ (Told(p) /\ ~CameBack(p))

\* The file f of the loop; what a sweep sees of its agent.
Look(p) == sweep.at = "next" /\ p \in sweep.todo
Done(p) == sweep' = [sweep EXCEPT !.todo = @ \ {p}]
\* (bug: no fallback to AT)
Watched_Tooled(p) == p \in (registered \cap alive \cap tooled) \ kept
Watched(p) == p \in (registered \cap alive) \ kept
Waits_Any(p) == Watched(p)   \* (bug: agents at work are not skipped)
Waits(p) == Watched(p) /\ waiting[p] # "0"
Nudgeable(p) == Waits(p) /\ waiting[p] = "2" /\ marker[p] = Unset /\ InWindow(p)

Unmark(p) == marker' = [marker EXCEPT ![p] = Unset]

\* Nothing to do, or not yet: the marker of a pane that is dead, or at work, goes.
Passes(p) ==
  /\ Look(p) /\ Done(p) /\ ~(Waits(p) /\ (Expired(p) \/ Told(p))) /\ ~Nudgeable(p)
  /\ IF p \in registered \ alive \/ (Watched(p) /\ ~Waits(p))
     THEN Unmark(p) ELSE UNCHANGED marker
  /\ missed' = missed \cup {q \in {p} : InWindow(p) /\ ~(Waits(p) /\ marker[p] # Unset)}
  /\ UNCHANGED <<agents, due, budget, unseen, meanwhile, alone, heir, closed>>

\* "a human came back after the warning - spare it"
Spares(p) ==
  /\ Look(p) /\ Done(p) /\ Waits(p) /\ ~Expired(p) /\ Told(p) /\ Unmark(p)
  /\ missed' = missed \cup {q \in {p} : InWindow(p)}
  /\ UNCHANGED <<agents, due, budget, unseen, meanwhile, alone, heir, closed>>

\* The nudge is typed, if it can be, and an agent at its prompt answers.
Nudges(p) ==
  /\ Look(p) /\ Done(p) /\ Nudgeable(p) /\ ~Expired(p)
  /\ marker' = [marker EXCEPT ![p] = sweep.lag]
  /\ \/ turn' = [turn EXCEPT ![p] = IF @ = "none" THEN "nudge" ELSE @] /\ UNCHANGED budget
     \/ Uses("faults") /\ UNCHANGED turn
  /\ alone' = IF sweep.lag = 0 /\ turn[p] = "none" THEN alone \cup {p} ELSE alone \ {p}
  /\ UNCHANGED <<alive, registered, waiting, ref, tooled, kept, due, unseen, meanwhile,
                 missed, heir, closed>>

\* "candidate": the last checkpoint, over its transcript, in the foreground.
Checkpoints(p) ==
  /\ Look(p) /\ Waits(p) /\ Expired(p)
  /\ sweep' = [sweep EXCEPT !.at = "checkpoint", !.pane = {p}, !.todo = @ \ {p}, !.slow = FALSE]
  /\ meanwhile' = meanwhile \ {p}
  /\ UNCHANGED <<agents, marker, due, budget, unseen, alone, missed, heir, closed>>

\* kill, deregister; whatever is in the pane by now.
Onwards == [sweep EXCEPT !.at = "next", !.pane = {}]
Closes(p) ==
  /\ sweep.at = "checkpoint" /\ sweep.pane = {p} /\ sweep' = Onwards
  /\ p \in alive /\ alive' = alive \ {p} /\ registered' = registered \ {p} /\ Unmark(p)
  /\ turn' = [turn EXCEPT ![p] = "none"]
  /\ closed' = [closed EXCEPT ![p] =
       [marker |-> marker[p], busy |-> turn[p] = "human", kept |-> p \in kept]]
  /\ UNCHANGED <<waiting, ref, tooled, kept, due, budget, unseen, meanwhile, alone,
                 missed, heir>>

KillFails(p) ==
  /\ sweep.at = "checkpoint" /\ sweep.pane = {p} /\ sweep' = Onwards
  /\ (p \notin alive /\ UNCHANGED budget) \/ Uses("faults")
  /\ UNCHANGED <<agents, marker, due, history>>

-----------------------------------------------------------------------------
(* Time.                                                                   *)

\* A timer that is late is one whose machine was asleep.
Tick ==
  /\ budget.timely => due < Period
  /\ sweep.at = "off" \/ (sweep.at = "checkpoint" /\ ~sweep.slow)
  /\ \A p \in Panes : turn[p] # "late"
  /\ turn' = [p \in Panes |-> IF turn[p] = "nudge" THEN "late" ELSE turn[p]]
  /\ ref' = [p \in Panes |-> Older(ref[p])] /\ marker' = [p \in Panes |-> Older(marker[p])]
  /\ due' = IF due < Period THEN due + 1 ELSE due
  /\ sweep' = IF Sweeping THEN [sweep EXCEPT !.lag = @ + 1, !.slow = TRUE] ELSE sweep
  /\ UNCHANGED <<alive, registered, waiting, tooled, kept, budget, history>>

ReapInit ==
  /\ budget \in Limits
  /\ alive \in SUBSET Panes /\ registered = alive /\ kept = {} /\ tooled = {}
  /\ turn = [p \in Panes |-> "none"] /\ waiting = [p \in Panes |-> "2"]
  /\ ref = [p \in Panes |-> 0] /\ marker = [p \in Panes |-> Unset]
  /\ sweep = Off /\ due = 0
  /\ unseen = {} /\ meanwhile = {} /\ alone = {} /\ missed = {} /\ heir = {}
  /\ closed = [p \in Panes |-> Open]

Acts(p) ==
  Engage(p) \/ ToolUse(p) \/ Ask(p) \/ Finish(p) \/ Exit(p) \/ Opens(p) \/ Keep(p)
Sweeps ==
  \/ SweepStarts \/ SweepEnds
  \/ \E p \in Panes :
       Passes(p) \/ Spares(p) \/ Nudges(p) \/ Checkpoints(p) \/ Closes(p) \/ KillFails(p)
ReapNext == (\E p \in Panes : Acts(p)) \/ Sweeps \/ Tick

\* The clock goes on, sweeps run, and turns end; nothing is assumed of humans.
ReapSpec ==
  /\ ReapInit /\ [][ReapNext]_reapVars /\ WF_reapVars(Tick) /\ WF_reapVars(Sweeps)
  /\ \A p \in Panes : WF_reapVars(Finish(p))

-----------------------------------------------------------------------------
(* Properties.                                                             *)

ReapTypeOK ==
  /\ alive \subseteq Panes /\ registered \subseteq Panes
  /\ tooled \subseteq Panes /\ kept \subseteq Panes
  /\ turn \in [Panes -> {"none", "human", "asking", "nudge", "late"}]
  /\ waiting \in [Panes -> {"0", "1", "2"}]
  /\ ref \in [Panes -> 0 .. Oldest] /\ marker \in [Panes -> -1 .. Oldest]
  /\ sweep \in [at : {"off", "next", "checkpoint"}, todo : SUBSET Panes, pane : SUBSET Panes,
                lag : Nat, slow : BOOLEAN]
  /\ due \in 0 .. Period
  /\ unseen \subseteq Panes /\ meanwhile \subseteq Panes /\ alone \subseteq Panes
  /\ missed \subseteq Panes /\ heir \subseteq Panes
  /\ closed \in [Panes -> [marker : -1 .. Oldest, busy : BOOLEAN, kept : BOOLEAN]]

\* "15 min before the reap deadline, the reaper nudges the still-live agent": with
\* sweeps that start on time, an agent that is closed was marked LEAD ago or more,
\* unless the sweep that looked in its window found it busy, at a prompt or kept, or
\* spared it for an older warning.
WarnedBeforeClosed ==
  budget.timely =>
    \A p \in Panes \ (heir \cup missed) : closed[p].marker >= LEAD

\* "Skips actively-working agents", "NEVER reaps a window tagged @keep": an agent
\* closed in a human's turn, or kept, was so only since the sweep judged it, or has
\* not called a tool in that turn.
ClosedWasJudged ==
  \A p \in Panes : /\ closed[p].kept => p \in meanwhile
                   /\ closed[p].busy => p \in meanwhile \cup unseen

\* "@last_tool advancing > this past the nudge = a human came back": an agent that
\* was nudged when the sweep started, and answers within the slop, is not spared for it.
SparedForHumans ==
  [][\A p \in Panes : Spares(p) => p \notin alone]_reapVars

\* The nudge resets the clock it is judged by, but makes no agent immortal.
IdleAreClosed == \A p \in Panes : p \in alive \cap registered ~> p \notin alive \/ p \in kept
=============================================================================
