------------------------------ MODULE Watchdog ------------------------------
(***************************************************************************)
(* automode-watchdog: when Claude Code's auto mode denies a tool call      *)
(* because its classifier gave no verdict, the pane is cycled to Manual    *)
(* mode (back-tab after back-tab, reading the footer) and cycled back when *)
(* it is idle, or after a cap.  A loop that polls the transcripts and the  *)
(* hooks of the agents do the same work, each in a process of its own, on  *)
(* one state file under one lock.                                          *)
(*                                                                         *)
(* A press, with the look at the footer before it, is one step; agents,    *)
(* humans and hooks go on between two of them.  Every pane is registered,  *)
(* and SessionStart has recorded its transcript; AUTOFIX is on.            *)
(***************************************************************************)
EXTENDS Naturals, Sequences

CONSTANTS
  Panes, First,      \* the panes, and one of them
  Hooks,             \* the hook processes that run at a time
  Ring,              \* the modes, in the order a back-tab goes through them
  Start,             \* the mode of a new session
  MAX_CYCLES, THRESHOLD,
  Sessions,          \* numbered backwards, from what is left of them
  Bounds             \* how many sessions, denials and faults there may be

Modes == {Ring[i] : i \in DOMAIN Ring}

ASSUME WatchdogAssumption ==
  /\ Ring \in Seq(STRING) /\ \A i, j \in DOMAIN Ring : Ring[i] = Ring[j] => i = j
  /\ {"auto", "manual", "acceptEdits", Start} \subseteq Modes
  /\ Sessions \subseteq Nat \ {0} /\ \A b \in Bounds : 1 .. b.sessions \subseteq Sessions
  /\ {MAX_CYCLES, THRESHOLD} \subseteq Nat \ {0} /\ "poll" \notin Hooks
  /\ Bounds \subseteq [sessions : Nat \ {0}, denials : Nat, faults : Nat] /\ First \in Panes

\* The default of 5 presses goes all the way round; no footer spells out that it
\* could not be read.
ASSUME CyclesAssumption == Len(Ring) <= MAX_CYCLES + 1 /\ "none" \notin Modes

VARIABLES
  session,   \* the session each pane holds, none if it is closed
  mode, idle,            \* its permission mode; whether it waits for a prompt
  home,      \* history: the mode that its human, or its start, has put it in
  log,       \* the no-verdict denials in the transcript of each session
  disk,      \* automode-watch-state.json
  overdue,   \* panes escalated for longer than MAX_ESCALATION_SECONDS
  proc,      \* what each process is doing
  touched,   \* history: sessions the watchdog has pressed a key in
  raised,    \* history: how often each session has been escalated
  heir,      \* history: sessions opened where the watchdog was at work
  disturbed, \* history: panes that a fault, or a human, has come between
  killed,    \* history: how many processes were killed at work
  left       \* of the bounds

agents == <<session, mode, idle, home, log>>
history == <<touched, raised, heir, disturbed, killed>>
vars == <<agents, disk, overdue, proc, history, left>>

Procs == {"poll"} \cup Hooks
None == "none"

\* An entry of the state file; a pane that has none reads as this one.
Blank == [path |-> 0, offset |-> 0, denials |-> 0, escalated |-> FALSE, before |-> None]

\* A process, by what it does next (at); mem is the file as it has changed it
\* since it was loaded.  The tick holds its view of the roster: the panes, which
\* of them were idle, and the sessions found in those it still has to look at.
Off == [at |-> "off", kind |-> None, pane |-> None,
        seen |-> {}, found |-> [p \in Panes |-> 0], idlers |-> {},
        mem |-> [p \in Panes |-> Blank], goal |-> None, before |-> None, left |-> 0]

Open == {p \in Panes : session[p] # 0}

Spend(what) == left[what] > 0 /\ left' = [left EXCEPT ![what] = @ - 1]

Becomes(x, r) == proc' = [proc EXCEPT ![x] = r]
Entry(x) == proc[x].mem[proc[x].pane]
Keeps(x, e) == [proc[x].mem EXCEPT ![proc[x].pane] = e]

Quiet == \A x \in Procs : proc[x].at \in {"off", "waits"}
WorksOn(x, p) == proc[x].pane = p \/ proc[x].found[p] # 0 \/ proc[x].mem[p].escalated

After(m) ==
  LET i == CHOOSE i \in DOMAIN Ring : Ring[i] = m
  IN  Ring[IF i = Len(Ring) THEN 1 ELSE i + 1]

-----------------------------------------------------------------------------
(* The agents, their humans, and the hooks that they start.                *)

\* A hook runs on its own; one that fails to start is lost.
Starts(kind, p) ==
  \/ UNCHANGED proc
  \/ \E h \in Hooks :
       /\ proc[h].at = "off"
       /\ Becomes(h, [Off EXCEPT !.at = "waits", !.kind = kind, !.pane = p])

PromptGiven(p) ==
  /\ p \in Open /\ idle[p]
  /\ idle' = [idle EXCEPT ![p] = FALSE]
  /\ UNCHANGED <<session, mode, home, log, disk, overdue, proc, history, left>>

\* hook-stop.sh and hook-pretooluse.sh start the revert check in the background.
TurnEnds(p) ==
  /\ p \in Open /\ ~idle[p]
  /\ idle' = [idle EXCEPT ![p] = TRUE] /\ Starts("stop", p)
  /\ UNCHANGED <<session, mode, home, log, disk, overdue, history, left>>

CallsTool(p) ==
  /\ p \in Open /\ ~idle[p]
  /\ \E h \in Hooks : proc[h].at = "off"
  /\ Starts("tool", p)
  /\ UNCHANGED <<agents, disk, overdue, history, left>>

\* The classifier gives no verdict: it was asked while the pane was in auto mode,
\* the answer may come after the mode has changed.
Denied(p) ==
  /\ p \in Open /\ ~idle[p] /\ home[p] = "auto"
  /\ log' = [log EXCEPT ![session[p]] = @ + 1] /\ Starts("denied", p)
  /\ Spend("denials")
  /\ UNCHANGED <<session, mode, idle, home, disk, overdue, history>>

\* The classifier says no.
Blocked(p) ==
  /\ p \in Open /\ ~idle[p] /\ mode[p] = "auto"
  /\ \E h \in Hooks : proc[h].at = "off"
  /\ Starts("blocked", p)
  /\ UNCHANGED <<agents, disk, overdue, history, left>>

\* A human presses back-tab; from then on that mode is the pane's own.
HumanPresses(p) ==
  /\ p \in Open /\ Spend("faults")
  /\ mode' = [mode EXCEPT ![p] = After(@)] /\ home' = [home EXCEPT ![p] = mode'[p]]
  /\ disturbed' = disturbed \cup {p}
  /\ UNCHANGED <<session, idle, log, disk, overdue, proc, touched, raised, heir, killed>>

Closes(p) ==
  /\ p \in Open
  /\ session' = [session EXCEPT ![p] = 0]
  /\ mode' = [mode EXCEPT ![p] = None] /\ home' = [home EXCEPT ![p] = None]
  /\ idle' = [idle EXCEPT ![p] = TRUE]
  /\ UNCHANGED <<log, disk, overdue, proc, history, left>>

\* Pane ids are used again: the new session finds the file, and a process that
\* is at work, with what they hold for the old one.
Opens(p) ==
  /\ session[p] = 0 /\ Spend("sessions")
  /\ session' = [session EXCEPT ![p] = left.sessions]
  /\ mode' = [mode EXCEPT ![p] = Start] /\ home' = [home EXCEPT ![p] = Start]
  /\ IF disk[p].escalated \/ \E x \in Procs : WorksOn(x, p)
     THEN heir' = heir \cup {left.sessions} /\ disturbed' = disturbed \cup {p}
     ELSE UNCHANGED heir /\ disturbed' = disturbed \ {p}
  /\ UNCHANGED <<idle, log, disk, overdue, proc, touched, raised, killed>>

\* MAX_ESCALATION_SECONDS go by.
TimePasses ==
  /\ \E p \in Panes \ overdue : disk[p].escalated
  /\ overdue' = {p \in Panes : disk[p].escalated}
  /\ UNCHANGED <<agents, disk, proc, history, left>>

-----------------------------------------------------------------------------
(* Lock, load, save.                                                       *)

\* (bug: a hook acts on every denial)
Reacts_Always(kind) == TRUE
\* The hook acts on a denial without a verdict only.
Reacts(kind) == kind # "blocked"

HookReturns(h) ==
  /\ proc[h].at = "waits" /\ ~Reacts(proc[h].kind)
  /\ Becomes(h, Off)
  /\ UNCHANGED <<agents, disk, overdue, history, left>>

\* (bug: nobody waits for the lock)
Free_Always == TRUE
Free == Quiet

HookLoads(h) ==
  /\ proc[h].at = "waits" /\ Reacts(proc[h].kind) /\ Free
  /\ Becomes(h, [proc[h] EXCEPT !.at = IF proc[h].kind \in {"stop", "tool"} THEN "settles" ELSE "looks",
                                !.mem = disk])
  /\ UNCHANGED <<agents, disk, overdue, history, left>>

\* tick: the roster is read once, with who is idle and which transcript is whose.
PollLoads ==
  /\ proc["poll"].at = "off" /\ Free /\ Open # {}
  /\ Becomes("poll", [Off EXCEPT !.at = "picks", !.kind = "poll", !.found = session,
                                 !.seen = Open, !.idlers = {p \in Open : idle[p]}, !.mem = disk])
  /\ UNCHANGED <<agents, disk, overdue, history, left>>

PollPicks(p) ==
  LET r == proc["poll"] IN
  /\ r.at = "picks" /\ r.found[p] # 0
  /\ Becomes("poll", [r EXCEPT !.at = "looks", !.pane = p])
  /\ UNCHANGED <<agents, disk, overdue, history, left>>

-----------------------------------------------------------------------------
(* What is done to a pane.                                                 *)

\* What is left for the process once its pane is dealt with.
Proceeds(r) == IF r.kind = "poll" THEN [r EXCEPT !.at = "picks", !.pane = None,
                                                    !.found = [@ EXCEPT ![r.pane] = 0]]
            ELSE [r EXCEPT !.at = "saves"]
\* handle_pane goes on to the revert check, the hook of a denial does not.
Escalated(r) == IF r.kind = "poll" THEN [r EXCEPT !.at = "settles"] ELSE Proceeds(r)

\* handle_pane: a transcript that is new to the pane is read from its end.
Scan ==
  LET r == proc["poll"]
      s == r.found[r.pane]
      e == IF Entry("poll").path = s THEN Entry("poll")
           ELSE [Entry("poll") EXCEPT !.path = s, !.offset = log[s], !.denials = 0]
  IN  /\ r.at = "looks"
      /\ \E n \in IF log[s] > e.offset /\ ~e.escalated THEN 0 .. e.denials + log[s] - e.offset
                  ELSE {e.denials} :
           Becomes("poll", [r EXCEPT !.at = IF ~e.escalated /\ n >= THRESHOLD THEN "escalates" ELSE "settles",
                                     !.mem = Keeps("poll", [e EXCEPT !.offset = log[s], !.denials = n])])
      /\ UNCHANGED <<agents, disk, overdue, history, left>>

\* note_denial_and_maybe_escalate: older denials may have left the window.
Notes(h) ==
  LET r == proc[h] IN
  /\ r.at = "looks"
  /\ IF Entry(h).escalated THEN Becomes(h, Proceeds(r))
     ELSE \E n \in 1 .. Entry(h).denials + 1 :
            Becomes(h, [r EXCEPT !.at = IF n >= THRESHOLD THEN "escalates" ELSE "saves",
                                 !.mem = Keeps(h, [Entry(h) EXCEPT !.denials = n])])
  /\ UNCHANGED <<agents, disk, overdue, history, left>>

\* read_mode: a footer that cannot be read is no mode; nor is that of a closed pane.
Reads(p, m) ==
  \/ m = mode[p] /\ UNCHANGED <<left, disturbed>>
  \/ /\ p \in Open /\ m = None /\ Spend("faults")
     /\ disturbed' = disturbed \cup {p}

Footers == Modes \cup {None}

Escalates(x) ==
  LET r == proc[x] IN
  /\ r.at = "escalates"
  /\ \E m \in Footers :
       /\ Reads(r.pane, m)
       /\ Becomes(x, IF m = "manual"
                     THEN Escalated([r EXCEPT !.mem = Keeps(x, [Entry(x) EXCEPT !.denials = 0])])
                     ELSE [r EXCEPT !.at = "cycles", !.goal = "manual", !.before = m, !.left = MAX_CYCLES])
  /\ UNCHANGED <<agents, disk, overdue, touched, raised, heir, killed>>

\* (bug: the pane of a busy agent is left alone, whatever the cap says)
Due_Idle(x) ==
  \/ proc[x].kind = "stop"
  \/ proc[x].kind = "poll" /\ proc[x].pane \in proc[x].idlers

Due(x) ==
  \/ proc[x].kind = "stop"
  \/ proc[x].kind = "poll" /\ proc[x].pane \in proc[x].idlers
  \/ proc[x].pane \in overdue

\* _maybe_revert.
Settles(x) ==
  LET r == proc[x] IN
  /\ r.at = "settles"
  /\ Becomes(x, IF Entry(x).escalated /\ Due(x)
                THEN [r EXCEPT !.at = "cycles", !.goal = "back", !.left = MAX_CYCLES,
                               !.before = IF Entry(x).before = None THEN "acceptEdits" ELSE Entry(x).before]
                ELSE Proceeds(r))
  /\ UNCHANGED <<agents, disk, overdue, history, left>>

Target(r) == IF r.goal = "manual" THEN "manual" ELSE r.before

\* (bug: the denials that have led to it are counted again)
Lands_Counts(x, r) ==
  Becomes(x, Escalated([r EXCEPT !.goal = None, !.before = None, !.left = 0,
       !.mem = Keeps(x, [Entry(x) EXCEPT !.escalated = TRUE, !.before = r.before])]))

Lands(x, r) ==
  Becomes(x, Escalated([r EXCEPT !.goal = None, !.before = None, !.left = 0,
       !.mem = Keeps(x, [Entry(x) EXCEPT !.denials = 0, !.escalated = TRUE, !.before = r.before])]))

\* cycle_to, and what _escalate and _maybe_revert make of its answer.
Cycles(x) ==
  LET r == proc[x]
      p == r.pane
      done == [r EXCEPT !.goal = None, !.before = None, !.left = 0]
  IN
  /\ r.at = "cycles"
  /\ \E m \in Footers :
       /\ Reads(p, m)
       /\ \/ /\ m # Target(r) /\ r.left > 0
             /\ Becomes(x, [r EXCEPT !.left = @ - 1])
             /\ IF p \in Open
                THEN mode' = [mode EXCEPT ![p] = After(@)] /\ touched' = touched \cup {session[p]}
                ELSE UNCHANGED <<mode, touched>>
             /\ UNCHANGED <<overdue, raised>>
          \/ /\ m = "manual" /\ r.goal = "manual"
             /\ Lands(x, r)
             /\ raised' = IF p \in Open THEN [raised EXCEPT ![session[p]] = @ + 1] ELSE raised
             /\ overdue' = overdue \ {p}
             /\ UNCHANGED <<mode, touched>>
          \/ /\ m # Target(r) /\ r.left = 0 /\ r.goal = "manual"
             /\ Becomes(x, Escalated([done EXCEPT !.mem = Keeps(x, [Entry(x) EXCEPT !.denials = 0])]))
             /\ UNCHANGED <<mode, touched, overdue, raised>>
          \/ /\ r.goal = "back" /\ (m = Target(r) \/ r.left = 0)
             /\ Becomes(x, Proceeds([done EXCEPT !.mem = Keeps(x, [Entry(x) EXCEPT !.escalated = FALSE, !.before = None])]))
             /\ UNCHANGED <<mode, touched, overdue, raised>>
  /\ UNCHANGED <<session, idle, home, log, disk, heir, killed>>

\* The tick ends: entries of panes that are gone are dropped, but for escalated ones.
PollSaves ==
  LET r == proc["poll"] IN
  /\ r.at = "picks" /\ \A p \in Panes : r.found[p] = 0
  /\ disk' = [p \in Panes |-> IF p \in r.seen \/ r.mem[p].escalated THEN r.mem[p] ELSE Blank]
  /\ Becomes("poll", Off)
  /\ UNCHANGED <<agents, overdue, history, left>>

HookSaves(h) ==
  /\ proc[h].at = "saves"
  /\ disk' = proc[h].mem /\ Becomes(h, Off)
  /\ UNCHANGED <<agents, overdue, history, left>>

-----------------------------------------------------------------------------
(* Faults.                                                                 *)

\* A process is killed: its lock is free again, its changes are not saved.
Dies(x) ==
  /\ proc[x].at \notin {"off", "waits"} /\ Spend("faults")
  /\ Becomes(x, Off) /\ killed' = killed + 1
  /\ disturbed' = disturbed \cup {proc[x].pane} \cup {p \in Panes : proc[x].mem[p] # disk[p]}
  /\ UNCHANGED <<agents, disk, overdue, touched, raised, heir>>

\* "safe to delete any time"
StateDeleted ==
  /\ \E p \in Panes : disk[p] # Blank
  /\ disk' = [p \in Panes |-> Blank] /\ Spend("faults")
  /\ disturbed' = disturbed \cup {p \in Panes : disk[p].escalated}
  /\ UNCHANGED <<agents, overdue, proc, touched, raised, heir, killed>>

\* One session is there when the watchdog is installed.
Init ==
  /\ \E b \in Bounds :
       /\ left = [b EXCEPT !.sessions = @ - 1]
       /\ session = [p \in Panes |-> IF p = First THEN b.sessions ELSE 0]
  /\ mode = [p \in Panes |-> IF p = First THEN Start ELSE None] /\ home = mode
  /\ idle = [p \in Panes |-> TRUE] /\ log = [s \in Sessions |-> 0]
  /\ disk = [p \in Panes |-> Blank] /\ overdue = {} /\ proc = [x \in Procs |-> Off]
  /\ touched = {} /\ raised = [s \in Sessions |-> 0] /\ heir = {} /\ disturbed = {}
  /\ killed = 0

Agents(p) ==
  \/ Opens(p) \/ Closes(p) \/ PromptGiven(p) \/ TurnEnds(p) \/ CallsTool(p)
  \/ Denied(p) \/ Blocked(p) \/ HumanPresses(p)
Acts(x) == Escalates(x) \/ Settles(x) \/ Cycles(x)
Hook(h) == HookReturns(h) \/ HookLoads(h) \/ Notes(h) \/ HookSaves(h) \/ Acts(h)
Poll == PollSaves \/ Scan \/ (\E p \in Panes : PollPicks(p)) \/ Acts("poll")

Next ==
  \/ \E p \in Panes : Agents(p)
  \/ TimePasses \/ StateDeleted \/ PollLoads \/ Poll
  \/ \E h \in Hooks : Hook(h)
  \/ \E x \in Procs : Dies(x)

\* Processes run; a waiter on the lock gets it in the end; the clock goes on.
Fairness ==
  /\ SF_vars(PollLoads) /\ WF_vars(Poll) /\ WF_vars(TimePasses)
  /\ \A h \in Hooks : WF_vars(Hook(h))

Spec == Init /\ [][Next]_vars /\ Fairness

-----------------------------------------------------------------------------
(* Properties.                                                             *)

Entries == [path : Sessions \cup {0}, offset : Nat, denials : Nat, escalated : BOOLEAN,
            before : Footers]
ProcStates ==
  [at : {"off", "waits", "picks", "looks", "escalates", "settles", "cycles", "saves"},
   kind : {None, "poll", "stop", "tool", "denied", "blocked"}, pane : Panes \cup {None},
   seen : SUBSET Panes, found : [Panes -> Sessions \cup {0}], idlers : SUBSET Panes,
   mem : [Panes -> Entries], goal : {None, "manual", "back"}, before : Footers, left : Nat]
TypeOK ==
  /\ session \in [Panes -> Sessions \cup {0}] /\ mode \in [Panes -> Footers]
  /\ \A p \in Open : mode[p] \in Modes
  /\ home \in [Panes -> Footers] /\ idle \in [Panes -> BOOLEAN] /\ log \in [Sessions -> Nat]
  /\ disk \in [Panes -> Entries] /\ overdue \subseteq Panes /\ proc \in [Procs -> ProcStates]
  /\ touched \subseteq Sessions /\ raised \in [Sessions -> Nat] /\ heir \subseteq Sessions
  /\ disturbed \subseteq Panes \cup {None} /\ killed \in Nat
  /\ left \in [sessions : Nat, denials : Nat, faults : Nat]

\* "A REAL safety verdict - never touch this one", and "cycling an innocent pane's
\* mode actively breaks it": a session whose mode the watchdog has changed was
\* denied without a verdict, or was opened in a pane that the watchdog had
\* escalated or had in hand.
InnocentUntouched == \A s \in touched : log[s] > 0 \/ s \in heir

\* The lock, the file and the presses fit together: when nobody works, a pane is
\* in the mode it was given, or it is in Manual mode and the file knows and knows
\* the way back.  Panes that a fault or a human came between are excepted.
ModeIsAccountedFor ==
  Quiet => \A p \in Open \ disturbed :
    IF disk[p].escalated THEN mode[p] = "manual" /\ disk[p].before = home[p]
    ELSE mode[p] = home[p]

\* A denial escalates its pane twice at most, once for the hook and once for the
\* scan, and once more for each process killed before it saved.
DenialsAreSpent == \A s \in Sessions \ heir : raised[s] <= 2 * log[s] + killed

\* An escalated pane is let go in the end, idle or not.
EscalationEnds == \A p \in Panes : disk[p].escalated ~> ~disk[p].escalated \/ p \notin Open
=============================================================================
