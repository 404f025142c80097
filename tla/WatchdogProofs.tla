--------------------------- MODULE WatchdogProofs ---------------------------
(***************************************************************************)
(* Proofs about Watchdog: its types, and its three safety invariants, for  *)
(* any panes, hooks, sessions, thresholds and faults.                      *)
(*                                                                         *)
(* The first part is about shapes: which process stands where, and with    *)
(* what in hand.  The second follows the reason to touch a pane from the   *)
(* transcript or the hook into the memory of a process, to the file, and   *)
(* into the memory of the next process.  The third follows the mode of a   *)
(* pane through the presses of the one process that has the lock, the      *)
(* fourth what a denial may still cost: two claims on an escalation, one   *)
(* of its hook and one of its line in the transcript.                      *)
(***************************************************************************)
EXTENDS Watchdog, FiniteSetTheorems, TLAPS

\* What a process has in hand, by where it stands.
Shape(x, r) ==
  /\ r.at \notin {"off", "picks"} => r.pane \in Panes
  /\ r.at # "off" => (r.kind = "poll" <=> x = "poll")
  /\ x = "poll" /\ r.at \in {"looks", "escalates", "settles", "cycles"} => r.found[r.pane] # 0
  /\ x # "poll" /\ r.at = "looks" => r.kind = "denied"
  /\ x # "poll" /\ r.at = "waits" => r.kind \in {"stop", "tool", "denied", "blocked"}

Shaped ==
  /\ TypeOK
  /\ \A x \in Procs : Shape(x, proc[x])
  /\ 1 .. left.sessions \subseteq Sessions

-----------------------------------------------------------------------------
(* The parts that a step changes.                                          *)

LEMMA OffTypes == Off \in ProcStates /\ Blank \in Entries /\ \A x : Shape(x, Off)
BY DEF Off, Blank, ProcStates, Entries, Shape, Footers, None

LEMMA RingTypes == \A m \in Modes : After(m) \in Modes
<1> SUFFICES ASSUME NEW m \in Modes PROVE After(m) \in Modes
  OBVIOUS
<1>1. PICK j \in DOMAIN Ring : Ring[j] = m
  BY DEF Modes
<1> DEFINE i == CHOOSE i \in DOMAIN Ring : Ring[i] = m
<1>2. i \in DOMAIN Ring
  BY <1>1
<1>3. DOMAIN Ring = 1 .. Len(Ring) /\ Len(Ring) \in Nat
  BY WatchdogAssumption
<1>4. (IF i = Len(Ring) THEN 1 ELSE i + 1) \in DOMAIN Ring
  BY <1>2, <1>3
<1> QED BY <1>4 DEF After, Modes

LEMMA StartTypes == Start \in Modes /\ "manual" \in Modes /\ "acceptEdits" \in Modes /\ Modes \subseteq Footers /\ None \in Footers
BY WatchdogAssumption DEF Footers

LEMMA ProcTypes ==
  ASSUME Shaped, NEW x \in Procs, NEW r \in ProcStates, Shape(x, r), Becomes(x, r)
  PROVE  proc' \in [Procs -> ProcStates] /\ \A y \in Procs : Shape(y, proc'[y])
BY DEF Shaped, TypeOK, Becomes

LEMMA SpendTypes ==
  ASSUME Shaped, NEW what \in {"sessions", "denials", "faults"}, Spend(what)
  PROVE  /\ left' \in [sessions : Nat, denials : Nat, faults : Nat]
         /\ left'.sessions \in {left.sessions, left.sessions - 1}
         /\ what # "sessions" => left'.sessions = left.sessions
         /\ 1 .. left'.sessions \subseteq Sessions
<1>1. CASE what = "sessions"
  BY <1>1 DEF Shaped, TypeOK, Spend
<1>2. CASE what = "denials"
  BY <1>2 DEF Shaped, TypeOK, Spend
<1>3. CASE what = "faults"
  BY <1>3 DEF Shaped, TypeOK, Spend
<1> QED BY <1>1, <1>2, <1>3

LEMMA KeepsTypes ==
  ASSUME Shaped, NEW x \in Procs, proc[x].pane \in Panes, NEW e \in Entries
  PROVE  /\ Entry(x) \in Entries
         /\ Keeps(x, e) \in [Panes -> Entries]
         /\ Keeps(x, e)[proc[x].pane] = e
         /\ \A p \in Panes : p # proc[x].pane => Keeps(x, e)[p] = proc[x].mem[p]
<1>1. proc[x].mem \in [Panes -> Entries]
  BY DEF Shaped, TypeOK, ProcStates
<1> QED BY <1>1 DEF Keeps, Entry

\* Where a process goes once its pane is dealt with.
LEMMA ProceedsTypes ==
  ASSUME NEW x \in Procs, NEW r \in ProcStates, r.pane \in Panes, r.kind = "poll" <=> x = "poll"
  PROVE  Proceeds(r) \in ProcStates /\ Shape(x, Proceeds(r))
<1>1. CASE r.kind = "poll"
  BY <1>1 DEF Proceeds, ProcStates, Shape
<1>2. CASE r.kind # "poll"
  BY <1>2 DEF Proceeds, ProcStates, Shape
<1> QED BY <1>1, <1>2

LEMMA EscalatedTypes ==
  ASSUME NEW x \in Procs, NEW r \in ProcStates, r.pane \in Panes, r.kind = "poll" <=> x = "poll",
         x = "poll" => r.found[r.pane] # 0
  PROVE  Escalated(r) \in ProcStates /\ Shape(x, Escalated(r))
<1>1. CASE r.kind = "poll"
  BY <1>1 DEF Escalated, ProcStates, Shape
<1>2. CASE r.kind # "poll"
  BY <1>2, ProceedsTypes DEF Escalated
<1> QED BY <1>1, <1>2

\* A hook that starts, or does not.
LEMMA StartsTypes ==
  ASSUME Shaped, NEW p \in Panes, NEW kind \in {"stop", "tool", "denied", "blocked"}, Starts(kind, p)
  PROVE  proc' \in [Procs -> ProcStates] /\ \A y \in Procs : Shape(y, proc'[y])
<1>1. CASE UNCHANGED proc
  BY <1>1 DEF Shaped, TypeOK
<1>2. CASE \E h \in Hooks : Becomes(h, [Off EXCEPT !.at = "waits", !.kind = kind, !.pane = p])
  <2> PICK h \in Hooks : Becomes(h, [Off EXCEPT !.at = "waits", !.kind = kind, !.pane = p])
    BY <1>2
  <2> DEFINE r == [Off EXCEPT !.at = "waits", !.kind = kind, !.pane = p]
  <2>1. r \in ProcStates
    BY OffTypes DEF ProcStates
  <2>2. r.at = "waits" /\ r.kind = kind /\ r.pane = p
    BY OffTypes DEF ProcStates
  <2>3. h \in Procs /\ h # "poll"
    BY WatchdogAssumption DEF Procs
  <2>4. Shape(h, r)
    BY <2>2, <2>3 DEF Shape
  <2> HIDE DEF r
  <2> QED BY <2>1, <2>3, <2>4, ProcTypes DEF r
<1> QED BY <1>1, <1>2 DEF Starts

-----------------------------------------------------------------------------
(* The steps of the agents keep the shapes.                                *)

LEMMA AgentsShaped ==
  ASSUME Shaped, NEW p \in Panes, Agents(p)
  PROVE  Shaped'
<1>1. CASE PromptGiven(p)
  BY <1>1 DEF PromptGiven, Shaped, TypeOK, history, Open
<1>2. CASE TurnEnds(p)
  BY <1>2, StartsTypes DEF TurnEnds, Shaped, TypeOK, history, Open
<1>3. CASE CallsTool(p)
  BY <1>3, StartsTypes DEF CallsTool, Shaped, TypeOK, agents, history, Open
<1>4. CASE Denied(p)
  <2>1. left' \in [sessions : Nat, denials : Nat, faults : Nat] /\ 1 .. left'.sessions \subseteq Sessions
    BY <1>4, SpendTypes DEF Denied
  <2>2. log' \in [Sessions -> Nat]
    BY <1>4 DEF Denied, Open, Shaped, TypeOK
  <2> QED BY <1>4, <2>1, <2>2, StartsTypes DEF Denied, Shaped, TypeOK, history, Open
<1>5. CASE Blocked(p)
  BY <1>5, StartsTypes DEF Blocked, Shaped, TypeOK, agents, history, Open
<1>6. CASE HumanPresses(p)
  <2>1. left' \in [sessions : Nat, denials : Nat, faults : Nat] /\ 1 .. left'.sessions \subseteq Sessions
    BY <1>6, SpendTypes DEF HumanPresses
  <2>2. mode' = [mode EXCEPT ![p] = After(mode[p])] /\ home' = [home EXCEPT ![p] = mode'[p]]
    BY <1>6 DEF HumanPresses
  <2>3. After(mode[p]) \in Modes
    BY <1>6, RingTypes DEF HumanPresses, Shaped, TypeOK
  <2>4. mode' \in [Panes -> Footers] /\ home' \in [Panes -> Footers] /\ \A q \in Open' : mode'[q] \in Modes
    BY <1>6, <2>2, <2>3, StartTypes DEF HumanPresses, Shaped, TypeOK, Open
  <2> QED BY <1>6, <2>1, <2>4 DEF HumanPresses, Shaped, TypeOK
<1>7. CASE Closes(p)
  BY <1>7, StartTypes DEF Closes, Shaped, TypeOK, history, Open
<1>8. CASE Opens(p)
  <2>1. left' \in [sessions : Nat, denials : Nat, faults : Nat] /\ 1 .. left'.sessions \subseteq Sessions
    BY <1>8, SpendTypes DEF Opens
  <2>2. left.sessions \in Sessions
    BY <1>8 DEF Opens, Spend, Shaped, TypeOK
  <2>3. heir' \subseteq Sessions /\ disturbed' \subseteq Panes \cup {None}
    BY <1>8, <2>2 DEF Opens, Shaped, TypeOK
  <2> QED BY <1>8, <2>1, <2>2, <2>3, StartTypes DEF Opens, Shaped, TypeOK, Open
<1> QED BY <1>1, <1>2, <1>3, <1>4, <1>5, <1>6, <1>7, <1>8 DEF Agents

-----------------------------------------------------------------------------
(* The steps of the processes keep the shapes.                             *)

\* What a step of a process leaves to be shown.
Others ==
  /\ UNCHANGED agents /\ disk' \in [Panes -> Entries] /\ overdue' \subseteq Panes
  /\ touched' \subseteq Sessions /\ raised' \in [Sessions -> Nat] /\ heir' = heir
  /\ disturbed' \subseteq Panes \cup {None} /\ killed' \in Nat
  /\ left' \in [sessions : Nat, denials : Nat, faults : Nat] /\ left'.sessions = left.sessions

LEMMA StepShaped ==
  ASSUME Shaped, NEW x \in Procs, NEW r \in ProcStates, Shape(x, r), Becomes(x, r), Others
  PROVE  Shaped'
BY ProcTypes DEF Others, Shaped, TypeOK, agents, Open

LEMMA InHand ==
  ASSUME Shaped, NEW x \in Procs, proc[x].at \notin {"off", "picks"}
  PROVE  /\ proc[x] \in ProcStates /\ proc[x].pane \in Panes
         /\ proc[x].kind = "poll" <=> x = "poll"
         /\ x = "poll" /\ proc[x].at # "waits" /\ proc[x].at # "saves" => proc[x].found[proc[x].pane] # 0
BY DEF Shaped, TypeOK, Shape, ProcStates

LEMMA ReadsTypes ==
  ASSUME Shaped, NEW p \in Panes, NEW m \in Footers, Reads(p, m)
  PROVE  /\ left' \in [sessions : Nat, denials : Nat, faults : Nat] /\ left'.sessions = left.sessions
         /\ disturbed' \subseteq Panes \cup {None}
<1>1. CASE UNCHANGED <<left, disturbed>>
  BY <1>1 DEF Shaped, TypeOK
<1>2. CASE Spend("faults") /\ disturbed' = disturbed \cup {p}
  BY <1>2, SpendTypes DEF Shaped, TypeOK
<1> QED BY <1>1, <1>2 DEF Reads

LEMMA ScanShaped == Shaped /\ Scan => Shaped'
<1> SUFFICES ASSUME Shaped, Scan PROVE Shaped'
  OBVIOUS
<1> DEFINE r == proc["poll"]
           s == r.found[r.pane]
           e == IF Entry("poll").path = s THEN Entry("poll")
                ELSE [Entry("poll") EXCEPT !.path = s, !.offset = log[s], !.denials = 0]
<1>1. "poll" \in Procs /\ r.at = "looks" /\ r \in ProcStates /\ r.pane \in Panes /\ r.kind = "poll" /\ s # 0
  BY InHand DEF Scan, Procs
<1>2. s \in Sessions /\ log[s] \in Nat
  BY <1>1 DEF ProcStates, Shaped, TypeOK
<1>3. Entry("poll") \in Entries
  BY <1>1 DEF Entry, ProcStates
<1>4. e \in Entries
  BY <1>2, <1>3 DEF Entries
<1>5. PICK n \in IF log[s] > e.offset /\ ~e.escalated THEN 0 .. e.denials + log[s] - e.offset
                  ELSE {e.denials} :
           Becomes("poll", [r EXCEPT !.at = IF ~e.escalated /\ n >= THRESHOLD THEN "escalates" ELSE "settles",
                                     !.mem = Keeps("poll", [e EXCEPT !.offset = log[s], !.denials = n])])
  BY DEF Scan
<1>6. n \in Nat
  BY <1>4, <1>5 DEF Entries
<1>7. [e EXCEPT !.offset = log[s], !.denials = n] \in Entries
  BY <1>2, <1>4, <1>6 DEF Entries
<1> DEFINE d == [e EXCEPT !.offset = log[s], !.denials = n]
           q == [r EXCEPT !.at = IF ~e.escalated /\ n >= THRESHOLD THEN "escalates" ELSE "settles",
                          !.mem = Keeps("poll", d)]
<1>8. Keeps("poll", d) \in [Panes -> Entries]
  BY <1>1, <1>7, KeepsTypes
<1> HIDE DEF d
<1>9. q \in ProcStates /\ Shape("poll", q)
  BY <1>1, <1>8 DEF ProcStates, Shape
<1>10. Others
  BY DEF Scan, Others, agents, history, Shaped, TypeOK
<1> HIDE DEF q
<1> QED BY <1>1, <1>5, <1>9, <1>10, StepShaped DEF q, d

LEMMA NotesShaped ==
  ASSUME Shaped, NEW h \in Hooks, Notes(h)
  PROVE  Shaped'
<1> DEFINE r == proc[h]
<1>1. h \in Procs /\ h # "poll" /\ r \in ProcStates /\ r.pane \in Panes /\ r.kind # "poll" /\ r.at = "looks"
  BY InHand, WatchdogAssumption DEF Notes, Procs
<1>2. Others
  BY DEF Notes, Others, agents, history, Shaped, TypeOK
<1>3. CASE Entry(h).escalated
  BY <1>1, <1>2, <1>3, ProceedsTypes, StepShaped DEF Notes
<1>4. CASE ~Entry(h).escalated
  <2>1. PICK n \in 1 .. Entry(h).denials + 1 :
          Becomes(h, [r EXCEPT !.at = IF n >= THRESHOLD THEN "escalates" ELSE "saves",
                               !.mem = Keeps(h, [Entry(h) EXCEPT !.denials = n])])
    BY <1>4 DEF Notes
  <2> DEFINE d == [Entry(h) EXCEPT !.denials = n]
             q == [r EXCEPT !.at = IF n >= THRESHOLD THEN "escalates" ELSE "saves", !.mem = Keeps(h, d)]
  <2>2. Entry(h) \in Entries /\ n \in Nat
    BY <1>1 DEF Entry, ProcStates, Entries
  <2>3. d \in Entries
    BY <2>2 DEF Entries
  <2>4. Keeps(h, d) \in [Panes -> Entries]
    BY <1>1, <2>3, KeepsTypes
  <2> HIDE DEF d
  <2>5. q \in ProcStates /\ Shape(h, q)
    BY <1>1, <2>4 DEF ProcStates, Shape
  <2> HIDE DEF q
  <2> QED BY <1>1, <1>2, <2>1, <2>5, StepShaped DEF q, d
<1> QED BY <1>3, <1>4

LEMMA EscalatesShaped ==
  ASSUME Shaped, NEW x \in Procs, Escalates(x)
  PROVE  Shaped'
<1> DEFINE r == proc[x]
<1>1. /\ r \in ProcStates /\ r.pane \in Panes /\ r.at = "escalates"
      /\ r.kind = "poll" <=> x = "poll"
      /\ x = "poll" => r.found[r.pane] # 0
  BY InHand DEF Escalates
<1>2. PICK m \in Footers :
        /\ Reads(r.pane, m)
        /\ Becomes(x, IF m = "manual"
                      THEN Escalated([r EXCEPT !.mem = Keeps(x, [Entry(x) EXCEPT !.denials = 0])])
                      ELSE [r EXCEPT !.at = "cycles", !.goal = "manual", !.before = m, !.left = MAX_CYCLES])
  BY DEF Escalates
<1>3. Others
  BY <1>1, <1>2, ReadsTypes DEF Escalates, Others, agents, Shaped, TypeOK
<1>4. CASE m = "manual"
  <2> DEFINE d == [Entry(x) EXCEPT !.denials = 0]
             q == [r EXCEPT !.mem = Keeps(x, d)]
  <2>1. d \in Entries
    BY <1>1 DEF Entry, ProcStates, Entries
  <2>2. Keeps(x, d) \in [Panes -> Entries]
    BY <1>1, <2>1, KeepsTypes
  <2> HIDE DEF d
  <2>3. /\ q \in ProcStates /\ q.pane \in Panes /\ (q.kind = "poll" <=> x = "poll")
        /\ x = "poll" => q.found[q.pane] # 0
    BY <1>1, <2>2 DEF ProcStates
  <2>4. Becomes(x, Escalated(q))
    BY <1>2, <1>4 DEF d
  <2> HIDE DEF q
  <2>5. Escalated(q) \in ProcStates /\ Shape(x, Escalated(q))
    BY <2>3, EscalatedTypes
  <2> QED BY <1>3, <2>4, <2>5, StepShaped
<1>5. CASE m # "manual"
  <2> DEFINE q == [r EXCEPT !.at = "cycles", !.goal = "manual", !.before = m, !.left = MAX_CYCLES]
  <2>1. q \in ProcStates /\ Shape(x, q)
    BY <1>1, WatchdogAssumption DEF ProcStates, Shape
  <2>2. Becomes(x, q)
    BY <1>2, <1>5
  <2> HIDE DEF q
  <2> QED BY <1>3, <2>1, <2>2, StepShaped
<1> QED BY <1>4, <1>5

LEMMA SettlesShaped ==
  ASSUME Shaped, NEW x \in Procs, Settles(x)
  PROVE  Shaped'
<1> DEFINE r == proc[x]
           q == [r EXCEPT !.at = "cycles", !.goal = "back", !.left = MAX_CYCLES,
                          !.before = IF Entry(x).before = None THEN "acceptEdits" ELSE Entry(x).before]
<1>1. /\ r \in ProcStates /\ r.pane \in Panes /\ r.at = "settles"
      /\ r.kind = "poll" <=> x = "poll"
      /\ x = "poll" => r.found[r.pane] # 0
  BY InHand DEF Settles
<1>2. Others
  BY DEF Settles, Others, agents, history, Shaped, TypeOK
<1>3. Entry(x).before \in Footers
  BY <1>1 DEF Entry, ProcStates, Entries
<1>4. q \in ProcStates /\ Shape(x, q)
  BY <1>1, <1>3, StartTypes, WatchdogAssumption DEF ProcStates, Shape
<1>5. Becomes(x, q) \/ Becomes(x, Proceeds(r))
  BY DEF Settles
<1> HIDE DEF q
<1> QED BY <1>1, <1>2, <1>4, <1>5, ProceedsTypes, StepShaped

\* The four ways to go on after a look at the footer.
Presses(x, m) ==
  /\ m # Target(proc[x]) /\ proc[x].left > 0
  /\ Becomes(x, [proc[x] EXCEPT !.left = @ - 1])
  /\ IF proc[x].pane \in Open
     THEN /\ mode' = [mode EXCEPT ![proc[x].pane] = After(@)]
          /\ touched' = touched \cup {session[proc[x].pane]}
     ELSE UNCHANGED <<mode, touched>>
  /\ UNCHANGED <<overdue, raised>>

Dropped(x) == [proc[x] EXCEPT !.goal = None, !.before = None, !.left = 0]

\* What is written into the entry of the pane: three ways to be done with it.
Ends(x, m, d, r) ==
  /\ UNCHANGED <<mode, touched>>
  /\ overdue' \in SUBSET Panes /\ raised' \in [Sessions -> Nat]
  /\ \/ /\ r = Escalated([Dropped(x) EXCEPT !.mem = Keeps(x, d)]) /\ proc[x].goal = "manual"
        /\ d = [Entry(x) EXCEPT !.denials = 0, !.escalated = TRUE, !.before = proc[x].before]
        /\ m = "manual"
        /\ raised' = IF proc[x].pane \in Open THEN [raised EXCEPT ![session[proc[x].pane]] = @ + 1]
                     ELSE raised
     \/ /\ r = Escalated([Dropped(x) EXCEPT !.mem = Keeps(x, d)]) /\ proc[x].goal = "manual"
        /\ d = [Entry(x) EXCEPT !.denials = 0]
        /\ m # "manual" /\ proc[x].left = 0 /\ raised' = raised
     \/ /\ r = Proceeds([Dropped(x) EXCEPT !.mem = Keeps(x, d)]) /\ proc[x].goal = "back"
        /\ d = [Entry(x) EXCEPT !.escalated = FALSE, !.before = None]
        /\ m = Target(proc[x]) \/ proc[x].left = 0
        /\ raised' = raised

LEMMA CyclesSplit ==
  ASSUME Shaped, NEW x \in Procs, Cycles(x)
  PROVE  /\ proc[x].at = "cycles" /\ UNCHANGED <<session, idle, home, log, disk, heir, killed>>
         /\ \E m \in Footers :
              /\ Reads(proc[x].pane, m)
              /\ Presses(x, m) \/ \E d, r : Ends(x, m, d, r) /\ Becomes(x, r)
<1> DEFINE p == proc[x].pane
           r == proc[x]
<1>1. p \in Panes /\ r \in ProcStates
  BY InHand DEF Cycles
<1>2. r.at = "cycles" /\ UNCHANGED <<session, idle, home, log, disk, heir, killed>>
  BY DEF Cycles
<1>3. PICK m \in Footers :
       /\ Reads(p, m)
       /\ \/ Presses(x, m)
          \/ /\ m = "manual" /\ r.goal = "manual"
             /\ Lands(x, r)
             /\ raised' = IF p \in Open THEN [raised EXCEPT ![session[p]] = @ + 1] ELSE raised
             /\ overdue' = overdue \ {p}
             /\ UNCHANGED <<mode, touched>>
          \/ /\ m # Target(r) /\ r.left = 0 /\ r.goal = "manual"
             /\ Becomes(x, Escalated([Dropped(x) EXCEPT !.mem = Keeps(x, [Entry(x) EXCEPT !.denials = 0])]))
             /\ UNCHANGED <<mode, touched, overdue, raised>>
          \/ /\ r.goal = "back" /\ (m = Target(r) \/ r.left = 0)
             /\ Becomes(x, Proceeds([Dropped(x) EXCEPT !.mem = Keeps(x, [Entry(x) EXCEPT !.escalated = FALSE, !.before = None])]))
             /\ UNCHANGED <<mode, touched, overdue, raised>>
  BY DEF Cycles, Presses, Dropped
<1>4. CASE Presses(x, m)
  BY <1>2, <1>3, <1>4
<1>5. CASE /\ m = "manual" /\ r.goal = "manual"
           /\ Lands(x, r)
           /\ raised' = IF p \in Open THEN [raised EXCEPT ![session[p]] = @ + 1] ELSE raised
           /\ overdue' = overdue \ {p}
           /\ UNCHANGED <<mode, touched>>
  <2> DEFINE d == [Entry(x) EXCEPT !.denials = 0, !.escalated = TRUE, !.before = proc[x].before]
             q == Escalated([Dropped(x) EXCEPT !.mem = Keeps(x, d)])
  <2>1. [r EXCEPT !.goal = None, !.before = None, !.left = 0, !.mem = Keeps(x, d)]
          = [Dropped(x) EXCEPT !.mem = Keeps(x, d)]
    BY <1>1 DEF Dropped, ProcStates
  <2>2. Becomes(x, q)
    BY <1>5, <2>1 DEF Lands
  <2>3. overdue' \in SUBSET Panes /\ raised' \in [Sessions -> Nat]
    BY <1>1, <1>5 DEF Open, Shaped, TypeOK
  <2>4. Ends(x, m, d, q)
    BY <1>5, <2>3 DEF Ends
  <2> QED BY <1>2, <1>3, <2>2, <2>4
<1>6. CASE /\ m # Target(r) /\ r.left = 0 /\ r.goal = "manual"
           /\ Becomes(x, Escalated([Dropped(x) EXCEPT !.mem = Keeps(x, [Entry(x) EXCEPT !.denials = 0])]))
           /\ UNCHANGED <<mode, touched, overdue, raised>>
  <2> DEFINE d == [Entry(x) EXCEPT !.denials = 0]
             q == Escalated([Dropped(x) EXCEPT !.mem = Keeps(x, d)])
  <2>1. Ends(x, m, d, q) /\ Becomes(x, q)
    BY <1>6 DEF Ends, Target, Shaped, TypeOK
  <2> QED BY <1>2, <1>3, <2>1
<1>7. CASE /\ r.goal = "back" /\ (m = Target(r) \/ r.left = 0)
           /\ Becomes(x, Proceeds([Dropped(x) EXCEPT !.mem = Keeps(x, [Entry(x) EXCEPT !.escalated = FALSE, !.before = None])]))
           /\ UNCHANGED <<mode, touched, overdue, raised>>
  <2> DEFINE d == [Entry(x) EXCEPT !.escalated = FALSE, !.before = None]
             q == Proceeds([Dropped(x) EXCEPT !.mem = Keeps(x, d)])
  <2>1. Ends(x, m, d, q) /\ Becomes(x, q)
    BY <1>7 DEF Ends, Shaped, TypeOK
  <2> QED BY <1>2, <1>3, <2>1
<1> QED BY <1>3, <1>4, <1>5, <1>6, <1>7

LEMMA CyclesShaped ==
  ASSUME Shaped, NEW x \in Procs, Cycles(x)
  PROVE  Shaped'
<1> DEFINE s == proc[x]
<1>1. /\ s \in ProcStates /\ s.pane \in Panes /\ s.at = "cycles"
      /\ s.kind = "poll" <=> x = "poll"
      /\ x = "poll" => s.found[s.pane] # 0
  BY InHand DEF Cycles
<1>2. UNCHANGED <<session, idle, home, log, disk, heir, killed>>
  BY CyclesSplit
<1> DEFINE Over(m) == \E d, r : Ends(x, m, d, r) /\ Becomes(x, r)
<1> HIDE DEF Over
<1>3. PICK m \in Footers : Reads(s.pane, m) /\ (Presses(x, m) \/ Over(m))
  BY CyclesSplit DEF Over
<1>4. /\ left' \in [sessions : Nat, denials : Nat, faults : Nat] /\ left'.sessions = left.sessions
      /\ disturbed' \subseteq Panes \cup {None}
  <2>1. Reads(s.pane, m)
    BY <1>3
  <2>2. s.pane \in Panes
    BY <1>1
  <2> HIDE DEF s
  <2> QED BY <2>1, <2>2, ReadsTypes
<1>5. CASE Presses(x, m)
  <2> DEFINE q == [s EXCEPT !.left = @ - 1]
  <2>1. q \in ProcStates /\ Shape(x, q) /\ Becomes(x, q)
    BY <1>1, <1>5 DEF Presses, ProcStates, Shape
  <2> HIDE DEF q
  <2>2. proc' \in [Procs -> ProcStates] /\ \A y \in Procs : Shape(y, proc'[y])
    BY <2>1, ProcTypes
  <2>3. /\ mode' \in [Panes -> Footers] /\ \A o \in Open : mode'[o] \in Modes
        /\ touched' \subseteq Sessions
    <3>1. CASE s.pane \in Open
      <4>1. After(mode[s.pane]) \in Modes
        BY <3>1, RingTypes DEF Shaped, TypeOK
      <4> QED BY <1>5, <3>1, <4>1, StartTypes DEF Presses, Open, Shaped, TypeOK
    <3>2. CASE s.pane \notin Open
      BY <1>5, <3>2 DEF Presses, Shaped, TypeOK
    <3> QED BY <3>1, <3>2
  <2>4. UNCHANGED <<overdue, raised>>
    BY <1>5 DEF Presses
  <2> QED BY <1>2, <1>4, <2>2, <2>3, <2>4 DEF Shaped, TypeOK, Open
<1>6. CASE Over(m)
  <2>1. PICK d, r : Ends(x, m, d, r) /\ Becomes(x, r)
    BY <1>6 DEF Over
  <2> DEFINE q == [Dropped(x) EXCEPT !.mem = Keeps(x, d)]
  <2>2. d \in Entries
    <3>1. Entry(x) \in Entries
      BY <1>1 DEF Entry, ProcStates
    <3>2. s.before \in Footers /\ None \in Footers
      BY <1>1, StartTypes DEF ProcStates
    <3>3. /\ [Entry(x) EXCEPT !.denials = 0] \in Entries
          /\ [Entry(x) EXCEPT !.denials = 0, !.escalated = TRUE, !.before = s.before] \in Entries
          /\ [Entry(x) EXCEPT !.escalated = FALSE, !.before = None] \in Entries
      BY <3>1, <3>2 DEF Entries
    <3> QED BY <2>1, <3>3 DEF Ends
  <2>3. Keeps(x, d) \in [Panes -> Entries]
    BY <1>1, <2>2, KeepsTypes
  <2>4. /\ q \in ProcStates /\ q.pane \in Panes /\ (q.kind = "poll" <=> x = "poll")
        /\ x = "poll" => q.found[q.pane] # 0
    BY <1>1, <2>3, StartTypes DEF Dropped, ProcStates
  <2>5. r = Escalated(q) \/ r = Proceeds(q)
    BY <2>1 DEF Ends
  <2> HIDE DEF q
  <2>6. r \in ProcStates /\ Shape(x, r)
    BY <2>4, <2>5, EscalatedTypes, ProceedsTypes
  <2>7. Others
    BY <1>2, <1>4, <2>1 DEF Ends, Others, agents, Shaped, TypeOK
  <2> QED BY <2>1, <2>6, <2>7, StepShaped
<1> QED BY <1>3, <1>5, <1>6

\* The hooks load, return and save; the loop loads, picks and saves.
LEMMA HookShaped ==
  ASSUME Shaped, NEW h \in Hooks, HookReturns(h) \/ HookLoads(h) \/ HookSaves(h)
  PROVE  Shaped'
<1>0. h \in Procs /\ h # "poll"
  BY WatchdogAssumption DEF Procs
<1>1. CASE HookReturns(h)
  <2>1. Others /\ Becomes(h, Off)
    BY <1>1 DEF HookReturns, Others, agents, history, Shaped, TypeOK
  <2> QED BY <1>0, <2>1, OffTypes, StepShaped
<1>2. CASE HookLoads(h)
  <2> DEFINE q == [proc[h] EXCEPT !.at = IF proc[h].kind \in {"stop", "tool"} THEN "settles" ELSE "looks",
                                  !.mem = disk]
  <2>1. Others /\ Becomes(h, q)
    BY <1>2 DEF HookLoads, Others, agents, history, Shaped, TypeOK
  <2>2. proc[h] \in ProcStates /\ proc[h].at = "waits" /\ Shape(h, proc[h]) /\ proc[h].kind # "blocked"
    BY <1>0, <1>2 DEF HookLoads, Reacts, Shaped, TypeOK
  <2>3. q \in ProcStates /\ Shape(h, q)
    BY <1>0, <2>2 DEF ProcStates, Shape, Shaped, TypeOK
  <2> HIDE DEF q
  <2> QED BY <1>0, <2>1, <2>3, StepShaped
<1>3. CASE HookSaves(h)
  <2>1. Others /\ Becomes(h, Off)
    BY <1>0, <1>3 DEF HookSaves, Others, agents, history, Shaped, TypeOK, ProcStates
  <2> QED BY <1>0, <2>1, OffTypes, StepShaped
<1> QED BY <1>1, <1>2, <1>3

LEMMA PollShaped ==
  ASSUME Shaped, PollLoads \/ PollSaves \/ \E p \in Panes : PollPicks(p)
  PROVE  Shaped'
<1>0. "poll" \in Procs
  BY DEF Procs
<1>1. CASE PollLoads
  <2> DEFINE q == [Off EXCEPT !.at = "picks", !.kind = "poll", !.found = session,
                              !.seen = Open, !.idlers = {o \in Open : idle[o]}, !.mem = disk]
  <2>1. Others /\ Becomes("poll", q)
    BY <1>1 DEF PollLoads, Others, agents, history, Shaped, TypeOK
  <2>2. q \in ProcStates /\ Shape("poll", q)
    BY OffTypes DEF ProcStates, Shape, Shaped, TypeOK, Open
  <2> HIDE DEF q
  <2> QED BY <1>0, <2>1, <2>2, StepShaped
<1>2. CASE \E p \in Panes : PollPicks(p)
  <2> PICK p \in Panes : PollPicks(p)
    BY <1>2
  <2> DEFINE q == [proc["poll"] EXCEPT !.at = "looks", !.pane = p]
  <2>1. Others /\ Becomes("poll", q)
    BY DEF PollPicks, Others, agents, history, Shaped, TypeOK
  <2>2. proc["poll"] \in ProcStates /\ Shape("poll", proc["poll"])
        /\ proc["poll"].at = "picks" /\ proc["poll"].found[p] # 0
    BY <1>0 DEF PollPicks, Shaped, TypeOK
  <2>3. q \in ProcStates /\ Shape("poll", q)
    BY <2>2 DEF ProcStates, Shape
  <2> HIDE DEF q
  <2> QED BY <1>0, <2>1, <2>3, StepShaped
<1>3. CASE PollSaves
  <2>1. proc["poll"].mem \in [Panes -> Entries]
    BY <1>0 DEF Shaped, TypeOK, ProcStates
  <2>2. disk' \in [Panes -> Entries]
    BY <1>3, <2>1, OffTypes DEF PollSaves
  <2>3. Others /\ Becomes("poll", Off)
    BY <1>3, <2>2 DEF PollSaves, Others, agents, history, Shaped, TypeOK
  <2> QED BY <1>0, <2>3, OffTypes, StepShaped
<1> QED BY <1>1, <1>2, <1>3

LEMMA FaultsShaped ==
  ASSUME Shaped, NEW x \in Procs, Dies(x) \/ StateDeleted \/ TimePasses
  PROVE  Shaped'
<1>1. CASE Dies(x)
  <2>1. left' \in [sessions : Nat, denials : Nat, faults : Nat] /\ left'.sessions = left.sessions
    BY <1>1, SpendTypes DEF Dies
  <2>2. proc[x].pane \in Panes \cup {None}
    BY DEF Shaped, TypeOK, ProcStates
  <2>3. Others /\ Becomes(x, Off)
    BY <1>1, <2>1, <2>2 DEF Dies, Others, agents, Shaped, TypeOK
  <2> QED BY <2>3, OffTypes, StepShaped
<1>2. CASE StateDeleted
  <2>1. left' \in [sessions : Nat, denials : Nat, faults : Nat] /\ left'.sessions = left.sessions
    BY <1>2, SpendTypes DEF StateDeleted
  <2> QED BY <1>2, <2>1, OffTypes DEF StateDeleted, agents, Shaped, TypeOK, Open
<1>3. CASE TimePasses
  BY <1>3 DEF TimePasses, agents, history, Shaped, TypeOK, Open
<1> QED BY <1>1, <1>2, <1>3

LEMMA InitShaped == Init => Shaped
<1> SUFFICES ASSUME Init PROVE Shaped
  OBVIOUS
<1>1. PICK b \in Bounds : /\ left = [b EXCEPT !.sessions = @ - 1]
                         /\ session = [p \in Panes |-> IF p = First THEN b.sessions ELSE 0]
  BY DEF Init
<1>2. b \in [sessions : Nat \ {0}, denials : Nat, faults : Nat] /\ 1 .. b.sessions \subseteq Sessions
  BY WatchdogAssumption
<1>3. /\ left \in [sessions : Nat, denials : Nat, faults : Nat]
      /\ left.sessions = b.sessions - 1 /\ b.sessions \in Sessions
  BY <1>1, <1>2
<1>4. 1 .. left.sessions \subseteq Sessions /\ session \in [Panes -> Sessions \cup {0}]
  BY <1>1, <1>2, <1>3
<1> QED BY <1>1, <1>2, <1>3, <1>4, OffTypes, StartTypes DEF Init, Shaped, TypeOK, Open

LEMMA NextShaped == Shaped /\ [Next]_vars => Shaped'
<1> SUFFICES ASSUME Shaped, [Next]_vars PROVE Shaped'
  OBVIOUS
<1>1. CASE \E p \in Panes : Agents(p)
  BY <1>1, AgentsShaped
<1>2. CASE TimePasses \/ StateDeleted
  BY <1>2, FaultsShaped DEF Procs
<1>3. CASE PollLoads \/ Poll
  <2>0. "poll" \in Procs
    BY DEF Procs
  <2>1. CASE PollLoads \/ PollSaves \/ \E p \in Panes : PollPicks(p)
    BY <2>0, <2>1, PollShaped
  <2> QED BY <1>3, <2>0, <2>1, ScanShaped, EscalatesShaped, SettlesShaped, CyclesShaped DEF Poll, Acts
<1>4. CASE \E h \in Hooks : Hook(h)
  <2> PICK h \in Hooks : Hook(h)
    BY <1>4
  <2>1. h \in Procs
    BY DEF Procs
  <2> QED BY <2>1, HookShaped, NotesShaped, EscalatesShaped, SettlesShaped, CyclesShaped DEF Hook, Acts
<1>5. CASE \E x \in Procs : Dies(x)
  BY <1>5, FaultsShaped
<1>6. CASE UNCHANGED vars
  BY <1>6 DEF vars, agents, history, Shaped, TypeOK, Open
<1> QED BY <1>1, <1>2, <1>3, <1>4, <1>5, <1>6 DEF Next

LEMMA AlwaysShaped == Spec => []Shaped
BY InitShaped, NextShaped, PTL DEF Spec

\* The variables of the watchdog keep their types.
THEOREM TypeCorrect == Spec => []TypeOK
<1>1. Shaped => TypeOK
  BY DEF Shaped
<1> QED BY <1>1, AlwaysShaped, PTL

-----------------------------------------------------------------------------
(* Why a session may be touched.                                           *)

Reason(s) == log[s] > 0 \/ s \in heir
Justified(p) == session[p] # 0 => Reason(session[p])

\* An entry of the file, or of a process's memory: the pane's session has given
\* it the reason for what it says, unless it speaks of an earlier session.
EntryOK(p, e) == e.escalated \/ (e.denials > 0 /\ e.path = session[p]) => Justified(p)

\* No session that is yet to be opened.
Old(s) == s = 0 \/ s > left.sessions

ProcOK(r) ==
  /\ \A p \in Panes : EntryOK(p, r.mem[p]) /\ Old(r.mem[p].path) /\ Old(r.found[p])
  /\ \A p \in Panes : r.found[p] # 0 => session[p] \in {0, r.found[p]} \/ session[p] \in heir
  /\ r.pane \in Panes /\ (r.at \in {"escalates", "cycles"} \/ r.kind = "denied") => Justified(r.pane)

Reasons ==
  /\ \A p \in Panes : Old(session[p]) /\ Old(disk[p].path) /\ EntryOK(p, disk[p])
  /\ \A x \in Procs : ProcOK(proc[x])
  /\ \A s \in touched : Reason(s)

Known == Shaped /\ Reasons

-----------------------------------------------------------------------------
(* A step of the agents that opens nothing.                                *)

\* Panes close, denials are logged, nothing is forgotten.
Grows ==
  /\ \A p \in Panes : session'[p] \in {session[p], 0}
  /\ \A s \in Sessions : log'[s] >= log[s]
  /\ heir' = heir /\ left'.sessions = left.sessions /\ touched' = touched

LEMMA ReasonGrows ==
  ASSUME Known, Grows, Shaped'
  PROVE  /\ \A s \in Sessions : Reason(s) => Reason(s)'
         /\ \A s : Old(s)' = Old(s)
         /\ \A p \in Panes : Justified(p) => Justified(p)'
<1>1. \A s \in Sessions : Reason(s) => Reason(s)'
  BY DEF Known, Shaped, TypeOK, Grows, Reason
<1>2. \A s : Old(s)' = Old(s)
  BY DEF Grows, Old
<1>3. \A p \in Panes : Justified(p) => Justified(p)'
  BY <1>1 DEF Known, Shaped, TypeOK, Grows, Justified
<1> QED BY <1>1, <1>2, <1>3

LEMMA ProcGrows ==
  ASSUME Known, Grows, Shaped', NEW r \in ProcStates, ProcOK(r)
  PROVE  ProcOK(r)'
<1>1. \A p \in Panes : EntryOK(p, r.mem[p]) => EntryOK(p, r.mem[p])'
  <2> SUFFICES ASSUME NEW p \in Panes, EntryOK(p, r.mem[p]),
                      r.mem[p].escalated \/ (r.mem[p].denials > 0 /\ r.mem[p].path = session'[p])
               PROVE  Justified(p)'
    BY DEF EntryOK
  <2>1. CASE session'[p] = 0
    BY <2>1 DEF Justified
  <2>2. CASE session'[p] = session[p]
    <3>1. Justified(p)
      BY <2>2 DEF EntryOK
    <3> QED BY <3>1, ReasonGrows
  <2> QED BY <2>1, <2>2 DEF Grows
<1>2. \A p \in Panes : r.found[p] # 0 => session'[p] \in {0, r.found[p]} \/ session'[p] \in heir'
  BY DEF ProcOK, Grows
<1>3. /\ \A s : Old(s)' = Old(s)
      /\ \A p \in Panes : Justified(p) => Justified(p)'
  BY ReasonGrows
<1> QED BY <1>1, <1>2, <1>3 DEF ProcOK

LEMMA AgentStep ==
  ASSUME Known, Grows, Shaped', disk' = disk,
         \A x \in Procs : ProcOK(proc[x])' \/ proc'[x] = proc[x]
  PROVE  Reasons'
<1>1. \A x \in Procs : ProcOK(proc[x])'
  <2> SUFFICES ASSUME NEW x \in Procs, proc'[x] = proc[x] PROVE ProcOK(proc[x])'
    OBVIOUS
  <2>1. ProcOK(proc[x]) /\ proc[x] \in ProcStates
    BY DEF Known, Reasons, Shaped, TypeOK
  <2>2. \A r \in ProcStates : ProcOK(r) => ProcOK(r)'
    BY ProcGrows
  <2> QED BY <2>1, <2>2 DEF ProcOK, EntryOK, Justified, Reason, Old
<1>2. \A p \in Panes : Old(session[p])' /\ Old(disk[p].path)'
  BY ReasonGrows DEF Known, Reasons, Grows, Old
<1>3. \A p \in Panes : EntryOK(p, disk[p])'
  <2> SUFFICES ASSUME NEW p \in Panes,
                      disk[p].escalated \/ (disk[p].denials > 0 /\ disk[p].path = session'[p])
               PROVE  Justified(p)'
    BY DEF EntryOK
  <2>1. CASE session'[p] = 0
    BY <2>1 DEF Justified
  <2>2. CASE session'[p] = session[p]
    <3>1. Justified(p)
      BY <2>2 DEF EntryOK, Known, Reasons
    <3> QED BY <3>1, ReasonGrows
  <2> QED BY <2>1, <2>2 DEF Grows
<1>4. \A s \in touched' : Reason(s)'
  BY ReasonGrows DEF Known, Reasons, Grows, Shaped, TypeOK
<1> QED BY <1>1, <1>2, <1>3, <1>4 DEF Reasons

LEMMA StartReasons ==
  ASSUME Known, Shaped', NEW p \in Panes, NEW kind \in {"stop", "tool", "denied", "blocked"},
         Starts(kind, p), kind = "denied" => Justified(p)'
  PROVE  \A x \in Procs : ProcOK(proc[x])' \/ proc'[x] = proc[x]
<1>1. CASE UNCHANGED proc
  BY <1>1
<1>2. CASE \E h \in Hooks : Becomes(h, [Off EXCEPT !.at = "waits", !.kind = kind, !.pane = p])
  <2> PICK h \in Hooks : Becomes(h, [Off EXCEPT !.at = "waits", !.kind = kind, !.pane = p])
    BY <1>2
  <2> DEFINE r == [Off EXCEPT !.at = "waits", !.kind = kind, !.pane = p]
  <2>1. /\ r.at = "waits" /\ r.kind = kind /\ r.pane = p
        /\ \A q \in Panes : r.found[q] = 0 /\ r.mem[q] = Blank
    BY OffTypes DEF ProcStates, Off
  <2> HIDE DEF r
  <2>2. \A q \in Panes : EntryOK(q, r.mem[q])' /\ Old(r.mem[q].path)' /\ Old(r.found[q])'
    BY <2>1 DEF EntryOK, Old, Blank
  <2>3. proc'[h] = r /\ \A x \in Procs : x # h => proc'[x] = proc[x]
    BY DEF r, Becomes, Known, Shaped, TypeOK, Procs
  <2>4. ProcOK(proc[h])'
    BY <2>1, <2>2, <2>3 DEF ProcOK, EntryOK, Old, Justified, Reason
  <2> QED BY <2>3, <2>4
<1> QED BY <1>1, <1>2 DEF Starts

LEMMA OpensReasons ==
  ASSUME Known, Shaped', NEW p \in Panes, Opens(p)
  PROVE  Reasons'
<1> DEFINE s == left.sessions
<1>1. /\ s \in Nat /\ s > 0 /\ left'.sessions = s - 1
      /\ session' = [session EXCEPT ![p] = s]
      /\ log' = log /\ disk' = disk /\ proc' = proc /\ touched' = touched
  BY DEF Opens, Spend, Known, Shaped, TypeOK
<1>0. Sessions \cup {0} \subseteq Nat
  BY WatchdogAssumption
<1>2. session'[p] = s /\ \A q \in Panes : q # p => session'[q] = session[q]
  BY <1>1 DEF Known, Shaped, TypeOK
<1>3. heir \subseteq heir' /\ (s \in heir' \/ (~disk[p].escalated /\ \A x \in Procs : ~WorksOn(x, p)))
  BY DEF Opens
<1>4. /\ \A t : Reason(t) => Reason(t)'
      /\ \A t \in Nat : Old(t) => Old(t)'
      /\ s > left'.sessions
  <2>1. \A t : Reason(t) => Reason(t)'
    BY <1>1, <1>3 DEF Reason
  <2>2. \A t \in Nat : t > s => t > s - 1
    BY <1>1
  <2>3. s > s - 1
    BY <1>1
  <2>4. \A t : Old(t)' <=> (t = 0 \/ t > s - 1)
    BY <1>1 DEF Old
  <2>5. s > left'.sessions
    BY <1>1
  <2> QED BY <2>1, <2>2, <2>4, <2>5 DEF Old
<1>5. \A q \in Panes : q # p /\ Justified(q) => Justified(q)'
  BY <1>2, <1>4 DEF Justified
<1>6. s \in heir' => Justified(p)'
  BY <1>2 DEF Justified, Reason
<1>7. ASSUME NEW e \in Entries, NEW q \in Panes, EntryOK(q, e), Old(e.path),
             q = p => (s \in heir' \/ ~e.escalated)
      PROVE  EntryOK(q, e)' /\ Old(e.path)'
  <2>1. CASE q # p
    BY <1>0, <1>2, <1>4, <1>5, <1>7, <2>1 DEF EntryOK, Entries
  <2>2. CASE q = p
    <3>1. e.path # s
      BY <1>1, <1>7 DEF Old, Entries
    <3>2. Old(e.path)'
      BY <1>0, <1>4, <1>7 DEF Entries
    <3> QED BY <1>2, <1>6, <1>7, <2>2, <3>1, <3>2 DEF EntryOK
  <2> QED BY <2>1, <2>2
<1>8. \A q \in Panes : Old(session[q])' /\ Old(disk[q].path)' /\ EntryOK(q, disk[q])'
  <2> SUFFICES ASSUME NEW q \in Panes PROVE Old(session[q])' /\ Old(disk[q].path)' /\ EntryOK(q, disk[q])'
    OBVIOUS
  <2>1. Old(session[q])'
    <3>1. CASE q = p
      BY <1>1, <1>2, <1>4, <3>1 DEF Old
    <3>2. CASE q # p
      <4>1. session[q] \in Nat /\ Old(session[q])
        BY <1>0 DEF Known, Shaped, TypeOK, Reasons
      <4> QED BY <1>1, <1>2, <4>1, <3>2 DEF Old
    <3> QED BY <3>1, <3>2
  <2>2. disk[q] \in Entries /\ EntryOK(q, disk[q]) /\ Old(disk[q].path)
    BY DEF Known, Shaped, TypeOK, Reasons
  <2>3. \A e \in Entries : e = disk[q] => EntryOK(q, e)' /\ Old(e.path)'
    BY <1>3, <1>7, <2>2
  <2> QED BY <1>1, <2>1, <2>2, <2>3 DEF EntryOK, Old, Justified, Reason
<1>9. \A x \in Procs : ProcOK(proc[x])'
  <2> SUFFICES ASSUME NEW x \in Procs PROVE ProcOK(proc[x])'
    OBVIOUS
  <2> PICK r : r = proc[x]
    OBVIOUS
  <2>1. r \in ProcStates /\ ProcOK(r)
    BY DEF Known, Shaped, TypeOK, Reasons
  <2>2. s \in heir' \/ (r.pane # p /\ r.found[p] = 0 /\ ~r.mem[p].escalated)
    BY <1>3 DEF WorksOn
  <2>3. \A q \in Panes : EntryOK(q, r.mem[q])' /\ Old(r.mem[q].path)'
    <3> SUFFICES ASSUME NEW q \in Panes PROVE EntryOK(q, r.mem[q])' /\ Old(r.mem[q].path)'
      OBVIOUS
    <3>1. r.mem[q] \in Entries /\ EntryOK(q, r.mem[q]) /\ Old(r.mem[q].path)
      BY <2>1 DEF ProcStates, ProcOK
    <3> QED BY <1>7, <2>2, <3>1
  <2>4. \A q \in Panes : Old(r.found[q])'
    BY <1>0, <1>4, <2>1 DEF ProcOK, ProcStates
  <2>5. \A q \in Panes : r.found[q] # 0 => session'[q] \in {0, r.found[q]} \/ session'[q] \in heir'
    BY <1>2, <1>3, <2>1, <2>2 DEF ProcOK
  <2>6. r.pane \in Panes /\ (r.at \in {"escalates", "cycles"} \/ r.kind = "denied") => Justified(r.pane)'
    BY <1>5, <1>6, <2>1, <2>2 DEF ProcOK
  <2> QED BY <1>1, <2>3, <2>4, <2>5, <2>6 DEF ProcOK, EntryOK, Old, Justified, Reason
<1> QED BY <1>1, <1>4, <1>8, <1>9 DEF Reasons, Known

LEMMA AgentsReasons ==
  ASSUME Known, Shaped', NEW p \in Panes, Agents(p)
  PROVE  Reasons'
<1>1. CASE PromptGiven(p) \/ HumanPresses(p) \/ Closes(p)
  <2>1. Grows /\ disk' = disk /\ proc' = proc
    BY <1>1, SpendTypes DEF PromptGiven, HumanPresses, Closes, Grows, history, Known, Shaped, TypeOK
  <2> QED BY <2>1, AgentStep
<1>2. CASE TurnEnds(p) \/ CallsTool(p) \/ Blocked(p)
  <2>1. Grows /\ disk' = disk /\ \E kind \in {"stop", "tool", "blocked"} : Starts(kind, p)
    BY <1>2 DEF TurnEnds, CallsTool, Blocked, Grows, agents, history, Known, Shaped, TypeOK
  <2> QED BY <2>1, StartReasons, AgentStep
<1>3. CASE Denied(p)
  <2>1. session[p] \in Sessions /\ log' = [log EXCEPT ![session[p]] = log[session[p]] + 1]
    BY <1>3 DEF Denied, Open, Known, Shaped, TypeOK
  <2>2. Grows /\ disk' = disk /\ Starts("denied", p)
    <3>1. \A s \in Sessions : log'[s] >= log[s]
      BY <2>1 DEF Known, Shaped, TypeOK
    <3>2. left'.sessions = left.sessions
      BY <1>3, SpendTypes DEF Denied, Known
    <3>3. /\ UNCHANGED <<session, heir, touched, disk>> /\ Starts("denied", p)
      BY <1>3 DEF Denied, history
    <3> QED BY <3>1, <3>2, <3>3 DEF Grows
  <2>3. log'[session[p]] > 0 /\ session' = session
    BY <1>3, <2>1 DEF Denied, Known, Shaped, TypeOK
  <2>4. Justified(p)'
    BY <2>3 DEF Justified, Reason
  <2> QED BY <2>2, <2>4, StartReasons, AgentStep
<1>4. CASE Opens(p)
  BY <1>4, OpensReasons
<1> QED BY <1>1, <1>2, <1>3, <1>4 DEF Agents

-----------------------------------------------------------------------------
(* A step of a process.                                                    *)

LEMMA ProcStep ==
  ASSUME Known, NEW x \in Procs, NEW r \in ProcStates, ProcOK(r), Becomes(x, r),
         UNCHANGED <<session, log, heir>>, left'.sessions = left.sessions,
         \A s \in touched' : Reason(s),
         \A p \in Panes : Old(disk'[p].path) /\ EntryOK(p, disk'[p])
  PROVE  Reasons'
<1>1. \A y \in Procs : proc'[y] = IF y = x THEN r ELSE proc[y]
  BY DEF Becomes, Known, Shaped, TypeOK
<1>2. \A y \in Procs : ProcOK(proc[y])'
  <2> SUFFICES ASSUME NEW y \in Procs PROVE ProcOK(proc[y])'
    OBVIOUS
  <2> PICK q : q = proc'[y]
    OBVIOUS
  <2>1. ProcOK(q)
    BY <1>1 DEF Known, Reasons
  <2> QED BY <2>1 DEF ProcOK, EntryOK, Old, Justified, Reason
<1>3. \A p \in Panes : Old(session[p])' /\ Old(disk[p].path)' /\ EntryOK(p, disk[p])'
  BY DEF Known, Reasons, EntryOK, Old, Justified, Reason
<1>4. \A s \in touched' : Reason(s)'
  BY DEF Reason
<1> QED BY <1>2, <1>3, <1>4 DEF Reasons

\* The same, when neither the file nor a pane is written.
LEMMA QuietStep ==
  ASSUME Known, NEW x \in Procs, NEW r \in ProcStates, ProcOK(r), Becomes(x, r),
         UNCHANGED <<session, log, heir, disk, touched>>, left'.sessions = left.sessions
  PROVE  Reasons'
BY ProcStep DEF Known, Reasons

LEMMA KeepsOK ==
  ASSUME Known, NEW x \in Procs, proc[x].pane \in Panes, NEW e \in Entries,
         EntryOK(proc[x].pane, e), Old(e.path)
  PROVE  \A p \in Panes : EntryOK(p, Keeps(x, e)[p]) /\ Old(Keeps(x, e)[p].path)
<1>1. ProcOK(proc[x])
  BY DEF Known, Reasons
<1>2. \A p \in Panes : Keeps(x, e)[p] = IF p = proc[x].pane THEN e ELSE proc[x].mem[p]
  BY KeepsTypes DEF Known
<1> SUFFICES ASSUME NEW p \in Panes PROVE EntryOK(p, Keeps(x, e)[p]) /\ Old(Keeps(x, e)[p].path)
  BY Zenon
<1>3. CASE p = proc[x].pane
  BY <1>2, <1>3
<1>4. CASE p # proc[x].pane
  <2>1. EntryOK(p, proc[x].mem[p]) /\ Old(proc[x].mem[p].path)
    BY <1>1 DEF ProcOK
  <2> QED BY <1>2, <1>4, <2>1
<1> QED BY <1>3, <1>4

LEMMA ProceedsOK ==
  ASSUME NEW r \in ProcStates, r.pane \in Panes, ProcOK(r)
  PROVE  ProcOK(Proceeds(r))
<1>1. CASE r.kind = "poll"
  <2> DEFINE q == Proceeds(r)
  <2>1. /\ q.mem = r.mem /\ q.at = "picks" /\ q.kind = "poll"
        /\ \A p \in Panes : q.found[p] = 0 \/ q.found[p] = r.found[p]
    BY <1>1 DEF Proceeds, ProcStates
  <2> HIDE DEF q
  <2>2. ProcOK(q)
    BY <2>1 DEF ProcOK, Old
  <2> QED BY <2>2 DEF q
<1>2. CASE r.kind # "poll"
  <2> DEFINE q == Proceeds(r)
  <2>1. q.mem = r.mem /\ q.at = "saves" /\ q.kind = r.kind /\ q.pane = r.pane /\ q.found = r.found
    BY <1>2 DEF Proceeds, ProcStates
  <2> HIDE DEF q
  <2>2. ProcOK(q)
    BY <2>1 DEF ProcOK
  <2> QED BY <2>2 DEF q
<1> QED BY <1>1, <1>2

LEMMA EscalatedOK ==
  ASSUME NEW r \in ProcStates, r.pane \in Panes, ProcOK(r)
  PROVE  ProcOK(Escalated(r))
<1>1. CASE r.kind = "poll"
  <2> DEFINE q == Escalated(r)
  <2>1. q.mem = r.mem /\ q.at = "settles" /\ q.kind = r.kind /\ q.pane = r.pane /\ q.found = r.found
    BY <1>1 DEF Escalated, ProcStates
  <2> HIDE DEF q
  <2>2. ProcOK(q)
    BY <2>1 DEF ProcOK
  <2> QED BY <2>2 DEF q
<1>2. CASE r.kind # "poll"
  BY <1>2, ProceedsOK DEF Escalated
<1> QED BY <1>1, <1>2

\* A state of a process that differs in its memory only, and in where it stands.
LEMMA ChangesOK ==
  ASSUME Known, NEW x \in Procs, NEW e \in Entries, proc[x].pane \in Panes,
         EntryOK(proc[x].pane, e), Old(e.path),
         NEW q \in ProcStates, q.mem = Keeps(x, e), q.found = proc[x].found,
         q.pane = proc[x].pane, q.kind = proc[x].kind,
         q.at \in {"escalates", "cycles"} => Justified(q.pane)
  PROVE  ProcOK(q)
BY KeepsOK DEF Known, Reasons, ProcOK

LEMMA ScanReasons ==
  ASSUME Known, Scan
  PROVE  Reasons'
<1> DEFINE r == proc["poll"]
           s == r.found[r.pane]
           e == IF Entry("poll").path = s THEN Entry("poll")
                ELSE [Entry("poll") EXCEPT !.path = s, !.offset = log[s], !.denials = 0]
<1>1. /\ "poll" \in Procs /\ r.at = "looks" /\ r \in ProcStates /\ r.pane \in Panes
      /\ r.kind = "poll" /\ s # 0 /\ ProcOK(r)
  BY InHand DEF Scan, Procs, Known, Reasons
<1>2. s \in Sessions /\ log[s] \in Nat
  BY <1>1 DEF ProcStates, Known, Shaped, TypeOK
<1>3. /\ Entry("poll") \in Entries /\ Old(Entry("poll").path) /\ Old(s)
      /\ EntryOK(r.pane, Entry("poll"))
  BY <1>1 DEF Entry, ProcStates, ProcOK
<1>4. /\ e \in Entries /\ e.path = s /\ e.escalated = Entry("poll").escalated
      /\ EntryOK(r.pane, e)
  <2>1. CASE Entry("poll").path = s
    BY <1>3, <2>1
  <2>2. CASE Entry("poll").path # s
    <3>1. /\ e \in Entries /\ e.path = s /\ e.escalated = Entry("poll").escalated /\ e.denials = 0
      BY <1>2, <1>3, <2>2 DEF Entries
    <3> QED BY <1>3, <3>1 DEF EntryOK
  <2> QED BY <2>1, <2>2
<1> HIDE DEF e
<1>5. PICK n \in IF log[s] > e.offset /\ ~e.escalated THEN 0 .. e.denials + log[s] - e.offset
                  ELSE {e.denials} :
           Becomes("poll", [r EXCEPT !.at = IF ~e.escalated /\ n >= THRESHOLD THEN "escalates" ELSE "settles",
                                     !.mem = Keeps("poll", [e EXCEPT !.offset = log[s], !.denials = n])])
  BY DEF Scan, e
<1>6. n \in Nat /\ e.denials \in Nat /\ e.offset \in Nat /\ THRESHOLD \in Nat /\ THRESHOLD > 0
  BY <1>2, <1>4, <1>5, WatchdogAssumption DEF Entries
\* The denials are the session's own, or it was opened while the tick had the pane.
<1>7. n > 0 /\ ~e.escalated => Justified(r.pane)
  <2> SUFFICES ASSUME n > 0, ~e.escalated, session[r.pane] # 0 PROVE Reason(session[r.pane])
    BY DEF Justified
  <2>1. CASE session[r.pane] \in heir
    BY <2>1 DEF Reason
  <2>2. CASE session[r.pane] = s
    <3>1. CASE log[s] > e.offset
      BY <1>2, <1>6, <2>2, <3>1 DEF Reason
    <3>2. CASE ~(log[s] > e.offset)
      <4>1. e.denials > 0
        BY <1>5, <3>2
      <4> QED BY <1>4, <2>2, <4>1 DEF EntryOK, Justified
    <3> QED BY <3>1, <3>2
  <2> QED BY <1>1, <2>1, <2>2 DEF ProcOK
<1> DEFINE d == [e EXCEPT !.offset = log[s], !.denials = n]
           q == [r EXCEPT !.at = IF ~e.escalated /\ n >= THRESHOLD THEN "escalates" ELSE "settles",
                          !.mem = Keeps("poll", d)]
<1>8. d \in Entries /\ d.path = s /\ d.escalated = e.escalated /\ d.denials = n
  BY <1>2, <1>4, <1>6 DEF Entries
<1> HIDE DEF d
<1>9. EntryOK(r.pane, d) /\ Old(d.path)
  BY <1>3, <1>4, <1>7, <1>8 DEF EntryOK
<1>10. Keeps("poll", d) \in [Panes -> Entries]
  BY <1>1, <1>8, KeepsTypes DEF Known
<1>11. /\ q \in ProcStates /\ q.mem = Keeps("poll", d) /\ q.found = r.found /\ q.pane = r.pane
       /\ q.kind = r.kind /\ q.at = IF ~e.escalated /\ n >= THRESHOLD THEN "escalates" ELSE "settles"
  BY <1>1, <1>10 DEF ProcStates
<1>12. Becomes("poll", q)
  BY <1>5 DEF d
<1> HIDE DEF q
<1>13. q.at \in {"escalates", "cycles"} => Justified(q.pane)
  BY <1>6, <1>7, <1>11
<1>14. ProcOK(q)
  BY <1>1, <1>8, <1>9, <1>11, <1>13, ChangesOK
<1>15. UNCHANGED <<session, log, heir, disk, touched>> /\ left'.sessions = left.sessions
  BY DEF Scan, agents, history
<1> QED BY <1>1, <1>11, <1>12, <1>14, <1>15, QuietStep

LEMMA NotesReasons ==
  ASSUME Known, NEW h \in Hooks, Notes(h)
  PROVE  Reasons'
<1> DEFINE r == proc[h]
<1>1. /\ h \in Procs /\ h # "poll" /\ r \in ProcStates /\ r.pane \in Panes /\ r.kind # "poll"
      /\ r.at = "looks" /\ ProcOK(r)
  BY InHand, WatchdogAssumption DEF Notes, Procs, Known, Reasons
<1>2. UNCHANGED <<session, log, heir, disk, touched>> /\ left'.sessions = left.sessions
  BY DEF Notes, agents, history
<1>3. Justified(r.pane)
  <2>1. r.kind = "denied"
    BY <1>1 DEF Known, Shaped, Shape
  <2> QED BY <1>1, <2>1 DEF ProcOK
<1>4. CASE Entry(h).escalated
  <2>1. Becomes(h, Proceeds(r))
    BY <1>4 DEF Notes
  <2> QED BY <1>1, <1>2, <2>1, ProceedsTypes, ProceedsOK, QuietStep
<1>5. CASE ~Entry(h).escalated
  <2>1. PICK n \in 1 .. Entry(h).denials + 1 :
          Becomes(h, [r EXCEPT !.at = IF n >= THRESHOLD THEN "escalates" ELSE "saves",
                               !.mem = Keeps(h, [Entry(h) EXCEPT !.denials = n])])
    BY <1>5 DEF Notes
  <2> DEFINE d == [Entry(h) EXCEPT !.denials = n]
             q == [r EXCEPT !.at = IF n >= THRESHOLD THEN "escalates" ELSE "saves", !.mem = Keeps(h, d)]
  <2>2. Entry(h) \in Entries /\ n \in Nat /\ Old(Entry(h).path)
    BY <1>1 DEF Entry, ProcStates, Entries, ProcOK
  <2>3. d \in Entries /\ d.path = Entry(h).path
    BY <2>2 DEF Entries
  <2>4. Becomes(h, q)
    BY <2>1
  <2> HIDE DEF d
  <2>5. Keeps(h, d) \in [Panes -> Entries]
    BY <1>1, <2>3, KeepsTypes DEF Known
  <2>6. q \in ProcStates /\ q.mem = Keeps(h, d) /\ q.found = r.found /\ q.pane = r.pane /\ q.kind = r.kind
    BY <1>1, <2>5 DEF ProcStates
  <2> HIDE DEF q
  <2>7. EntryOK(r.pane, d) /\ Old(d.path)
    BY <1>3, <2>2, <2>3 DEF EntryOK
  <2>8. ProcOK(q)
    BY <1>1, <1>3, <2>3, <2>6, <2>7, ChangesOK
  <2> QED BY <1>1, <1>2, <2>4, <2>6, <2>8, QuietStep
<1> QED BY <1>4, <1>5

LEMMA EscalatesReasons ==
  ASSUME Known, NEW x \in Procs, Escalates(x)
  PROVE  Reasons'
<1> DEFINE r == proc[x]
<1>1. /\ r \in ProcStates /\ r.pane \in Panes /\ r.at = "escalates" /\ ProcOK(r)
      /\ r.kind = "poll" <=> x = "poll"
      /\ x = "poll" => r.found[r.pane] # 0
  BY InHand DEF Escalates, Known, Reasons
<1>2. Justified(r.pane)
  BY <1>1 DEF ProcOK
<1>3. PICK m \in Footers :
        /\ Reads(r.pane, m)
        /\ Becomes(x, IF m = "manual"
                      THEN Escalated([r EXCEPT !.mem = Keeps(x, [Entry(x) EXCEPT !.denials = 0])])
                      ELSE [r EXCEPT !.at = "cycles", !.goal = "manual", !.before = m, !.left = MAX_CYCLES])
  BY DEF Escalates
<1>4. left'.sessions = left.sessions
  BY <1>1, <1>3, ReadsTypes DEF Known
<1>5. UNCHANGED <<session, log, heir, disk, touched>>
  BY DEF Escalates, agents
<1>6. CASE m = "manual"
  <2> DEFINE d == [Entry(x) EXCEPT !.denials = 0]
             q == [r EXCEPT !.mem = Keeps(x, d)]
  <2>1. Entry(x) \in Entries /\ Old(Entry(x).path)
    BY <1>1 DEF Entry, ProcStates, ProcOK
  <2>2. d \in Entries /\ d.path = Entry(x).path
    BY <2>1 DEF Entries
  <2>3. Becomes(x, Escalated(q))
    BY <1>3, <1>6
  <2> HIDE DEF d
  <2>4. Keeps(x, d) \in [Panes -> Entries]
    BY <1>1, <2>2, KeepsTypes DEF Known
  <2>5. q \in ProcStates /\ q.mem = Keeps(x, d) /\ q.found = r.found /\ q.pane = r.pane /\ q.kind = r.kind
    BY <1>1, <2>4 DEF ProcStates
  <2> HIDE DEF q
  <2>6. EntryOK(r.pane, d) /\ Old(d.path)
    BY <1>2, <2>1, <2>2 DEF EntryOK
  <2>7. ProcOK(q)
    BY <1>1, <1>2, <2>2, <2>5, <2>6, ChangesOK
  <2>8. Escalated(q) \in ProcStates /\ ProcOK(Escalated(q))
    BY <1>1, <2>5, <2>7, EscalatedTypes, EscalatedOK
  <2> QED BY <1>4, <1>5, <2>3, <2>8, QuietStep
<1>7. CASE m # "manual"
  <2> DEFINE q == [r EXCEPT !.at = "cycles", !.goal = "manual", !.before = m, !.left = MAX_CYCLES]
  <2>1. q \in ProcStates /\ q.mem = r.mem /\ q.found = r.found /\ q.pane = r.pane
    BY <1>1, WatchdogAssumption DEF ProcStates
  <2>2. Becomes(x, q)
    BY <1>3, <1>7
  <2> HIDE DEF q
  <2>3. ProcOK(q)
    BY <1>1, <1>2, <2>1 DEF ProcOK
  <2> QED BY <1>4, <1>5, <2>1, <2>2, <2>3, QuietStep
<1> QED BY <1>6, <1>7

LEMMA SettlesReasons ==
  ASSUME Known, NEW x \in Procs, Settles(x)
  PROVE  Reasons'
<1> DEFINE r == proc[x]
           q == [r EXCEPT !.at = "cycles", !.goal = "back", !.left = MAX_CYCLES,
                          !.before = IF Entry(x).before = None THEN "acceptEdits" ELSE Entry(x).before]
<1>1. /\ r \in ProcStates /\ r.pane \in Panes /\ r.at = "settles" /\ ProcOK(r)
      /\ r.kind = "poll" <=> x = "poll"
  BY InHand DEF Settles, Known, Reasons
<1>2. UNCHANGED <<session, log, heir, disk, touched>> /\ left'.sessions = left.sessions
  BY DEF Settles, agents, history
<1>3. Entry(x).before \in Footers
  BY <1>1 DEF Entry, ProcStates, Entries
<1>4. q \in ProcStates /\ q.mem = r.mem /\ q.found = r.found /\ q.pane = r.pane
  BY <1>1, <1>3, StartTypes, WatchdogAssumption DEF ProcStates
<1>5. (Entry(x).escalated /\ Becomes(x, q)) \/ Becomes(x, Proceeds(r))
  BY DEF Settles
<1> HIDE DEF q
\* An escalated pane has its reason in the entry.
<1>6. CASE Entry(x).escalated /\ Becomes(x, q)
  <2>1. Justified(r.pane)
    BY <1>1, <1>6 DEF Entry, ProcOK, EntryOK
  <2>2. ProcOK(q)
    BY <1>1, <1>4, <2>1 DEF ProcOK
  <2> QED BY <1>2, <1>4, <1>6, <2>2, QuietStep
<1>7. CASE Becomes(x, Proceeds(r))
  BY <1>1, <1>2, <1>7, ProceedsTypes, ProceedsOK, QuietStep
<1> QED BY <1>5, <1>6, <1>7

\* A press touches the session that is in the pane, and that has its reason.
LEMMA CyclesReasons ==
  ASSUME Known, NEW x \in Procs, Cycles(x)
  PROVE  Reasons'
<1> DEFINE s == proc[x]
<1>1. /\ s \in ProcStates /\ s.pane \in Panes /\ s.at = "cycles" /\ ProcOK(s)
      /\ s.kind = "poll" <=> x = "poll"
      /\ x = "poll" => s.found[s.pane] # 0
  BY InHand DEF Cycles, Known, Reasons
<1>2. UNCHANGED <<session, log, heir, disk>>
  BY CyclesSplit DEF Known
<1>3. Justified(s.pane)
  BY <1>1 DEF ProcOK
<1> DEFINE Over(m) == \E d, r : Ends(x, m, d, r) /\ Becomes(x, r)
<1> HIDE DEF Over
<1>4. PICK m \in Footers : Reads(s.pane, m) /\ (Presses(x, m) \/ Over(m))
  BY CyclesSplit DEF Over, Known
<1>5. left'.sessions = left.sessions
  BY <1>1, <1>4, ReadsTypes DEF Known
<1>6. CASE Presses(x, m)
  <2> DEFINE q == [s EXCEPT !.left = @ - 1]
  <2>1. /\ q \in ProcStates /\ q.mem = s.mem /\ q.found = s.found /\ q.pane = s.pane
        /\ q.at = s.at /\ q.kind = s.kind /\ Becomes(x, q)
    BY <1>1, <1>6 DEF Presses, ProcStates
  <2> HIDE DEF q
  <2>2. ProcOK(q)
    BY <1>1, <2>1 DEF ProcOK
  <2>3. \A t \in touched' : Reason(t)
    <3>1. CASE s.pane \in Open
      <4>1. touched' = touched \cup {session[s.pane]} /\ session[s.pane] # 0
        BY <1>6, <3>1 DEF Presses, Open
      <4> QED BY <1>3, <4>1 DEF Justified, Known, Reasons
    <3>2. CASE s.pane \notin Open
      BY <1>6, <3>2 DEF Presses, Known, Reasons
    <3> QED BY <3>1, <3>2
  <2>4. \A p \in Panes : Old(disk'[p].path) /\ EntryOK(p, disk'[p])
    BY <1>2 DEF Known, Reasons
  <2> QED BY <1>2, <1>5, <2>1, <2>2, <2>3, <2>4, ProcStep
<1>7. CASE Over(m)
  <2>1. PICK d, r : Ends(x, m, d, r) /\ Becomes(x, r)
    BY <1>7 DEF Over
  <2> DEFINE q == [Dropped(x) EXCEPT !.mem = Keeps(x, d)]
  <2>2. Entry(x) \in Entries /\ Old(Entry(x).path)
    BY <1>1 DEF Entry, ProcStates, ProcOK
  <2>3. d \in Entries /\ d.path = Entry(x).path
    <3>1. s.before \in Footers /\ None \in Footers
      BY <1>1, StartTypes DEF ProcStates
    <3>2. /\ [Entry(x) EXCEPT !.denials = 0] \in Entries
          /\ [Entry(x) EXCEPT !.denials = 0, !.escalated = TRUE, !.before = s.before] \in Entries
          /\ [Entry(x) EXCEPT !.escalated = FALSE, !.before = None] \in Entries
      BY <2>2, <3>1 DEF Entries
    <3>3. /\ [Entry(x) EXCEPT !.denials = 0].path = Entry(x).path
          /\ [Entry(x) EXCEPT !.denials = 0, !.escalated = TRUE, !.before = s.before].path = Entry(x).path
          /\ [Entry(x) EXCEPT !.escalated = FALSE, !.before = None].path = Entry(x).path
      BY <2>2 DEF Entries
    <3> QED BY <2>1, <3>2, <3>3 DEF Ends
  <2>4. Keeps(x, d) \in [Panes -> Entries]
    BY <1>1, <2>3, KeepsTypes DEF Known
  <2>5. /\ q \in ProcStates /\ q.mem = Keeps(x, d) /\ q.found = s.found /\ q.pane = s.pane /\ q.kind = s.kind
    BY <1>1, <2>4, StartTypes DEF Dropped, ProcStates
  <2>6. r = Escalated(q) \/ r = Proceeds(q)
    BY <2>1 DEF Ends
  <2> HIDE DEF q
  <2>7. EntryOK(s.pane, d) /\ Old(d.path)
    BY <1>3, <2>2, <2>3 DEF EntryOK
  <2>8. ProcOK(q)
    BY <1>1, <1>3, <2>3, <2>5, <2>7, ChangesOK
  <2>9. r \in ProcStates /\ ProcOK(r)
    BY <1>1, <2>5, <2>6, <2>8, EscalatedTypes, EscalatedOK, ProceedsTypes, ProceedsOK
  <2>10. touched' = touched
    BY <2>1 DEF Ends
  <2> QED BY <1>2, <1>5, <2>1, <2>9, <2>10, QuietStep
<1> QED BY <1>4, <1>6, <1>7

LEMMA OffOK == ProcOK(Off) /\ \A p \in Panes : EntryOK(p, Blank) /\ Old(Blank.path)
<1>1. /\ Off.at = "off" /\ Off.kind = None /\ \A p \in Panes : Off.found[p] = 0 /\ Off.mem[p] = Blank
      /\ Blank.path = 0 /\ ~(Blank.denials > 0) /\ ~Blank.escalated
  BY DEF Off, Blank
<1>2. \A p \in Panes : EntryOK(p, Blank) /\ Old(Blank.path)
  BY <1>1, Zenon DEF EntryOK, Old
<1> QED BY <1>1, <1>2 DEF ProcOK, Old, None

LEMMA HookReasons ==
  ASSUME Known, NEW h \in Hooks, HookReturns(h) \/ HookLoads(h) \/ HookSaves(h)
  PROVE  Reasons'
<1>0. h \in Procs /\ h # "poll" /\ proc[h] \in ProcStates /\ ProcOK(proc[h])
  BY WatchdogAssumption DEF Procs, Known, Shaped, TypeOK, Reasons
<1>1. CASE HookReturns(h)
  <2>1. UNCHANGED <<session, log, heir, disk, touched>> /\ left'.sessions = left.sessions /\ Becomes(h, Off)
    BY <1>1 DEF HookReturns, agents, history
  <2> QED BY <1>0, <2>1, OffTypes, OffOK, QuietStep
<1>2. CASE HookLoads(h)
  <2> DEFINE q == [proc[h] EXCEPT !.at = IF proc[h].kind \in {"stop", "tool"} THEN "settles" ELSE "looks",
                                  !.mem = disk]
  <2>1. UNCHANGED <<session, log, heir, disk, touched>> /\ left'.sessions = left.sessions /\ Becomes(h, q)
    BY <1>2 DEF HookLoads, agents, history
  <2>2. /\ q \in ProcStates /\ q.mem = disk /\ q.found = proc[h].found /\ q.pane = proc[h].pane
        /\ q.kind = proc[h].kind /\ q.at \in {"settles", "looks"}
    BY <1>0 DEF ProcStates, Known, Shaped, TypeOK
  <2> HIDE DEF q
  <2>3. ProcOK(q)
    BY <1>0, <2>2 DEF ProcOK, Known, Reasons
  <2> QED BY <1>0, <2>1, <2>2, <2>3, QuietStep
<1>3. CASE HookSaves(h)
  <2>1. /\ UNCHANGED <<session, log, heir, touched>> /\ left'.sessions = left.sessions /\ Becomes(h, Off)
        /\ disk' = proc[h].mem
    BY <1>3 DEF HookSaves, agents, history
  <2>2. \A p \in Panes : Old(disk'[p].path) /\ EntryOK(p, disk'[p])
    BY <1>0, <2>1 DEF ProcOK
  <2> QED BY <1>0, <2>1, <2>2, OffTypes, OffOK, ProcStep DEF Known, Reasons
<1> QED BY <1>1, <1>2, <1>3

LEMMA PollReasons ==
  ASSUME Known, PollLoads \/ PollSaves \/ \E p \in Panes : PollPicks(p)
  PROVE  Reasons'
<1>0. "poll" \in Procs /\ proc["poll"] \in ProcStates /\ ProcOK(proc["poll"])
  BY DEF Procs, Known, Shaped, TypeOK, Reasons
<1>1. CASE PollLoads
  <2> DEFINE q == [Off EXCEPT !.at = "picks", !.kind = "poll", !.found = session,
                              !.seen = Open, !.idlers = {o \in Open : idle[o]}, !.mem = disk]
  <2>1. UNCHANGED <<session, log, heir, disk, touched>> /\ left'.sessions = left.sessions /\ Becomes("poll", q)
    BY <1>1 DEF PollLoads, agents, history
  <2>2. /\ q \in ProcStates /\ q.mem = disk /\ q.found = session /\ q.kind = "poll" /\ q.at = "picks"
    BY OffTypes DEF ProcStates, Known, Shaped, TypeOK, Open
  <2> HIDE DEF q
  <2>3. ProcOK(q)
    BY <2>2 DEF ProcOK, Known, Reasons
  <2> QED BY <1>0, <2>1, <2>2, <2>3, QuietStep
<1>2. CASE \E p \in Panes : PollPicks(p)
  <2> PICK p \in Panes : PollPicks(p)
    BY <1>2
  <2> DEFINE q == [proc["poll"] EXCEPT !.at = "looks", !.pane = p]
  <2>1. UNCHANGED <<session, log, heir, disk, touched>> /\ left'.sessions = left.sessions /\ Becomes("poll", q)
    BY DEF PollPicks, agents, history
  <2>2. proc["poll"].kind = "poll"
    BY <1>0 DEF PollPicks, Known, Shaped, Shape
  <2>3. /\ q \in ProcStates /\ q.mem = proc["poll"].mem /\ q.found = proc["poll"].found
        /\ q.kind = "poll" /\ q.at = "looks"
    BY <1>0, <2>2 DEF ProcStates
  <2> HIDE DEF q
  <2>4. ProcOK(q)
    BY <1>0, <2>3 DEF ProcOK
  <2> QED BY <1>0, <2>1, <2>3, <2>4, QuietStep
<1>3. CASE PollSaves
  <2> DEFINE r == proc["poll"]
  <2>1. /\ UNCHANGED <<session, log, heir, touched>> /\ left'.sessions = left.sessions /\ Becomes("poll", Off)
        /\ disk' = [p \in Panes |-> IF p \in r.seen \/ r.mem[p].escalated THEN r.mem[p] ELSE Blank]
    BY <1>3 DEF PollSaves, agents, history
  <2>2. \A p \in Panes : Old(disk'[p].path) /\ EntryOK(p, disk'[p])
    <3> SUFFICES ASSUME NEW p \in Panes PROVE Old(disk'[p].path) /\ EntryOK(p, disk'[p])
      BY Zenon
    <3>1. disk'[p] = r.mem[p] \/ disk'[p] = Blank
      BY <2>1
    <3>2. Old(r.mem[p].path) /\ EntryOK(p, r.mem[p])
      BY <1>0 DEF ProcOK
    <3>3. Old(Blank.path) /\ EntryOK(p, Blank)
      BY OffOK
    <3> QED BY <3>1, <3>2, <3>3
  <2> QED BY <1>0, <2>1, <2>2, OffTypes, OffOK, ProcStep DEF Known, Reasons
<1> QED BY <1>1, <1>2, <1>3

LEMMA FaultsReasons ==
  ASSUME Known, NEW x \in Procs, Dies(x) \/ StateDeleted \/ TimePasses
  PROVE  Reasons'
<1>1. CASE Dies(x)
  <2>1. UNCHANGED <<session, log, heir, disk, touched>> /\ left'.sessions = left.sessions /\ Becomes(x, Off)
    BY <1>1, SpendTypes DEF Dies, agents, Known
  <2> QED BY <2>1, OffTypes, OffOK, QuietStep
<1>2. CASE StateDeleted
  <2>1. /\ UNCHANGED <<session, log, heir, touched, proc>> /\ left'.sessions = left.sessions
        /\ disk' = [p \in Panes |-> Blank]
    BY <1>2, SpendTypes DEF StateDeleted, agents, Known
  <2>2. Becomes(x, proc[x]) /\ proc[x] \in ProcStates /\ ProcOK(proc[x])
    BY <2>1 DEF Becomes, Known, Shaped, TypeOK, Reasons
  <2>3. \A p \in Panes : Old(disk'[p].path) /\ EntryOK(p, disk'[p])
    <3> SUFFICES ASSUME NEW p \in Panes PROVE Old(disk'[p].path) /\ EntryOK(p, disk'[p])
      BY Zenon
    <3>1. disk'[p] = Blank
      BY <2>1
    <3> QED BY <3>1, OffOK
  <2> QED BY <2>1, <2>2, <2>3, ProcStep DEF Known, Reasons
<1>3. CASE TimePasses
  <2>1. UNCHANGED <<session, log, heir, disk, touched, proc, left>>
    BY <1>3 DEF TimePasses, agents, history
  <2>2. Becomes(x, proc[x]) /\ proc[x] \in ProcStates /\ ProcOK(proc[x])
    BY <2>1 DEF Becomes, Known, Shaped, TypeOK, Reasons
  <2> QED BY <2>1, <2>2, QuietStep
<1> QED BY <1>1, <1>2, <1>3

LEMMA InitReasons == Init => Reasons
<1> SUFFICES ASSUME Init PROVE Reasons
  OBVIOUS
<1>1. PICK b \in Bounds : /\ left = [b EXCEPT !.sessions = @ - 1]
                         /\ session = [p \in Panes |-> IF p = First THEN b.sessions ELSE 0]
  BY DEF Init
<1>2. b \in [sessions : Nat \ {0}, denials : Nat, faults : Nat]
  BY WatchdogAssumption
<1>3. left.sessions = b.sessions - 1 /\ b.sessions \in Nat
  BY <1>1, <1>2
<1>4. \A p \in Panes : Old(session[p])
  <2>1. b.sessions > left.sessions
    BY <1>3
  <2>2. \A p \in Panes : session[p] \in {0, b.sessions}
    BY <1>1
  <2> QED BY <2>1, <2>2 DEF Old
<1>5. \A p \in Panes : disk[p] = Blank
  BY DEF Init
<1>6. \A x \in Procs : proc[x] = Off
  BY DEF Init
<1>7. touched = {}
  BY DEF Init
<1> QED BY <1>4, <1>5, <1>6, <1>7, OffOK DEF Reasons

LEMMA NextReasons ==
  ASSUME Known, [Next]_vars
  PROVE  Known'
<1>0. Shaped'
  BY NextShaped DEF Known
<1>1. CASE \E p \in Panes : Agents(p)
  BY <1>0, <1>1, AgentsReasons DEF Known
<1>2. CASE TimePasses \/ StateDeleted
  BY <1>0, <1>2, FaultsReasons DEF Procs, Known
<1>3. CASE PollLoads \/ Poll
  <2>0. "poll" \in Procs
    BY DEF Procs
  <2>1. CASE PollLoads \/ PollSaves \/ \E p \in Panes : PollPicks(p)
    BY <1>0, <2>1, PollReasons DEF Known
  <2>2. CASE Scan
    BY <1>0, <2>2, ScanReasons DEF Known
  <2>3. CASE Acts("poll")
    BY <1>0, <2>0, <2>3, EscalatesReasons, SettlesReasons, CyclesReasons DEF Known, Acts
  <2> QED BY <1>3, <2>1, <2>2, <2>3 DEF Poll
<1>4. CASE \E h \in Hooks : Hook(h)
  <2> PICK h \in Hooks : Hook(h)
    BY <1>4
  <2>1. h \in Procs
    BY DEF Procs
  <2> QED BY <1>0, <2>1, HookReasons, NotesReasons, EscalatesReasons, SettlesReasons, CyclesReasons
          DEF Hook, Acts, Known
<1>5. CASE \E x \in Procs : Dies(x)
  BY <1>0, <1>5, FaultsReasons DEF Known
<1>6. CASE UNCHANGED vars
  <2>1. UNCHANGED <<session, disk, proc, touched, log, heir, left>>
    BY <1>6 DEF vars, agents, history
  <2> QED BY <1>0, <2>1 DEF Known, Reasons, ProcOK, EntryOK, Old, Justified, Reason
<1> QED BY <1>1, <1>2, <1>3, <1>4, <1>5, <1>6 DEF Next

\* "cycling an innocent pane's mode actively breaks it": every session in which the
\* watchdog has pressed a key was denied without a verdict, or was opened in a pane
\* that was escalated or in the hand of a process.
THEOREM OnlyTheDeniedAreTouched == Spec => []InnocentUntouched
<1>1. Init => Known
  BY InitShaped, InitReasons DEF Known
<1>2. Known /\ [Next]_vars => Known'
  BY NextReasons
<1>3. Known => InnocentUntouched
  BY DEF Known, Reasons, Reason, InnocentUntouched
<1> QED BY <1>1, <1>2, <1>3, PTL DEF Spec

-----------------------------------------------------------------------------
(* The mode of a pane agrees with what the file in force says of it: the    *)
(* file on disk when nobody works, and what the process at work holds while *)
(* it does.  Between the presses, the way still to go is no longer than the *)
(* presses that are left.                                                   *)

Place(m) == CHOOSE i \in DOMAIN Ring : Ring[i] = m

\* How many presses it is from one mode to another.
Ahead(m, t) ==
  IF Place(t) >= Place(m) THEN Place(t) - Place(m) ELSE Place(t) + Len(Ring) - Place(m)

Busy(r) == r.at \notin {"off", "waits"}

Fits(p, e) ==
  IF e.escalated THEN mode[p] = "manual" /\ e.before = home[p] ELSE mode[p] = home[p]

Held(p, r) ==
  IF r.pane = p /\ r.at = "cycles"
  THEN r.goal \in {"manual", "back"} /\ r.before = home[p] /\ Ahead(mode[p], Target(r)) <= r.left
  ELSE Fits(p, r.mem[p]) /\ (r.pane = p /\ r.at = "escalates" => ~r.mem[p].escalated)

Accounted ==
  /\ \A x, y \in Procs : Busy(proc[x]) /\ Busy(proc[y]) => x = y
  /\ \A p \in Open : home[p] \in Modes
  /\ \A p \in Open \ disturbed :
       /\ Quiet => Fits(p, disk[p])
       /\ \A x \in Procs : Busy(proc[x]) => Held(p, proc[x])

-----------------------------------------------------------------------------
(* Presses.                                                                *)

LEMMA PlaceIs ==
  ASSUME NEW m \in Modes
  PROVE  /\ Place(m) \in 1 .. Len(Ring) /\ Ring[Place(m)] = m /\ Len(Ring) \in Nat
         /\ \A i \in 1 .. Len(Ring) : Ring[i] = m => i = Place(m)
<1>1. PICK j \in DOMAIN Ring : Ring[j] = m
  BY DEF Modes
<1>2. DOMAIN Ring = 1 .. Len(Ring) /\ Len(Ring) \in Nat
  BY WatchdogAssumption
<1>3. Place(m) \in DOMAIN Ring /\ Ring[Place(m)] = m
  BY <1>1 DEF Place
<1> QED BY <1>2, <1>3, WatchdogAssumption

\* A press brings the pane one step nearer to every mode but the one it is in.
LEMMA PressNears ==
  ASSUME NEW m \in Modes, NEW t \in Modes, m # t
  PROVE  Ahead(m, t) \in Nat \ {0} /\ Ahead(After(m), t) = Ahead(m, t) - 1
<1>1. /\ Place(m) \in 1 .. Len(Ring) /\ Place(t) \in 1 .. Len(Ring) /\ Place(m) # Place(t)
      /\ Len(Ring) \in Nat
  BY PlaceIs
<1>2. After(m) = Ring[IF Place(m) = Len(Ring) THEN 1 ELSE Place(m) + 1]
  BY DEF After, Place
<1>3. Place(After(m)) = IF Place(m) = Len(Ring) THEN 1 ELSE Place(m) + 1
  BY <1>1, <1>2, RingTypes, PlaceIs
<1> QED BY <1>1, <1>3 DEF Ahead

LEMMA AheadBounds ==
  ASSUME NEW m \in Modes, NEW t \in Modes
  PROVE  Ahead(m, t) \in Nat /\ Ahead(m, t) <= MAX_CYCLES /\ (Ahead(m, t) <= 0 => m = t)
<1>1. /\ Place(m) \in 1 .. Len(Ring) /\ Place(t) \in 1 .. Len(Ring) /\ Len(Ring) \in Nat
      /\ Place(m) = Place(t) => m = t
  BY PlaceIs
<1>2. Len(Ring) <= MAX_CYCLES + 1 /\ MAX_CYCLES \in Nat
  BY CyclesAssumption, WatchdogAssumption
<1> QED BY <1>1, <1>2 DEF Ahead

-----------------------------------------------------------------------------
(* What a step leaves as it was.                                           *)

\* A step in which nobody takes or gives back the lock, and no mode or home
\* changes in a pane that is still not disturbed.
LEMMA KeepsAccount ==
  ASSUME Shaped, Accounted,
         \A x \in Procs : proc'[x] = proc[x] \/ (~Busy(proc[x]) /\ ~Busy(proc'[x])),
         \A p \in Open' : home'[p] \in Modes,
         \A p \in Open' \ disturbed' :
           \/ /\ p \in Open \ disturbed /\ mode'[p] = mode[p] /\ home'[p] = home[p]
              /\ disk'[p] = disk[p] \/ (~disk[p].escalated /\ ~disk'[p].escalated)
           \/ /\ mode'[p] = home'[p] /\ ~disk'[p].escalated
              /\ \A x \in Procs : proc[x].pane # p /\ ~proc[x].mem[p].escalated
  PROVE  Accounted'
<1>1. \A x \in Procs : Busy(proc'[x]) => Busy(proc[x]) /\ proc'[x] = proc[x]
  OBVIOUS
<1>2. Quiet' => Quiet
  BY DEF Quiet, Busy
<1>3. ASSUME NEW p \in Open' \ disturbed' PROVE Quiet' => Fits(p, disk[p])'
  BY <1>2, <1>3 DEF Accounted, Fits
<1>4. ASSUME NEW p \in Open' \ disturbed', NEW x \in Procs, Busy(proc'[x])
      PROVE  Held(p, proc[x])'
  BY <1>1, <1>4 DEF Accounted, Held, Fits, Target
<1> QED BY <1>1, <1>3, <1>4 DEF Accounted, Busy

\* A step of the process that works, from r to another state, or to rest.
LEMMA WorkAccount ==
  ASSUME Shaped, Accounted, NEW x \in Procs, Busy(proc[x]) \/ Quiet, NEW r, Becomes(x, r),
         UNCHANGED <<session, home>>,
         \A p \in Open \ disturbed' : IF Busy(r) THEN Held(p, r)' ELSE Fits(p, disk[p])'
  PROVE  Accounted'
<1>1. \A y \in Procs : proc'[y] = IF y = x THEN r ELSE proc[y]
  BY DEF Becomes, Shaped, TypeOK
<1>2. \A y \in Procs \ {x} : ~Busy(proc[y])
  BY DEF Accounted, Quiet, Busy
<1>3. Open' = Open
  BY DEF Open
<1>4. \A y, z \in Procs : Busy(proc[y])' /\ Busy(proc[z])' => y = z
  BY <1>1, <1>2 DEF Busy
<1>5. ASSUME NEW p \in Open' \ disturbed' PROVE Quiet' => Fits(p, disk[p])'
  <2>1. Quiet' => ~Busy(r)
    BY <1>1 DEF Quiet, Busy
  <2> QED BY <1>3, <2>1 DEF Fits
<1>6. ASSUME NEW p \in Open' \ disturbed', NEW y \in Procs, Busy(proc[y])'
      PROVE  Held(p, proc[y])'
  <2>1. y = x /\ proc'[y] = r /\ Busy(r)
    BY <1>1, <1>2, <1>6 DEF Busy
  <2> QED BY <1>3, <2>1 DEF Held, Fits, Target
<1> QED BY <1>3, <1>4, <1>5, <1>6 DEF Accounted

-----------------------------------------------------------------------------
(* The steps of the agents, and the faults.                                *)

LEMMA StartAccount ==
  ASSUME Shaped, NEW p, NEW kind, Starts(kind, p)
  PROVE  \A x \in Procs : proc'[x] = proc[x] \/ (~Busy(proc[x]) /\ ~Busy(proc'[x]))
<1>1. CASE UNCHANGED proc
  BY <1>1
<1>2. CASE \E h \in Hooks : /\ proc[h].at = "off"
                            /\ Becomes(h, [Off EXCEPT !.at = "waits", !.kind = kind, !.pane = p])
  <2> PICK h \in Hooks : /\ proc[h].at = "off"
                         /\ Becomes(h, [Off EXCEPT !.at = "waits", !.kind = kind, !.pane = p])
    BY <1>2
  <2> DEFINE r == [Off EXCEPT !.at = "waits", !.kind = kind, !.pane = p]
  <2>1. r.at = "waits"
    BY DEF Off
  <2> HIDE DEF r
  <2>2. \A x \in Procs : proc'[x] = IF x = h THEN r ELSE proc[x]
    BY DEF r, Becomes, Shaped, TypeOK, Procs
  <2> QED BY <2>1, <2>2 DEF Busy
<1> QED BY <1>1, <1>2 DEF Starts

LEMMA OpensAccount ==
  ASSUME Shaped, Accounted, NEW p \in Panes, Opens(p)
  PROVE  Accounted'
<1>1. /\ session' = [session EXCEPT ![p] = left.sessions]
      /\ mode' = [mode EXCEPT ![p] = Start] /\ home' = [home EXCEPT ![p] = Start]
      /\ proc' = proc /\ disk' = disk
  BY DEF Opens
<1>2. /\ mode'[p] = Start /\ home'[p] = Start
      /\ \A q \in Panes \ {p} : mode'[q] = mode[q] /\ home'[q] = home[q] /\ session'[q] = session[q]
  BY <1>1 DEF Shaped, TypeOK
<1>3. \A q \in Open' : home'[q] \in Modes
  BY <1>2, StartTypes DEF Accounted, Open
<1>4. \/ disturbed' = disturbed \cup {p}
      \/ disturbed' = disturbed \ {p} /\ ~disk[p].escalated /\ \A x \in Procs : ~WorksOn(x, p)
  BY DEF Opens
<1>5. ASSUME NEW q \in Open' \ disturbed'
      PROVE  \/ /\ q \in Open \ disturbed /\ mode'[q] = mode[q] /\ home'[q] = home[q]
                /\ disk'[q] = disk[q]
             \/ /\ mode'[q] = home'[q] /\ ~disk'[q].escalated
                /\ \A x \in Procs : proc[x].pane # q /\ ~proc[x].mem[q].escalated
  <2>1. CASE q = p
    BY <1>1, <1>2, <1>4, <1>5, <2>1 DEF WorksOn
  <2>2. CASE q # p
    BY <1>1, <1>2, <1>4, <1>5, <2>2 DEF Open
  <2> QED BY <2>1, <2>2
<1> QED BY <1>1, <1>3, <1>5, KeepsAccount

LEMMA AgentsAccount ==
  ASSUME Shaped, Accounted, NEW p \in Panes, Agents(p)
  PROVE  Accounted'
<1>1. CASE PromptGiven(p) \/ TurnEnds(p) \/ CallsTool(p) \/ Denied(p) \/ Blocked(p)
  <2>1. /\ UNCHANGED <<session, mode, home, disk, disturbed>>
        /\ proc' = proc \/ \E kind \in {"stop", "tool", "denied", "blocked"} : Starts(kind, p)
    BY <1>1 DEF PromptGiven, TurnEnds, CallsTool, Denied, Blocked, agents, history
  <2>2. Open' = Open
    BY <2>1 DEF Open
  <2>3. \A q \in Open' : home'[q] \in Modes
    BY <2>1, <2>2 DEF Accounted
  <2> QED BY <2>1, <2>2, <2>3, StartAccount, KeepsAccount
<1>2. CASE HumanPresses(p)
  <2>1. /\ mode' = [mode EXCEPT ![p] = After(@)] /\ home' = [home EXCEPT ![p] = mode'[p]]
        /\ disturbed' = disturbed \cup {p} /\ UNCHANGED <<session, disk, proc>> /\ p \in Open
    BY <1>2 DEF HumanPresses
  <2>2. /\ \A q \in Panes \ {p} : mode'[q] = mode[q] /\ home'[q] = home[q]
        /\ home'[p] \in Modes /\ Open' = Open
    BY <2>1, RingTypes DEF Shaped, TypeOK, Open
  <2>3. \A q \in Open' : home'[q] \in Modes
    BY <2>2 DEF Accounted, Open
  <2>4. \A q \in Open' \ disturbed' : /\ q \in Open \ disturbed /\ mode'[q] = mode[q]
                                      /\ home'[q] = home[q] /\ disk'[q] = disk[q]
    BY <2>1, <2>2 DEF Open
  <2> QED BY <2>1, <2>3, <2>4, KeepsAccount
<1>3. CASE Closes(p)
  <2>1. /\ session' = [session EXCEPT ![p] = 0]
        /\ mode' = [mode EXCEPT ![p] = None] /\ home' = [home EXCEPT ![p] = None]
        /\ UNCHANGED <<disk, proc, disturbed>>
    BY <1>3 DEF Closes, history
  <2>2. /\ \A q \in Panes \ {p} : mode'[q] = mode[q] /\ home'[q] = home[q] /\ session'[q] = session[q]
        /\ session'[p] = 0
    BY <2>1 DEF Shaped, TypeOK
  <2>3. \A q \in Open' : q \in Open /\ q # p
    BY <2>2 DEF Open
  <2>4. \A q \in Open' : home'[q] \in Modes
    BY <2>2, <2>3 DEF Accounted, Open
  <2>5. \A q \in Open' \ disturbed' : /\ q \in Open \ disturbed /\ mode'[q] = mode[q]
                                      /\ home'[q] = home[q] /\ disk'[q] = disk[q]
    BY <2>1, <2>2, <2>3 DEF Open
  <2> QED BY <2>1, <2>4, <2>5, KeepsAccount
<1>4. CASE Opens(p)
  BY <1>4, OpensAccount
<1> QED BY <1>1, <1>2, <1>3, <1>4 DEF Agents

\* A process that dies disturbs its pane, and every pane that it had changed its
\* mind about; so does the loss of the file for the panes that it says are escalated.
LEMMA FaultsAccount ==
  ASSUME Shaped, Accounted, (\E x \in Procs : Dies(x)) \/ StateDeleted \/ TimePasses
  PROVE  Accounted'
<1>1. ASSUME NEW x \in Procs, Dies(x) PROVE Accounted'
  <2>1. /\ Busy(proc[x]) /\ Becomes(x, Off) /\ UNCHANGED <<session, mode, home, disk>>
        /\ disturbed' = disturbed \cup {proc[x].pane} \cup {p \in Panes : proc[x].mem[p] # disk[p]}
    BY <1>1 DEF Dies, agents, Busy
  <2>2. ASSUME NEW p \in Open \ disturbed' PROVE Fits(p, disk[p])'
    <3>1. p \in Panes /\ p \notin disturbed /\ proc[x].pane # p /\ proc[x].mem[p] = disk[p]
      BY <2>1, <2>2 DEF Open
    <3>2. Fits(p, disk[p])
      BY <2>1, <2>2, <3>1 DEF Accounted, Held
    <3> QED BY <2>1, <3>2 DEF Fits
  <2>3. ~Busy(Off)
    BY DEF Busy, Off
  <2> HIDE DEF Off
  <2> QED BY <2>1, <2>2, <2>3, WorkAccount
<1>2. CASE StateDeleted
  <2>1. /\ disk' = [p \in Panes |-> Blank] /\ UNCHANGED <<session, mode, home, proc>>
        /\ disturbed' = disturbed \cup {p \in Panes : disk[p].escalated}
    BY <1>2 DEF StateDeleted, agents
  <2>2. ~Blank.escalated /\ Open' = Open
    BY <2>1 DEF Blank, Open
  <2>3. \A p \in Open' : home'[p] \in Modes
    BY <2>1, <2>2 DEF Accounted
  <2>4. \A p \in Open' \ disturbed' :
          /\ p \in Open \ disturbed /\ mode'[p] = mode[p] /\ home'[p] = home[p]
          /\ ~disk[p].escalated /\ ~disk'[p].escalated
    BY <2>1, <2>2 DEF Open
  <2> QED BY <2>1, <2>3, <2>4, KeepsAccount
<1>3. CASE TimePasses
  <2>1. UNCHANGED <<session, mode, home, disk, proc, disturbed>>
    BY <1>3 DEF TimePasses, agents, history
  <2> QED BY <2>1 DEF Accounted, Busy, Held, Fits, Quiet, Open, Target
<1> QED BY <1>1, <1>2, <1>3

-----------------------------------------------------------------------------
(* The steps of the processes.                                             *)

\* The pane is dealt with: the entries stand.
LEMMA DoneHeld ==
  ASSUME NEW r \in ProcStates, r.pane \in Panes, NEW p \in Panes, Fits(p, r.mem[p])',
         NEW q, q = Proceeds(r) \/ q = Escalated(r)
  PROVE  Busy(q) /\ Held(p, q)'
<1>1. q.at \in {"picks", "saves", "settles"} /\ q.mem = r.mem
  <2>1. CASE r.kind = "poll"
    BY <2>1 DEF Proceeds, Escalated, ProcStates
  <2>2. CASE r.kind # "poll"
    BY <2>2 DEF Proceeds, Escalated, ProcStates
  <2> QED BY <2>1, <2>2
<1> QED BY <1>1 DEF Busy, Held

LEMMA ScanAccount ==
  ASSUME Shaped, Accounted, Scan
  PROVE  Accounted'
<1> PICK r : r = proc["poll"]
  OBVIOUS
<1> DEFINE s == r.found[r.pane]
           e == IF Entry("poll").path = s THEN Entry("poll")
                ELSE [Entry("poll") EXCEPT !.path = s, !.offset = log[s], !.denials = 0]
<1>1. "poll" \in Procs /\ r.at = "looks" /\ r \in ProcStates /\ r.pane \in Panes /\ s # 0
  BY InHand DEF Scan, Procs
<1>2. s \in Sessions /\ log[s] \in Nat
  BY <1>1 DEF ProcStates, Shaped, TypeOK
<1>3. Entry("poll") \in Entries
  BY <1>1 DEF Entry, ProcStates
<1>4. e \in Entries /\ e.escalated = Entry("poll").escalated /\ e.before = Entry("poll").before
  BY <1>2, <1>3 DEF Entries
<1> HIDE DEF e
<1>5. PICK n \in IF log[s] > e.offset /\ ~e.escalated THEN 0 .. e.denials + log[s] - e.offset
                  ELSE {e.denials} :
           Becomes("poll", [r EXCEPT !.at = IF ~e.escalated /\ n >= THRESHOLD THEN "escalates" ELSE "settles",
                                     !.mem = Keeps("poll", [e EXCEPT !.offset = log[s], !.denials = n])])
  BY DEF Scan, e
<1>6. n \in Nat
  BY <1>2, <1>4, <1>5 DEF Entries
<1> DEFINE d == [e EXCEPT !.offset = log[s], !.denials = n]
           w == [r EXCEPT !.at = IF ~e.escalated /\ n >= THRESHOLD THEN "escalates" ELSE "settles",
                          !.mem = Keeps("poll", d)]
<1> PICK q : q = w
  OBVIOUS
<1>7. d \in Entries /\ d.escalated = Entry("poll").escalated /\ d.before = Entry("poll").before
  BY <1>2, <1>4, <1>6 DEF Entries
<1> HIDE DEF d
<1>8. Becomes("poll", q)
  BY <1>5 DEF d
<1>9. /\ q.mem = Keeps("poll", d) /\ q.pane = r.pane
      /\ q.at = IF ~e.escalated /\ n >= THRESHOLD THEN "escalates" ELSE "settles"
  BY <1>1 DEF ProcStates
<1>10. UNCHANGED <<session, mode, home, disk, disturbed>>
  BY DEF Scan, agents, history
<1>11. \A p \in Panes : Keeps("poll", d)[p] = IF p = r.pane THEN d ELSE r.mem[p]
  BY <1>1, <1>7, KeepsTypes
<1>12. ASSUME NEW p \in Open \ disturbed' PROVE Held(p, q)'
  <2>1. Fits(p, r.mem[p]) /\ p \in Panes
    BY <1>1, <1>10, <1>12 DEF Accounted, Held, Busy, Open
  <2>2. CASE p = r.pane
    BY <1>4, <1>7, <1>9, <1>10, <1>11, <2>1, <2>2 DEF Held, Fits, Entry
  <2>3. CASE p # r.pane
    BY <1>9, <1>10, <1>11, <2>1, <2>3 DEF Held, Fits
  <2> QED BY <2>2, <2>3
<1>13. Busy(q) /\ Busy(r)
  BY <1>1, <1>9 DEF Busy
<1> QED BY <1>1, <1>8, <1>10, <1>12, <1>13, WorkAccount

LEMMA NotesAccount ==
  ASSUME Shaped, Accounted, NEW h \in Hooks, Notes(h)
  PROVE  Accounted'
<1> PICK r : r = proc[h]
  OBVIOUS
<1>1. h \in Procs /\ r \in ProcStates /\ r.pane \in Panes /\ r.at = "looks" /\ Busy(r)
  BY InHand DEF Notes, Procs, Busy
<1>2. UNCHANGED <<session, mode, home, disk, disturbed>>
  BY DEF Notes, agents, history
<1>3. \A p \in Open \ disturbed' : Fits(p, r.mem[p])' /\ p \in Panes
  BY <1>1, <1>2 DEF Accounted, Held, Fits, Open
<1>4. CASE Entry(h).escalated
  <2>1. Becomes(h, Proceeds(r))
    BY <1>4 DEF Notes
  <2>2. \A p \in Open \ disturbed' : Busy(Proceeds(r)) /\ Held(p, Proceeds(r))'
    BY <1>1, <1>3, DoneHeld
  <2>3. Busy(Proceeds(r))
    BY <1>1 DEF Proceeds, Busy, ProcStates
  <2> QED BY <1>1, <1>2, <2>1, <2>2, <2>3, WorkAccount
<1>5. CASE ~Entry(h).escalated
  <2>1. PICK n \in 1 .. Entry(h).denials + 1 :
          Becomes(h, [r EXCEPT !.at = IF n >= THRESHOLD THEN "escalates" ELSE "saves",
                               !.mem = Keeps(h, [Entry(h) EXCEPT !.denials = n])])
    BY <1>5 DEF Notes
  <2> DEFINE d == [Entry(h) EXCEPT !.denials = n]
             w == [r EXCEPT !.at = IF n >= THRESHOLD THEN "escalates" ELSE "saves", !.mem = Keeps(h, d)]
  <2> PICK q : q = w
    OBVIOUS
  <2>2. Entry(h) \in Entries /\ n \in Nat
    BY <1>1 DEF Entry, ProcStates, Entries
  <2>3. d \in Entries /\ ~d.escalated
    BY <1>5, <2>2 DEF Entries
  <2>4. Becomes(h, q)
    BY <2>1
  <2> HIDE DEF d
  <2>5. q.mem = Keeps(h, d) /\ q.pane = r.pane /\ q.at \in {"escalates", "saves"}
    BY <1>1 DEF ProcStates
    <2>6. \A p \in Panes : Keeps(h, d)[p] = IF p = r.pane THEN d ELSE r.mem[p]
    BY <1>1, <2>3, KeepsTypes
  <2>7. ASSUME NEW p \in Open \ disturbed' PROVE Held(p, q)'
    BY <1>3, <1>5, <2>3, <2>5, <2>6, <2>7 DEF Held, Fits, Entry
  <2>8. Busy(q)
    BY <2>5 DEF Busy
  <2> QED BY <1>1, <1>2, <2>4, <2>7, <2>8, WorkAccount
<1> QED BY <1>4, <1>5

LEMMA EscalatesAccount ==
  ASSUME Shaped, Accounted, NEW x \in Procs, Escalates(x)
  PROVE  Accounted'
<1> PICK r : r = proc[x]
  OBVIOUS
<1>1. r \in ProcStates /\ r.pane \in Panes /\ r.at = "escalates" /\ Busy(r)
  BY InHand DEF Escalates, Busy
<1>2. PICK m \in Footers :
        /\ Reads(r.pane, m)
        /\ Becomes(x, IF m = "manual"
                      THEN Escalated([r EXCEPT !.mem = Keeps(x, [Entry(x) EXCEPT !.denials = 0])])
                      ELSE [r EXCEPT !.at = "cycles", !.goal = "manual", !.before = m, !.left = MAX_CYCLES])
  BY DEF Escalates
<1>3. UNCHANGED <<session, mode, home, disk>>
  BY DEF Escalates, agents
<1>4. disturbed \subseteq disturbed' /\ (r.pane \notin disturbed' /\ r.pane \in Open => m = mode[r.pane])
  BY <1>2 DEF Reads
<1>5. \A p \in Open \ disturbed' : Fits(p, r.mem[p]) /\ p \in Panes /\ (p = r.pane => ~r.mem[p].escalated)
  BY <1>1, <1>4 DEF Accounted, Held, Open
<1>6. CASE m = "manual"
  <2> DEFINE d == [Entry(x) EXCEPT !.denials = 0]
             w == [r EXCEPT !.mem = Keeps(x, d)]
  <2> PICK q : q = w
    OBVIOUS
  <2>1. d \in Entries /\ d.escalated = Entry(x).escalated /\ d.before = Entry(x).before
    BY <1>1 DEF Entry, ProcStates, Entries
  <2>2. Becomes(x, Escalated(q))
    BY <1>2, <1>6
  <2> HIDE DEF d
  <2>3. /\ Keeps(x, d) \in [Panes -> Entries]
        /\ \A p \in Panes : Keeps(x, d)[p] = IF p = r.pane THEN d ELSE r.mem[p]
    BY <1>1, <2>1, KeepsTypes
  <2>4. q \in ProcStates /\ q.mem = Keeps(x, d) /\ q.pane = r.pane
    BY <1>1, <2>3 DEF ProcStates
    <2>5. \A p \in Open \ disturbed' : Fits(p, q.mem[p])' /\ p \in Panes
    BY <1>3, <1>5, <2>1, <2>3, <2>4 DEF Fits, Entry
  <2>6. \A p \in Open \ disturbed' : Held(p, Escalated(q))'
    BY <1>1, <2>4, <2>5, DoneHeld
  <2>7. Busy(Escalated(q))
    BY <1>1, <2>4 DEF Escalated, Proceeds, Busy, ProcStates
  <2> QED BY <1>1, <1>3, <2>2, <2>6, <2>7, WorkAccount
<1>7. CASE m # "manual"
  <2> DEFINE w == [r EXCEPT !.at = "cycles", !.goal = "manual", !.before = m, !.left = MAX_CYCLES]
  <2> PICK q : q = w
    OBVIOUS
  <2>1. Becomes(x, q)
    BY <1>2, <1>7
  <2>2. /\ q.at = "cycles" /\ q.goal = "manual" /\ q.before = m /\ q.left = MAX_CYCLES
        /\ q.mem = r.mem /\ q.pane = r.pane /\ Busy(q)
    BY <1>1 DEF ProcStates, Busy
    <2>3. ASSUME NEW p \in Open \ disturbed' PROVE Held(p, q)'
    <3>1. CASE p = r.pane
      <4>1. m = mode[p] /\ m = home[p] /\ mode[p] \in Modes
        BY <1>4, <1>5, <2>3, <3>1 DEF Fits, Shaped, TypeOK
      <4>2. Ahead(mode[p], "manual") <= q.left
        BY <2>2, <4>1, AheadBounds, StartTypes
      <4>3. Ahead(mode'[p], Target(q)) <= q.left
        BY <1>3, <2>2, <4>2 DEF Target
      <4> QED BY <1>3, <2>2, <4>1, <4>3, <3>1 DEF Held, Target
    <3>2. CASE p # r.pane
      BY <1>3, <1>5, <2>2, <2>3, <3>2 DEF Held, Fits
    <3> QED BY <3>1, <3>2
  <2> QED BY <1>1, <1>3, <2>1, <2>2, <2>3, WorkAccount
<1> QED BY <1>6, <1>7

LEMMA SettlesAccount ==
  ASSUME Shaped, Accounted, NEW x \in Procs, Settles(x)
  PROVE  Accounted'
<1> PICK r : r = proc[x]
  OBVIOUS
<1> DEFINE w == [r EXCEPT !.at = "cycles", !.goal = "back", !.left = MAX_CYCLES,
                          !.before = IF Entry(x).before = None THEN "acceptEdits" ELSE Entry(x).before]
<1> PICK q : q = w
  OBVIOUS
<1>1. r \in ProcStates /\ r.pane \in Panes /\ r.at = "settles" /\ Busy(r)
  BY InHand DEF Settles, Busy
<1>2. UNCHANGED <<session, mode, home, disk, disturbed>>
  BY DEF Settles, agents, history
<1>3. \A p \in Open \ disturbed' : Fits(p, r.mem[p]) /\ p \in Panes /\ Fits(p, r.mem[p])'
  BY <1>1, <1>2 DEF Accounted, Held, Fits, Open
<1>4. CASE Entry(x).escalated /\ Becomes(x, q)
  <2>1. /\ q.at = "cycles" /\ q.goal = "back" /\ q.left = MAX_CYCLES /\ Busy(q)
        /\ q.mem = r.mem /\ q.pane = r.pane
        /\ q.before = IF Entry(x).before = None THEN "acceptEdits" ELSE Entry(x).before
    BY <1>1 DEF ProcStates, Busy
    <2>2. ASSUME NEW p \in Open \ disturbed' PROVE Held(p, q)'
    <3>1. CASE p = r.pane
      <4>1. Entry(x).before = home[p] /\ home[p] \in Modes /\ mode[p] \in Modes
        BY <1>3, <1>4, <2>2, <3>1 DEF Entry, Fits, Accounted, Shaped, TypeOK
      <4>2. q.before = home[p]
        BY <2>1, <4>1, CyclesAssumption DEF None
      <4>3. Ahead(mode[p], home[p]) <= q.left
        BY <2>1, <4>1, AheadBounds
      <4> QED BY <1>2, <2>1, <4>2, <4>3, <3>1 DEF Held, Target
    <3>2. CASE p # r.pane
      BY <1>3, <2>1, <2>2, <3>2 DEF Held, Fits
    <3> QED BY <3>1, <3>2
  <2> QED BY <1>1, <1>2, <1>4, <2>1, <2>2, WorkAccount
<1>5. CASE Becomes(x, Proceeds(r))
  <2>1. \A p \in Open \ disturbed' : Held(p, Proceeds(r))'
    BY <1>1, <1>3, DoneHeld
  <2>2. Busy(Proceeds(r))
    BY <1>1 DEF Proceeds, Busy, ProcStates
  <2> QED BY <1>1, <1>2, <1>5, <2>1, <2>2, WorkAccount
<1> QED BY <1>4, <1>5 DEF Settles

\* The presses that are left are enough: a process gives up on disturbed panes only.
LEMMA CyclesAccount ==
  ASSUME Shaped, Accounted, NEW x \in Procs, Cycles(x)
  PROVE  Accounted'
<1> PICK r : r = proc[x]
  OBVIOUS
<1>1. r \in ProcStates /\ r.pane \in Panes /\ r.at = "cycles" /\ Busy(r) /\ r.left \in Nat
  BY InHand DEF Cycles, Busy, ProcStates
<1>2. UNCHANGED <<session, home, disk>>
  BY CyclesSplit
<1> DEFINE Over(m) == \E d, q : Ends(x, m, d, q) /\ Becomes(x, q)
<1> HIDE DEF Over
<1>3. PICK m \in Footers : Reads(r.pane, m) /\ (Presses(x, m) \/ Over(m))
  BY CyclesSplit DEF Over
<1>4. disturbed \subseteq disturbed' /\ (r.pane \notin disturbed' /\ r.pane \in Open => m = mode[r.pane])
  BY <1>3 DEF Reads
<1>5. ASSUME NEW p \in Open \ disturbed', p # r.pane
      PROVE  p \in Panes /\ Fits(p, r.mem[p])
  BY <1>1, <1>4, <1>5 DEF Accounted, Held, Open
\* The pane in hand, when nothing has come between.
<1>6. ASSUME NEW p \in Open \ disturbed', p = r.pane
      PROVE  /\ p \in Panes /\ m = mode[p] /\ mode[p] \in Modes /\ home[p] \in Modes
             /\ r.goal \in {"manual", "back"} /\ r.before = home[p]
             /\ Target(r) \in Modes /\ Ahead(mode[p], Target(r)) <= r.left
  <2>1. /\ p \in Panes /\ m = mode[p] /\ mode[p] \in Modes /\ home[p] \in Modes
        /\ r.goal \in {"manual", "back"} /\ r.before = home[p] /\ Ahead(mode[p], Target(r)) <= r.left
    BY <1>1, <1>4, <1>6 DEF Accounted, Held, Open, Shaped, TypeOK
  <2> QED BY <2>1, StartTypes DEF Target
<1>7. CASE Presses(x, m)
  <2> DEFINE w == [r EXCEPT !.left = @ - 1]
  <2> PICK q : q = w
    OBVIOUS
  <2>1. Becomes(x, q)
    BY <1>7 DEF Presses
  <2>2. /\ q.at = "cycles" /\ q.goal = r.goal /\ q.before = r.before /\ q.left = r.left - 1
        /\ q.mem = r.mem /\ q.pane = r.pane /\ Busy(q) /\ Target(q) = Target(r)
    BY <1>1 DEF ProcStates, Busy, Target
  <2> HIDE DEF w
  <2>3. ASSUME NEW p \in Open \ disturbed' PROVE Held(p, q)'
    <3>1. CASE p = r.pane
      <4>1. mode'[p] = After(mode[p]) /\ mode[p] # Target(r)
        BY <1>6, <1>7, <2>3, <3>1 DEF Presses, Shaped, TypeOK
      <4>2. Ahead(mode'[p], Target(r)) = Ahead(mode[p], Target(r)) - 1 /\ Ahead(mode[p], Target(r)) \in Nat
        BY <1>6, <3>1, <4>1, PressNears
      <4>3. Ahead(mode'[p], Target(q)) <= q.left
        BY <1>1, <1>6, <2>2, <3>1, <4>2
      <4> QED BY <1>2, <1>6, <2>2, <3>1, <4>3 DEF Held, Target
    <3>2. CASE p # r.pane
      <4>1. mode'[p] = mode[p]
        BY <1>5, <1>7, <3>2 DEF Presses, Shaped, TypeOK
      <4> QED BY <1>2, <1>5, <2>2, <3>2, <4>1 DEF Held, Fits
    <3> QED BY <3>1, <3>2
  <2> QED BY <1>1, <1>2, <2>1, <2>2, <2>3, WorkAccount
<1>8. CASE Over(m)
  <2>1. PICK d, z : Ends(x, m, d, z) /\ Becomes(x, z)
    BY <1>8 DEF Over
  <2> DEFINE w == [Dropped(x) EXCEPT !.mem = Keeps(x, d)]
  <2> PICK q : q = w
    OBVIOUS
  <2>2. Entry(x) \in Entries /\ r.before \in Footers /\ None \in Footers
    BY <1>1, StartTypes DEF Entry, ProcStates
  <2>3. /\ d \in Entries
        /\ \/ r.goal = "manual" /\ d.escalated /\ d.before = r.before /\ m = "manual"
           \/ r.goal = "manual" /\ m # "manual" /\ r.left = 0
           \/ r.goal = "back" /\ ~d.escalated /\ (m = Target(r) \/ r.left = 0)
    <3>1. CASE d = [Entry(x) EXCEPT !.denials = 0, !.escalated = TRUE, !.before = r.before]
      <4>1. d \in Entries /\ d.escalated /\ d.before = r.before
        BY <2>2, <3>1 DEF Entries
      <4>2. \/ r.goal = "manual" /\ m = "manual"
            \/ r.goal = "manual" /\ m # "manual" /\ r.left = 0
            \/ r.goal = "back" /\ d = [Entry(x) EXCEPT !.escalated = FALSE, !.before = None]
        BY <2>1 DEF Ends
      <4>3. ~[Entry(x) EXCEPT !.escalated = FALSE, !.before = None].escalated
        BY <2>2 DEF Entries
      <4> QED BY <4>1, <4>2, <4>3
    <3>2. CASE d = [Entry(x) EXCEPT !.denials = 0] /\ r.goal = "manual" /\ m # "manual" /\ r.left = 0
      BY <2>2, <3>2 DEF Entries
    <3>3. CASE /\ d = [Entry(x) EXCEPT !.escalated = FALSE, !.before = None] /\ r.goal = "back"
               /\ m = Target(r) \/ r.left = 0
      BY <2>2, <3>3 DEF Entries
    <3> QED BY <2>1, <3>1, <3>2, <3>3 DEF Ends
  <2>4. /\ Keeps(x, d) \in [Panes -> Entries]
        /\ \A p \in Panes : Keeps(x, d)[p] = IF p = r.pane THEN d ELSE r.mem[p]
    BY <1>1, <2>3, KeepsTypes
  <2>5. q \in ProcStates /\ q.mem = Keeps(x, d) /\ q.pane = r.pane
    BY <1>1, <2>2, <2>4 DEF Dropped, ProcStates
  <2>6. (z = Escalated(q) \/ z = Proceeds(q)) /\ mode' = mode
    BY <2>1 DEF Ends
  <2> HIDE DEF w
  <2>7. ASSUME NEW p \in Open \ disturbed' PROVE Fits(p, q.mem[p])'
    <3>1. CASE p = r.pane
      <4>1. Ahead(mode[p], Target(r)) \in Nat /\ (Ahead(mode[p], Target(r)) <= 0 => mode[p] = Target(r))
        BY <1>6, <3>1, AheadBounds
      <4>2. r.left = 0 => mode[p] = Target(r)
        BY <1>6, <3>1, <4>1
      <4>3. CASE r.goal = "manual"
        <5>1. d.escalated /\ d.before = home[p] /\ mode[p] = "manual"
          BY <1>6, <2>3, <3>1, <4>2, <4>3 DEF Target
        <5> QED BY <1>2, <1>6, <2>4, <2>5, <2>6, <3>1, <5>1 DEF Fits
      <4>4. CASE r.goal = "back"
        <5>1. ~d.escalated /\ mode[p] = home[p]
          BY <1>6, <2>3, <3>1, <4>2, <4>4 DEF Target
        <5> QED BY <1>2, <1>6, <2>4, <2>5, <2>6, <3>1, <5>1 DEF Fits
      <4> QED BY <1>6, <3>1, <4>3, <4>4
    <3>2. CASE p # r.pane
      BY <1>2, <1>5, <2>4, <2>5, <2>6, <3>2 DEF Fits
    <3> QED BY <3>1, <3>2
  <2>8. \A p \in Open \ disturbed' : Held(p, z)'
    <3>1. \A p \in Open \ disturbed' : p \in Panes
      BY DEF Open
    <3> QED BY <1>1, <2>5, <2>6, <2>7, <3>1, DoneHeld
  <2>9. Busy(z)
    <3>1. CASE z = Proceeds(q)
      BY <2>5, <3>1 DEF Proceeds, Busy, ProcStates
    <3>2. CASE z = Escalated(q)
      BY <2>5, <3>2 DEF Escalated, Proceeds, Busy, ProcStates
    <3> QED BY <2>6, <3>1, <3>2
  <2> QED BY <1>1, <1>2, <2>1, <2>8, <2>9, WorkAccount
<1> QED BY <1>3, <1>7, <1>8

\* A process loads the file: what it holds is what the file says.
LEMMA LoadAccount ==
  ASSUME Shaped, Accounted, NEW x \in Procs, Quiet, NEW r, Becomes(x, r),
         r.at \in {"picks", "looks", "settles"}, r.mem = disk,
         UNCHANGED <<session, mode, home, disturbed>>
  PROVE  Accounted'
<1>1. Busy(r)
  BY DEF Busy
<1>2. ASSUME NEW p \in Open \ disturbed' PROVE Held(p, r)'
  <2>1. Fits(p, disk[p])
    BY <1>2 DEF Accounted
  <2> QED BY <2>1 DEF Held, Fits
<1> QED BY <1>1, <1>2, WorkAccount

LEMMA HookAccount ==
  ASSUME Shaped, Accounted, NEW h \in Hooks, HookReturns(h) \/ HookLoads(h) \/ HookSaves(h)
  PROVE  Accounted'
<1>0. h \in Procs /\ proc[h] \in ProcStates
  BY DEF Procs, Shaped, TypeOK
<1>1. CASE HookReturns(h)
  <2>1. ~Busy(proc[h]) /\ Becomes(h, Off) /\ UNCHANGED <<session, mode, home, disk, disturbed>>
    BY <1>1 DEF HookReturns, agents, history, Busy
  <2>2. ~Busy(Off)
    BY DEF Busy, Off
  <2>3. \A x \in Procs : proc'[x] = IF x = h THEN Off ELSE proc[x]
    BY <2>1 DEF Becomes, Shaped, TypeOK
  <2>4. Open' = Open
    BY <2>1 DEF Open
  <2>5. \A p \in Open' : home'[p] \in Modes
    BY <2>1, <2>4 DEF Accounted
  <2> QED BY <2>1, <2>2, <2>3, <2>4, <2>5, KeepsAccount
<1>2. CASE HookLoads(h)
  <2> DEFINE w == [proc[h] EXCEPT !.at = IF proc[h].kind \in {"stop", "tool"} THEN "settles" ELSE "looks",
                                  !.mem = disk]
  <2>1. Quiet /\ Becomes(h, w) /\ UNCHANGED <<session, mode, home, disturbed>>
    BY <1>2 DEF HookLoads, Free, agents, history
  <2>2. w.at \in {"looks", "settles"} /\ w.mem = disk
    BY <1>0 DEF ProcStates
  <2> PICK q : q = w
    OBVIOUS
  <2> HIDE DEF w
  <2> QED BY <1>0, <2>1, <2>2, LoadAccount
<1>3. CASE HookSaves(h)
  <2>1. /\ proc[h].at = "saves" /\ Becomes(h, Off) /\ UNCHANGED <<session, mode, home, disturbed>>
        /\ disk' = proc[h].mem
    BY <1>3 DEF HookSaves, agents, history
  <2>2. Busy(proc[h]) /\ ~Busy(Off)
    BY <2>1 DEF Busy, Off
  <2>3. ASSUME NEW p \in Open \ disturbed' PROVE Fits(p, disk[p])'
    <3>1. Fits(p, proc[h].mem[p])
      BY <1>0, <2>1, <2>2, <2>3 DEF Accounted, Held
    <3> QED BY <2>1, <3>1 DEF Fits
  <2> HIDE DEF Off
  <2> QED BY <1>0, <2>1, <2>2, <2>3, WorkAccount
<1> QED BY <1>1, <1>2, <1>3

LEMMA PollAccount ==
  ASSUME Shaped, Accounted, PollLoads \/ PollSaves \/ \E p \in Panes : PollPicks(p)
  PROVE  Accounted'
<1>0. "poll" \in Procs /\ proc["poll"] \in ProcStates
  BY DEF Procs, Shaped, TypeOK
<1>1. CASE PollLoads
  <2> DEFINE w == [Off EXCEPT !.at = "picks", !.kind = "poll", !.found = session,
                              !.seen = Open, !.idlers = {o \in Open : idle[o]}, !.mem = disk]
  <2>1. Quiet /\ Becomes("poll", w) /\ UNCHANGED <<session, mode, home, disturbed>>
    BY <1>1 DEF PollLoads, Free, agents, history
  <2>2. w.at = "picks" /\ w.mem = disk
    BY DEF Off
  <2> PICK q : q = w
    OBVIOUS
  <2> HIDE DEF w
  <2> QED BY <1>0, <2>1, <2>2, LoadAccount
<1>2. CASE \E p \in Panes : PollPicks(p)
  <2> PICK o \in Panes : PollPicks(o)
    BY <1>2
  <2> DEFINE w == [proc["poll"] EXCEPT !.at = "looks", !.pane = o]
  <2> PICK q : q = w
    OBVIOUS
  <2>1. /\ proc["poll"].at = "picks" /\ Becomes("poll", q)
        /\ UNCHANGED <<session, mode, home, disk, disturbed>>
    BY DEF PollPicks, agents, history
  <2>2. q.at = "looks" /\ q.mem = proc["poll"].mem /\ Busy(q) /\ Busy(proc["poll"])
    BY <1>0, <2>1 DEF ProcStates, Busy
  <2> HIDE DEF w
  <2>3. ASSUME NEW p \in Open \ disturbed' PROVE Held(p, q)'
    <3>1. Fits(p, q.mem[p])
      BY <1>0, <2>1, <2>2, <2>3 DEF Accounted, Held
    <3> QED BY <2>1, <2>2, <3>1 DEF Held, Fits
  <2> QED BY <1>0, <2>1, <2>2, <2>3, WorkAccount
<1>3. CASE PollSaves
  <2>1. /\ proc["poll"].at = "picks" /\ Becomes("poll", Off)
        /\ UNCHANGED <<session, mode, home, disturbed>>
        /\ disk' = [p \in Panes |-> IF p \in proc["poll"].seen \/ proc["poll"].mem[p].escalated
                                    THEN proc["poll"].mem[p] ELSE Blank]
    BY <1>3 DEF PollSaves, agents, history
  <2>2. Busy(proc["poll"]) /\ ~Busy(Off) /\ ~Blank.escalated
    BY <2>1 DEF Busy, Off, Blank
  <2>3. ASSUME NEW p \in Open \ disturbed' PROVE Fits(p, disk[p])'
    <3>1. Fits(p, proc["poll"].mem[p]) /\ p \in Panes
      BY <1>0, <2>1, <2>2, <2>3 DEF Accounted, Held, Open
    <3>2. disk'[p] = proc["poll"].mem[p] \/ (disk'[p] = Blank /\ ~proc["poll"].mem[p].escalated)
      BY <2>1, <3>1
    <3> QED BY <2>1, <2>2, <3>1, <3>2 DEF Fits
  <2> HIDE DEF Off
  <2> QED BY <1>0, <2>1, <2>2, <2>3, WorkAccount
<1> QED BY <1>1, <1>2, <1>3

LEMMA InitAccount == Init => Accounted
<1> SUFFICES ASSUME Init PROVE Accounted
  OBVIOUS
<1>1. \A x \in Procs : ~Busy(proc[x])
  BY DEF Init, Off, Busy
<1>2. mode = home /\ \A p \in Open : p = First /\ home[p] = Start
  <2>1. PICK b \in Bounds : session = [p \in Panes |-> IF p = First THEN b.sessions ELSE 0]
    BY DEF Init
  <2>2. home = [p \in Panes |-> IF p = First THEN Start ELSE None] /\ mode = home
    BY DEF Init
  <2> QED BY <2>1, <2>2 DEF Open
<1>3. \A p \in Panes : disk[p] = Blank /\ ~Blank.escalated
  BY DEF Init, Blank
<1> QED BY <1>1, <1>2, <1>3, StartTypes DEF Accounted, Fits, Open

LEMMA NextAccount ==
  ASSUME Shaped, Accounted, [Next]_vars
  PROVE  Accounted'
<1>1. CASE \E p \in Panes : Agents(p)
  BY <1>1, AgentsAccount
<1>2. CASE TimePasses \/ StateDeleted \/ \E x \in Procs : Dies(x)
  BY <1>2, FaultsAccount
<1>3. CASE PollLoads \/ Poll
  <2>0. "poll" \in Procs
    BY DEF Procs
  <2>1. CASE PollLoads \/ PollSaves \/ \E p \in Panes : PollPicks(p)
    BY <2>1, PollAccount
  <2>2. CASE Scan
    BY <2>2, ScanAccount
  <2>3. CASE Acts("poll")
    BY <2>0, <2>3, EscalatesAccount, SettlesAccount, CyclesAccount DEF Acts
  <2> QED BY <1>3, <2>1, <2>2, <2>3 DEF Poll
<1>4. CASE \E h \in Hooks : Hook(h)
  <2> PICK h \in Hooks : Hook(h)
    BY <1>4
  <2>1. h \in Procs
    BY DEF Procs
  <2> QED BY <2>1, HookAccount, NotesAccount, EscalatesAccount, SettlesAccount, CyclesAccount DEF Hook, Acts
<1>5. CASE UNCHANGED vars
  BY <1>5 DEF vars, agents, history, Accounted, Busy, Held, Fits, Quiet, Open, Target
<1> QED BY <1>1, <1>2, <1>3, <1>4, <1>5 DEF Next

\* The lock, the file and the presses fit together: when nobody works, a pane that
\* no fault and no human has come between is in its own mode, or in Manual mode with
\* the way back on file, however the loop and the hooks took their turns.
THEOREM ModesAccountedFor == Spec => []ModeIsAccountedFor
<1>1. Init => Shaped /\ Accounted
  BY InitShaped, InitAccount
<1>2. Shaped /\ Accounted /\ [Next]_vars => (Shaped /\ Accounted)'
  BY NextShaped, NextAccount
<1>3. Shaped /\ Accounted => ModeIsAccountedFor
  BY DEF Accounted, Fits, ModeIsAccountedFor
<1> QED BY <1>1, <1>2, <1>3, PTL DEF Spec

-----------------------------------------------------------------------------
(* What a denial can still cost.  The session of a pane has a claim for    *)
(* each hook of a denial that waits for the lock, for each denial in the   *)
(* transcript that the file in force has not read, and for the escalation  *)
(* that a process has begun; each denial gives it two.  A process at work  *)
(* raises a pane once at most, so that what the file on disk still says,   *)
(* should the process be killed, is one too many at most.                  *)

Raises(r) == r.at = "escalates" \/ (r.at = "cycles" /\ r.goal = "manual")

\* The claim that a process has turned into work on a pane.
Stake(p, r) ==
  IF r.pane = p /\ (Raises(r) \/ (r.at = "looks" /\ r.kind = "denied")) THEN 1 ELSE 0

MayRaise(p, r) ==
  IF r.at # "picks" /\ r.pane = p THEN r.at = "looks" \/ Raises(r) ELSE r.found[p] # 0

Waiting(p) == {h \in Hooks : proc[h].at = "waits" /\ proc[h].kind = "denied" /\ proc[h].pane = p}

Unread(p, e) ==
  IF e.path = session[p] /\ log[session[p]] > e.offset THEN log[session[p]] - e.offset ELSE 0

Fair(p, e, n, k) ==
  raised[session[p]] + Cardinality(Waiting(p)) + Unread(p, e) + n <= 2 * log[session[p]] + killed + k

Credit(p, r) ==
  Fair(p, r.mem[p], Stake(p, r), 0) /\ Fair(p, disk[p], 0, IF MayRaise(p, r) THEN 0 ELSE 1)

\* The denials counted reach the threshold only while the pane is being escalated.
Few(p, r) == (r.pane = p /\ Raises(r)) \/ r.mem[p].denials < THRESHOLD

Credited ==
  /\ \A p, q \in Open : session[p] = session[q] => p = q
  /\ \A s \in Sessions : s <= left.sessions => raised[s] = 0
  /\ \A p \in Panes :
       /\ IsFiniteSet(Waiting(p)) /\ disk[p].denials < THRESHOLD
       /\ \A x \in Procs : Few(p, proc[x])
  /\ \A s \in Sessions \ heir : raised[s] <= 2 * log[s] + killed
  /\ \A p \in Open : session[p] \notin heir =>
       /\ Quiet => Fair(p, disk[p], 0, 0)
       /\ \A x \in Procs : Busy(proc[x]) => Credit(p, proc[x])

All == Known /\ Accounted /\ Credited

-----------------------------------------------------------------------------
(* Sums.                                                                   *)

\* What is added up for the session of a pane is numbers.
LEMMA ClaimTypes ==
  ASSUME All, NEW p \in Open
  PROVE  /\ p \in Panes /\ session[p] \in Sessions
         /\ raised[session[p]] \in Nat /\ log[session[p]] \in Nat /\ killed \in Nat
         /\ Cardinality(Waiting(p)) \in Nat
         /\ \A e \in Entries : Unread(p, e) \in Nat
<1>1. p \in Panes /\ session[p] \in Sessions /\ raised[session[p]] \in Nat /\ log[session[p]] \in Nat
      /\ killed \in Nat
  BY DEF All, Known, Shaped, TypeOK, Open
<1>2. Cardinality(Waiting(p)) \in Nat
  BY <1>1, FS_CardinalityType DEF All, Credited
<1>3. \A e \in Entries : Unread(p, e) \in Nat
  BY <1>1 DEF Unread, Entries
<1> QED BY <1>1, <1>2, <1>3

LEMMA WaitingKept ==
  ASSUME Shaped, NEW x \in Procs, NEW r, Becomes(x, r), proc[x].at # "waits" \/ proc[x].kind # "denied",
         r.at # "waits"
  PROVE  \A p : Waiting(p)' = Waiting(p)
<1>1. \A y \in Procs : proc'[y] = IF y = x THEN r ELSE proc[y]
  BY DEF Becomes, Shaped, TypeOK
<1>2. Hooks \subseteq Procs
  BY DEF Procs
<1> QED BY <1>1, <1>2 DEF Waiting

\* A step of the process at work that costs the session of a pane nothing new.
LEMMA NoDearer ==
  ASSUME All, NEW p \in Open, NEW r \in ProcStates, NEW q \in ProcStates, Credit(p, r),
         UNCHANGED <<session, log, raised, disk, killed>>, Waiting(p)' = Waiting(p),
         Unread(p, q.mem[p]) + Stake(p, q) <= Unread(p, r.mem[p]) + Stake(p, r),
         MayRaise(p, q) => MayRaise(p, r)
  PROVE  Credit(p, q)'
<1>1. q.mem[p] \in Entries /\ r.mem[p] \in Entries /\ disk[p] \in Entries
  BY DEF ProcStates, Open, All, Known, Shaped, TypeOK
<1>2. /\ Unread(p, q.mem[p])' = Unread(p, q.mem[p]) /\ Unread(p, disk[p])' = Unread(p, disk[p])
      /\ Stake(p, q)' = Stake(p, q) /\ (MayRaise(p, q)' <=> MayRaise(p, q))
  BY DEF Unread, Stake, MayRaise, Raises
<1>3. Stake(p, q) \in {0, 1} /\ Stake(p, r) \in {0, 1}
  BY DEF Stake
<1>4. Fair(p, q.mem[p], Stake(p, q), 0)'
  BY <1>1, <1>2, <1>3, ClaimTypes DEF Credit, Fair
<1>5. Fair(p, disk[p], 0, IF MayRaise(p, q) THEN 0 ELSE 1)'
  BY <1>1, <1>2, ClaimTypes DEF Credit, Fair
<1> QED BY <1>4, <1>5 DEF Credit

-----------------------------------------------------------------------------
(* A step of a process: the claims that are left, and the rest.            *)

LEMMA WorkCredit ==
  ASSUME All, NEW x \in Procs, Busy(proc[x]) \/ Quiet, NEW r, Becomes(x, r),
         UNCHANGED <<session, log, heir>>, left'.sessions = left.sessions,
         \A s \in Sessions : raised'[s] = raised[s] \/ \E p \in Open : s = session[p],
         \A s \in Sessions \ heir : raised'[s] <= 2 * log[s] + killed',
         \A p \in Panes : IsFiniteSet(Waiting(p))' /\ disk'[p].denials < THRESHOLD /\ Few(p, r),
         \A p \in Open : session[p] \notin heir =>
           IF Busy(r) THEN Credit(p, r)' ELSE Fair(p, disk[p], 0, 0)'
  PROVE  Credited'
<1>1. \A y \in Procs : proc'[y] = IF y = x THEN r ELSE proc[y]
  BY DEF Becomes, All, Known, Shaped, TypeOK
<1>2. \A y \in Procs \ {x} : ~Busy(proc[y])
  BY DEF All, Accounted, Quiet, Busy
<1>3. Open' = Open
  BY DEF Open
<1>4. \A p, q \in Open' : session'[p] = session'[q] => p = q
  BY <1>3 DEF All, Credited
<1>5. \A s \in Sessions : s <= left'.sessions => raised'[s] = 0
  <2> SUFFICES ASSUME NEW s \in Sessions, s <= left.sessions PROVE raised'[s] = 0
    BY Zenon
  <2>1. ~\E p \in Open : s = session[p]
    BY WatchdogAssumption DEF All, Known, Reasons, Old, Open, Shaped, TypeOK
  <2> QED BY <2>1 DEF All, Credited
<1>6. ASSUME NEW p \in Panes, NEW y \in Procs PROVE Few(p, proc[y])'
  BY <1>1 DEF All, Credited, Few, Raises
<1>7. ASSUME NEW p \in Open', session'[p] \notin heir', Quiet' PROVE Fair(p, disk[p], 0, 0)'
  <2>1. ~Busy(r)
    BY <1>1, <1>7 DEF Quiet, Busy
  <2> QED BY <1>3, <1>7, <2>1
<1>8. ASSUME NEW p \in Open', session'[p] \notin heir', NEW y \in Procs, Busy(proc[y])'
      PROVE  Credit(p, proc[y])'
  <2>1. y = x /\ proc'[y] = r /\ Busy(r)
    BY <1>1, <1>2, <1>8 DEF Busy
  <2>2. Credit(p, r)'
    BY <1>3, <1>8, <2>1
  <2> QED BY <2>1, <2>2 DEF Credit, Fair, Stake, MayRaise, Raises, Unread
<1> QED BY <1>4, <1>5, <1>6, <1>7, <1>8 DEF Credited

\* The same, for a step that raises nothing and writes no file.
LEMMA QuietCredit ==
  ASSUME All, NEW x \in Procs, Busy(proc[x]), NEW q \in ProcStates, Becomes(x, q), Busy(q),
         UNCHANGED <<session, log, heir, raised, disk, killed>>, left'.sessions = left.sessions,
         \A p \in Panes : Few(p, q),
         \A p \in Open : session[p] \notin heir =>
           /\ Unread(p, q.mem[p]) + Stake(p, q) <= Unread(p, proc[x].mem[p]) + Stake(p, proc[x])
           /\ MayRaise(p, q) => MayRaise(p, proc[x])
  PROVE  Credited'
<1>1. \A p : Waiting(p)' = Waiting(p)
  BY WaitingKept DEF Busy, All, Known
<1>2. \A p \in Panes : IsFiniteSet(Waiting(p))' /\ disk'[p].denials < THRESHOLD
  BY <1>1 DEF All, Credited
<1>3. ASSUME NEW p \in Open, session[p] \notin heir PROVE Credit(p, q)'
  <2> PICK r : r = proc[x]
    OBVIOUS
  <2>1. Credit(p, r) /\ r \in ProcStates
    BY <1>3 DEF All, Credited, Known, Shaped, TypeOK
  <2> QED BY <1>1, <1>3, <2>1, NoDearer
<1>4. \A s \in Sessions \ heir : raised'[s] <= 2 * log[s] + killed'
  BY DEF All, Credited
<1> QED BY <1>2, <1>3, <1>4, WorkCredit

-----------------------------------------------------------------------------
(* The steps of the agents, and the faults: what they add to the claims.   *)

\* A step in which the claims of a pane grow by no more than its denials allow.
LEMMA KeepsCredit ==
  ASSUME All, Shaped', UNCHANGED <<disk, raised, heir, killed>>, left'.sessions = left.sessions,
         \A x \in Procs : proc'[x] = proc[x] \/ (~Busy(proc[x]) /\ ~Busy(proc'[x]) /\ proc'[x].mem = Off.mem),
         \A p \in Panes : session'[p] \in {session[p], 0} /\ IsFiniteSet(Waiting(p))',
         \A s \in Sessions : log'[s] >= log[s],
         \A p \in Open' :
           /\ Cardinality(Waiting(p))' + log[session[p]] <= Cardinality(Waiting(p)) + log'[session[p]]
           /\ Cardinality(Waiting(p))' \in Nat
  PROVE  Credited'
<1>1. \A x \in Procs : Busy(proc'[x]) => Busy(proc[x]) /\ proc'[x] = proc[x]
  OBVIOUS
<1>2. Quiet' => Quiet
  BY DEF Quiet, Busy
<1>3. \A p \in Open' : p \in Open /\ session'[p] = session[p]
  BY DEF Open
<1>4. ASSUME NEW p \in Panes, NEW x \in Procs PROVE Few(p, proc[x])'
  <2>1. CASE proc'[x] = proc[x]
    BY <2>1 DEF All, Credited, Few, Raises
  <2>2. CASE proc'[x].mem = Off.mem
    BY <2>2, WatchdogAssumption DEF Few, Off, Blank
  <2> QED BY <2>1, <2>2
<1>5. \A s \in Sessions \ heir : raised[s] <= 2 * log'[s] + killed
  BY DEF All, Credited, Known, Shaped, TypeOK
\* A claim of the transcript grows with the transcript.
<1>6. ASSUME NEW p \in Open', session[p] \notin heir, NEW e \in Entries, NEW n \in {0, 1}, NEW k \in {0, 1},
             Fair(p, e, n, k)
      PROVE  Fair(p, e, n, k)'
  <2>1. /\ raised[session[p]] \in Nat /\ log[session[p]] \in Nat /\ killed \in Nat
        /\ Cardinality(Waiting(p)) \in Nat /\ session[p] \in Sessions /\ e.offset \in Nat
    BY <1>3, ClaimTypes DEF Entries
  <2>2. log'[session[p]] \in Nat /\ log'[session[p]] >= log[session[p]]
    BY <2>1 DEF Shaped, TypeOK
  <2>3. Unread(p, e)' + log[session[p]] <= Unread(p, e) + log'[session[p]]
    BY <1>3, <2>1, <2>2 DEF Unread
  <2>4. Unread(p, e)' \in Nat /\ Unread(p, e) \in Nat
    BY <1>3, <2>1, <2>2 DEF Unread
  <2> QED BY <1>3, <1>6, <2>1, <2>2, <2>3, <2>4 DEF Fair
<1>7. ASSUME NEW p \in Open', session'[p] \notin heir' PROVE Quiet' => Fair(p, disk[p], 0, 0)'
  <2>1. disk[p] \in Entries
    BY DEF Open, All, Known, Shaped, TypeOK
  <2>2. \A e \in Entries : Fair(p, e, 0, 0) => Fair(p, e, 0, 0)'
    BY <1>3, <1>6, <1>7
  <2>3. Quiet => Fair(p, disk[p], 0, 0)
    BY <1>3, <1>7 DEF All, Credited
  <2> QED BY <1>2, <2>1, <2>2, <2>3 DEF Fair, Unread
<1>8. ASSUME NEW p \in Open', session'[p] \notin heir', NEW x \in Procs, Busy(proc'[x])
      PROVE  Credit(p, proc[x])'
  <2> PICK r : r = proc[x]
    OBVIOUS
  <2> PICK d : d = disk[p]
    OBVIOUS
  <2>1. r.mem[p] \in Entries /\ d \in Entries
    BY DEF Open, ProcStates, All, Known, Shaped, TypeOK
  <2>2. Credit(p, r)
    BY <1>1, <1>3, <1>8 DEF All, Credited
  <2>3. Stake(p, r)' = Stake(p, r) /\ (MayRaise(p, r)' <=> MayRaise(p, r)) /\ Stake(p, r) \in {0, 1}
    BY DEF Stake, MayRaise, Raises
  <2>4. \A e \in Entries : \A n, k \in {0, 1} : Fair(p, e, n, k) => Fair(p, e, n, k)'
    BY <1>3, <1>6, <1>8
  <2>5. Fair(p, r.mem[p], Stake(p, r), 0)'
    <3> PICK n \in {0, 1} : n = Stake(p, r)
      BY <2>3
    <3>1. Fair(p, r.mem[p], n, 0)
      BY <2>2 DEF Credit
    <3>2. Fair(p, r.mem[p], n, 0)'
      BY <2>1, <2>4, <3>1
    <3> QED BY <2>3, <3>2 DEF Fair
  <2>6. Fair(p, d, 0, IF MayRaise(p, r) THEN 0 ELSE 1)'
    <3> PICK k \in {0, 1} : k = IF MayRaise(p, r) THEN 0 ELSE 1
      OBVIOUS
    <3>1. Fair(p, d, 0, k)
      BY <2>2 DEF Credit
    <3>2. Fair(p, d, 0, k)'
      BY <2>1, <2>4, <3>1
    <3> QED BY <2>3, <3>2 DEF Fair
  <2>7. proc'[x] = r /\ disk'[p] = d
    BY <1>1, <1>8
  <2> QED BY <2>5, <2>6, <2>7 DEF Credit, Fair, Unread, Stake, MayRaise, Raises
<1>9. \A p, q \in Open' : session'[p] = session'[q] => p = q
  BY <1>3 DEF All, Credited
<1>10. \A s \in Sessions : s <= left'.sessions => raised'[s] = 0
  BY DEF All, Credited
<1>11. \A p \in Panes : disk'[p].denials < THRESHOLD
  BY DEF All, Credited
<1> QED BY <1>4, <1>5, <1>7, <1>8, <1>9, <1>10, <1>11 DEF Credited

\* A hook that starts for a denial is one more that waits.
LEMMA StartCredit ==
  ASSUME All, NEW p \in Panes, NEW kind \in {"stop", "tool", "denied", "blocked"}, Starts(kind, p)
  PROVE  /\ \A x \in Procs : \/ proc'[x] = proc[x]
                             \/ ~Busy(proc[x]) /\ ~Busy(proc'[x]) /\ proc'[x].mem = Off.mem
         /\ \A q \in Panes :
              /\ IsFiniteSet(Waiting(q))'
              /\ Cardinality(Waiting(q))' \in Nat
              /\ Cardinality(Waiting(q))' <= Cardinality(Waiting(q)) + (IF kind = "denied" /\ q = p THEN 1 ELSE 0)
<1>0. \A q \in Panes : IsFiniteSet(Waiting(q)) /\ Cardinality(Waiting(q)) \in Nat
  BY FS_CardinalityType DEF All, Credited
<1>1. CASE UNCHANGED proc
  <2>1. \A q \in Panes : Waiting(q)' = Waiting(q)
    BY <1>1 DEF Waiting
  <2> QED BY <1>0, <1>1, <2>1
<1>2. CASE \E h \in Hooks : /\ proc[h].at = "off"
                            /\ Becomes(h, [Off EXCEPT !.at = "waits", !.kind = kind, !.pane = p])
  <2> PICK h \in Hooks : /\ proc[h].at = "off"
                         /\ Becomes(h, [Off EXCEPT !.at = "waits", !.kind = kind, !.pane = p])
    BY <1>2
  <2> DEFINE w == [Off EXCEPT !.at = "waits", !.kind = kind, !.pane = p]
  <2> PICK r : r = w
    OBVIOUS
  <2>1. r.at = "waits" /\ r.kind = kind /\ r.pane = p /\ r.mem = Off.mem
    BY DEF Off
  <2> HIDE DEF w
  <2>2. \A x \in Procs : proc'[x] = IF x = h THEN r ELSE proc[x]
    BY DEF w, Becomes, All, Known, Shaped, TypeOK, Procs
  <2>3. Hooks \subseteq Procs
    BY DEF Procs
  <2>4. ASSUME NEW q \in Panes, ~(kind = "denied" /\ q = p) PROVE Waiting(q)' = Waiting(q)
    BY <2>1, <2>2, <2>3, <2>4 DEF Waiting
  <2>5. CASE kind = "denied"
    <3>1. Waiting(p)' = Waiting(p) \cup {h} /\ h \notin Waiting(p)
      BY <2>1, <2>2, <2>3, <2>5 DEF Waiting
    <3>2. IsFiniteSet(Waiting(p))' /\ Cardinality(Waiting(p))' = Cardinality(Waiting(p)) + 1
      BY <1>0, <3>1, FS_AddElement
    <3> QED BY <1>0, <2>1, <2>2, <2>4, <2>5, <3>2 DEF Busy
  <2>6. CASE kind # "denied"
    <3>1. \A q \in Panes : Waiting(q)' = Waiting(q)
      BY <2>4, <2>6
    <3> QED BY <1>0, <2>1, <2>2, <2>6, <3>1 DEF Busy
  <2> QED BY <2>5, <2>6
<1> QED BY <1>1, <1>2 DEF Starts

\* A session that is opened has no claims, unless the watchdog was at work there.
LEMMA OpensCredit ==
  ASSUME All, Shaped', NEW p \in Panes, Opens(p)
  PROVE  Credited'
<1> PICK s : s = left.sessions
  OBVIOUS
<1>1. /\ s \in Nat /\ s > 0 /\ left'.sessions = s - 1 /\ session[p] = 0
      /\ session' = [session EXCEPT ![p] = s] /\ s \in Sessions
      /\ UNCHANGED <<log, disk, proc, raised, killed>> /\ heir \subseteq heir' /\ heir' \subseteq heir \cup {s}
  BY DEF Opens, Spend, All, Known, Shaped, TypeOK
<1>2. session'[p] = s /\ \A q \in Panes : q # p => session'[q] = session[q]
  BY <1>1 DEF All, Known, Shaped, TypeOK
<1>3. Sessions \subseteq Nat \ {0}
  BY WatchdogAssumption
<1>4. \A q \in Open : session[q] \in Nat /\ session[q] > s
  BY <1>1, <1>3 DEF Open, All, Known, Shaped, TypeOK, Reasons, Old
<1>5. Open' = Open \cup {p} /\ p \notin Open
  BY <1>1, <1>2 DEF Open
<1>6. \A q, o \in Open' : session'[q] = session'[o] => q = o
  BY <1>1, <1>2, <1>4, <1>5 DEF All, Credited, Open
<1>7. \A t \in Sessions : t <= left'.sessions => raised'[t] = 0
  <2> SUFFICES ASSUME NEW t \in Sessions, t <= s - 1 PROVE raised[t] = 0
    BY <1>1
  <2>1. t <= s
    BY <1>1, <1>3
  <2> QED BY <2>1 DEF All, Credited
<1>8. \A q : Waiting(q)' = Waiting(q)
  BY <1>1 DEF Waiting
<1>9. \A q \in Panes : /\ IsFiniteSet(Waiting(q))' /\ disk'[q].denials < THRESHOLD
                       /\ \A x \in Procs : Few(q, proc[x])'
  BY <1>1, <1>8 DEF All, Credited, Few, Raises
<1>10. \A t \in Sessions \ heir' : raised'[t] <= 2 * log'[t] + killed'
  BY <1>1 DEF All, Credited
<1>11. ASSUME NEW q \in Open', session'[q] \notin heir', q # p
       PROVE  /\ Quiet' => Fair(q, disk[q], 0, 0)'
              /\ \A x \in Procs : Busy(proc'[x]) => Credit(q, proc[x])'
  <2>1. q \in Open /\ session'[q] = session[q] /\ session[q] \notin heir
    BY <1>1, <1>2, <1>5, <1>11
  <2>2. /\ Quiet => Fair(q, disk[q], 0, 0)
        /\ \A x \in Procs : Busy(proc[x]) => Credit(q, proc[x])
    BY <2>1 DEF All, Credited
  <2> QED BY <1>1, <1>8, <2>1, <2>2 DEF Quiet, Credit, Fair, Unread, Stake, MayRaise, Raises, Busy
<1>12. ASSUME s \notin heir', p \in Open'
       PROVE  /\ Quiet' => Fair(p, disk[p], 0, 0)'
              /\ \A x \in Procs : Busy(proc'[x]) => Credit(p, proc[x])'
  <2>1. \A x \in Procs : proc[x].pane # p /\ proc[x].found[p] = 0
    <3>1. ~\E x \in Procs : WorksOn(x, p)
      <4> DEFINE Work == disk[p].escalated \/ \E x \in Procs : WorksOn(x, p)
      <4>1. IF Work THEN heir' = heir \cup {left.sessions} ELSE UNCHANGED heir
        BY DEF Opens
      <4> HIDE DEF Work
      <4>2. ~Work
        BY <1>12, <4>1
      <4> QED BY <4>2 DEF Work
    <3> QED BY <3>1 DEF WorksOn
  <2>2. Waiting(p)' = {}
    <3>1. Waiting(p) = {}
      BY <2>1 DEF Waiting, Procs
    <3> QED BY <1>8, <3>1
  <2>3. Cardinality(Waiting(p))' = 0
    BY <2>2, FS_EmptySet
  <2>4. raised'[s] = 0 /\ log'[s] \in Nat /\ killed' \in Nat
    BY <1>1 DEF All, Credited, Known, Shaped, TypeOK
  <2>5. ASSUME NEW e \in Entries, Old(e.path), NEW k \in {0, 1} PROVE Fair(p, e, 0, k)'
    <3>1. e.path # s
      BY <1>1, <2>5 DEF Old
    <3>2. Unread(p, e)' = 0
      BY <1>2, <3>1 DEF Unread
    <3> QED BY <1>2, <2>3, <2>4, <3>2 DEF Fair
  <2>6. Fair(p, disk[p], 0, 0)'
    <3> PICK d : d = disk[p]
      OBVIOUS
    <3>1. Fair(p, d, 0, 0)'
      BY <2>5 DEF All, Known, Reasons, Shaped, TypeOK
    <3> QED BY <1>1, <3>1 DEF Fair, Unread
  <2>7. ASSUME NEW x \in Procs PROVE Credit(p, proc[x])'
    <3> PICK r : r = proc[x]
      OBVIOUS
    <3> PICK d : d = disk[p]
      OBVIOUS
    <3>1. r.mem[p] \in Entries /\ Old(r.mem[p].path) /\ d \in Entries /\ Old(d.path)
      BY DEF All, Known, Reasons, ProcOK, Shaped, TypeOK, ProcStates
    <3>2. Fair(p, r.mem[p], 0, 0)' /\ Fair(p, d, 0, 1)'
      BY <2>5, <3>1
    <3>3. Stake(p, r)' = 0 /\ ~MayRaise(p, r)'
      BY <2>1 DEF Stake, MayRaise
    <3> QED BY <1>1, <3>2, <3>3 DEF Credit, Fair, Unread, Stake, MayRaise, Raises
  <2> QED BY <2>6, <2>7
<1> QED BY <1>2, <1>6, <1>7, <1>9, <1>10, <1>11, <1>12 DEF Credited, Busy

LEMMA AgentsCredit ==
  ASSUME All, Shaped', NEW p \in Panes, Agents(p)
  PROVE  Credited'
<1>0. \A q \in Panes : IsFiniteSet(Waiting(q)) /\ Cardinality(Waiting(q)) \in Nat
  BY FS_CardinalityType DEF All, Credited
<1>9. /\ \A s \in Sessions : log[s] \in Nat
      /\ \A q \in Open' : q \in Panes
  BY DEF All, Known, Shaped, TypeOK, Open
<1>1. CASE PromptGiven(p) \/ HumanPresses(p) \/ Closes(p)
  <2>1. /\ UNCHANGED <<log, disk, raised, heir, killed, proc>> /\ left'.sessions = left.sessions
        /\ \A q \in Panes : session'[q] \in {session[q], 0}
    BY <1>1, SpendTypes DEF PromptGiven, HumanPresses, Closes, history, All, Known, Shaped, TypeOK
  <2>2. \A q : Waiting(q)' = Waiting(q)
    BY <2>1 DEF Waiting
  <2>3. \A q \in Open' : log[session[q]] \in Nat
    BY <2>1 DEF Open, All, Known, Shaped, TypeOK
  <2> QED BY <1>0, <1>9, <2>1, <2>2, <2>3, KeepsCredit
<1>2. CASE TurnEnds(p) \/ CallsTool(p) \/ Blocked(p)
  <2>1. /\ UNCHANGED <<session, log, disk, raised, heir, killed, left>>
        /\ \E kind \in {"stop", "tool", "blocked"} : Starts(kind, p)
    BY <1>2 DEF TurnEnds, CallsTool, Blocked, agents, history
  <2>2. PICK kind \in {"stop", "tool", "blocked"} : Starts(kind, p)
    BY <2>1
  <2>3. /\ \A x \in Procs : \/ proc'[x] = proc[x]
                            \/ ~Busy(proc[x]) /\ ~Busy(proc'[x]) /\ proc'[x].mem = Off.mem
        /\ \A q \in Panes :
             /\ IsFiniteSet(Waiting(q))' /\ Cardinality(Waiting(q))' \in Nat
             /\ Cardinality(Waiting(q))' <= Cardinality(Waiting(q))
    BY <1>0, <2>2, StartCredit
  <2>4. \A q \in Open' : log[session[q]] \in Nat
    BY <2>1 DEF Open, All, Known, Shaped, TypeOK
  <2> QED BY <1>0, <1>9, <2>1, <2>3, <2>4, KeepsCredit
<1>3. CASE Denied(p)
  <2>1. /\ session[p] \in Sessions /\ log' = [log EXCEPT ![session[p]] = log[session[p]] + 1] /\ p \in Open
        /\ UNCHANGED <<session, disk, raised, heir, killed>> /\ left'.sessions = left.sessions
        /\ Starts("denied", p)
    BY <1>3, SpendTypes DEF Denied, Open, history, All, Known, Shaped, TypeOK
  <2>2. /\ \A x \in Procs : \/ proc'[x] = proc[x]
                            \/ ~Busy(proc[x]) /\ ~Busy(proc'[x]) /\ proc'[x].mem = Off.mem
        /\ \A q \in Panes :
             /\ IsFiniteSet(Waiting(q))' /\ Cardinality(Waiting(q))' \in Nat
             /\ Cardinality(Waiting(q))' <= Cardinality(Waiting(q)) + (IF q = p THEN 1 ELSE 0)
    BY <2>1, StartCredit
  <2>3. /\ \A s \in Sessions : log'[s] >= log[s]
        /\ log'[session[p]] = log[session[p]] + 1
    BY <2>1 DEF All, Known, Shaped, TypeOK
  <2>4. ASSUME NEW q \in Open'
        PROVE  Cardinality(Waiting(q))' + log[session[q]] <= Cardinality(Waiting(q)) + log'[session[q]]
    <3>1. q \in Panes /\ session[q] \in Sessions /\ log[session[q]] \in Nat /\ log'[session[q]] \in Nat
      BY <2>1, <2>4 DEF Open, All, Known, Shaped, TypeOK
    <3>2. CASE q = p
      BY <1>0, <2>2, <2>3, <3>1, <3>2
    <3>3. CASE q # p
      BY <1>0, <2>2, <2>3, <3>1, <3>3
    <3> QED BY <3>2, <3>3
  <2>5. \A q \in Open' : Cardinality(Waiting(q))' \in Nat
    BY <1>9, <2>2
  <2> QED BY <2>1, <2>2, <2>3, <2>4, <2>5, KeepsCredit
<1>4. CASE Opens(p)
  BY <1>4, OpensCredit
<1> QED BY <1>1, <1>2, <1>3, <1>4 DEF Agents

LEMMA OffCredit == /\ ~Busy(Off) /\ Off.at = "off" /\ Off \in ProcStates
                   /\ \A p \in Panes : Few(p, Off) /\ Blank.denials < THRESHOLD
BY OffTypes, WatchdogAssumption DEF Busy, Few, Off, Blank

LEMMA FaultsCredit ==
  ASSUME All, Shaped', (\E x \in Procs : Dies(x)) \/ StateDeleted \/ TimePasses
  PROVE  Credited'
\* A process that is killed may have raised a pane that the file still says to raise.
<1>1. ASSUME NEW x \in Procs, Dies(x) PROVE Credited'
  <2>1. /\ Busy(proc[x]) /\ Becomes(x, Off) /\ UNCHANGED <<session, log, heir, raised, disk>>
        /\ left'.sessions = left.sessions /\ killed' = killed + 1 /\ killed \in Nat
    BY <1>1, SpendTypes DEF Dies, agents, Busy, All, Known, Shaped, TypeOK
  <2>2. \A p : Waiting(p)' = Waiting(p)
    BY <2>1, OffCredit, WaitingKept DEF Busy, All, Known
  <2>3. \A s \in Sessions \ heir : raised'[s] <= 2 * log[s] + killed'
    BY <2>1 DEF All, Credited, Known, Shaped, TypeOK
  <2>4. ASSUME NEW p \in Open, session[p] \notin heir PROVE Fair(p, disk[p], 0, 0)'
    <3>1. disk[p] \in Entries /\ Unread(p, disk[p])' = Unread(p, disk[p])
      BY <2>1 DEF Unread, Open, All, Known, Shaped, TypeOK
    <3>2. Fair(p, disk[p], 0, 0) \/ Fair(p, disk[p], 0, 1)
      BY <2>1, <2>4 DEF All, Credited, Credit
    <3> QED BY <2>1, <2>2, <3>1, <3>2, ClaimTypes DEF Fair
  <2>5. \A p \in Panes : IsFiniteSet(Waiting(p))' /\ disk'[p].denials < THRESHOLD /\ Few(p, Off)
    BY <2>1, <2>2, OffCredit DEF All, Credited
  <2> HIDE DEF Off
  <2> QED BY <2>1, <2>3, <2>4, <2>5, OffCredit, WorkCredit
<1>2. CASE StateDeleted
  <2>1. /\ disk' = [p \in Panes |-> Blank] /\ UNCHANGED <<session, log, heir, raised, killed, proc>>
        /\ left'.sessions = left.sessions
    BY <1>2, SpendTypes DEF StateDeleted, agents, All, Known
  <2>2. /\ \A p : Waiting(p)' = Waiting(p)
        /\ Open' = Open /\ (Quiet' <=> Quiet)
    BY <2>1 DEF Waiting, Open, Quiet
  <2>3. \A p \in Panes : /\ disk'[p].denials < THRESHOLD /\ IsFiniteSet(Waiting(p))'
                         /\ \A x \in Procs : Few(p, proc[x])'
    BY <2>1, <2>2, OffCredit DEF All, Credited, Few, Raises
\* The file says nothing of any transcript: the claims on it are less.
  <2>4. ASSUME NEW p \in Open, session[p] \notin heir, NEW e \in Entries, NEW k \in {0, 1}, Fair(p, e, 0, k)
        PROVE  Fair(p, disk[p], 0, k)'
    <3>1. Unread(p, disk[p])' = 0
      BY <2>1 DEF Open, Unread, Blank
    <3> QED BY <2>1, <2>2, <2>4, <3>1, ClaimTypes DEF Fair
  <2>5. ASSUME NEW p \in Open, session[p] \notin heir
        PROVE  /\ Quiet' => Fair(p, disk[p], 0, 0)'
               /\ \A x \in Procs : Busy(proc'[x]) => Credit(p, proc[x])'
    <3>1. disk[p] \in Entries
      BY DEF Open, All, Known, Shaped, TypeOK
    <3>2. Quiet' => Fair(p, disk[p], 0, 0)'
      BY <2>2, <2>4, <2>5, <3>1 DEF All, Credited
    <3>3. ASSUME NEW x \in Procs, Busy(proc[x]) PROVE Credit(p, proc[x])'
      <4> PICK r : r = proc[x]
        OBVIOUS
      <4>1. Credit(p, r)
        BY <2>5, <3>3 DEF All, Credited
      <4> PICK k \in {0, 1} : k = IF MayRaise(p, r) THEN 0 ELSE 1
        OBVIOUS
      <4>2. Fair(p, disk[p], 0, k)'
        BY <2>4, <2>5, <3>1, <4>1 DEF Credit
      <4>3. Fair(p, r.mem[p], Stake(p, r), 0)'
        BY <2>1, <2>2, <4>1 DEF Credit, Fair, Unread, Stake, Raises
      <4> QED BY <2>1, <4>2, <4>3 DEF Credit, Fair, Unread, Stake, MayRaise, Raises
    <3> QED BY <2>1, <3>2, <3>3
  <2>6. \A p, q \in Open' : session'[p] = session'[q] => p = q
    BY <2>1, <2>2 DEF All, Credited
  <2>7. /\ \A s \in Sessions : s <= left'.sessions => raised'[s] = 0
        /\ \A s \in Sessions \ heir' : raised'[s] <= 2 * log'[s] + killed'
    BY <2>1 DEF All, Credited
  <2> QED BY <2>1, <2>2, <2>3, <2>5, <2>6, <2>7 DEF Credited, Busy
<1>3. CASE TimePasses
  <2>1. UNCHANGED <<session, log, raised, killed, heir, left, disk, proc>>
    BY <1>3 DEF TimePasses, agents, history
  <2> QED BY <2>1 DEF All, Credited, Credit, Fair, Few, Raises, Unread, Waiting, Stake, MayRaise, Quiet, Open, Busy
<1> QED BY <1>1, <1>2, <1>3

-----------------------------------------------------------------------------
(* The steps of the processes: what they turn the claims into.             *)

\* The pane is dealt with: nothing is at stake, and it is raised no more.
LEMMA DoneStake ==
  ASSUME NEW r \in ProcStates, r.pane \in Panes, NEW q, q = Proceeds(r) \/ q = Escalated(r)
  PROVE  /\ q.mem = r.mem /\ Busy(q) /\ ~Raises(q)
         /\ \A p \in Panes : Stake(p, q) = 0 /\ (MayRaise(p, q) => p # r.pane /\ r.found[p] # 0)
<1>1. CASE r.kind = "poll" /\ q = Proceeds(r)
  <2>1. /\ q.mem = r.mem /\ q.at = "picks"
        /\ \A p \in Panes : q.found[p] = IF p = r.pane THEN 0 ELSE r.found[p]
    BY <1>1 DEF Proceeds, ProcStates
  <2> QED BY <2>1 DEF Busy, Raises, Stake, MayRaise
<1>2. CASE r.kind = "poll" /\ q = Escalated(r)
  <2>1. q.mem = r.mem /\ q.at = "settles" /\ q.pane = r.pane /\ q.found = r.found
    BY <1>2 DEF Escalated, ProcStates
  <2> QED BY <2>1 DEF Busy, Raises, Stake, MayRaise
<1>3. CASE r.kind # "poll"
  <2>1. q.mem = r.mem /\ q.at = "saves" /\ q.pane = r.pane /\ q.found = r.found
    BY <1>3 DEF Proceeds, Escalated, ProcStates
  <2> QED BY <2>1 DEF Busy, Raises, Stake, MayRaise
<1> QED BY <1>1, <1>2, <1>3

\* What a process remembers of the other panes is as it was.
LEMMA OthersFew ==
  ASSUME All, NEW x \in Procs, NEW q, NEW p \in Panes, p # proc[x].pane, q.mem[p] = proc[x].mem[p]
  PROVE  Few(p, q)
BY DEF All, Credited, Few

LEMMA ScanCredit ==
  ASSUME All, Shaped', Scan
  PROVE  Credited'
<1> PICK r : r = proc["poll"]
  OBVIOUS
<1> PICK s : s = r.found[r.pane]
  OBVIOUS
<1> DEFINE e == IF Entry("poll").path = s THEN Entry("poll")
                ELSE [Entry("poll") EXCEPT !.path = s, !.offset = log[s], !.denials = 0]
<1>1. /\ "poll" \in Procs /\ r.at = "looks" /\ r \in ProcStates /\ r.pane \in Panes /\ s # 0
      /\ r.kind = "poll" /\ Busy(r)
  BY InHand DEF Scan, Procs, All, Known, Busy
<1>2. s \in Sessions /\ log[s] \in Nat
  BY <1>1 DEF ProcStates, All, Known, Shaped, TypeOK
<1>3. Entry("poll") \in Entries /\ Entry("poll") = r.mem[r.pane]
  BY <1>1 DEF Entry, ProcStates
<1>4. Entry("poll").denials < THRESHOLD /\ THRESHOLD \in Nat \ {0}
  <2>1. Few(r.pane, r) /\ ~Raises(r)
    BY <1>1 DEF All, Credited, Raises
  <2> QED BY <1>3, <2>1, WatchdogAssumption DEF Few
<1>5. /\ e \in Entries /\ e.path = s /\ e.denials < THRESHOLD
      /\ Entry("poll").path = s => e.offset = Entry("poll").offset
      /\ Entry("poll").path # s => e.offset = log[s]
  <2>1. CASE Entry("poll").path = s
    BY <1>3, <1>4, <2>1
  <2>2. CASE Entry("poll").path # s
    <3>1. e = [Entry("poll") EXCEPT !.path = s, !.offset = log[s], !.denials = 0]
      BY <2>2
    <3>2. e \in Entries /\ e.path = s /\ e.denials = 0 /\ e.offset = log[s]
      BY <1>2, <1>3, <3>1 DEF Entries
    <3> QED BY <1>4, <2>2, <3>2
  <2> QED BY <2>1, <2>2
<1> HIDE DEF e
<1>6. PICK n \in IF log[s] > e.offset /\ ~e.escalated THEN 0 .. e.denials + log[s] - e.offset
                  ELSE {e.denials} :
           Becomes("poll", [r EXCEPT !.at = IF ~e.escalated /\ n >= THRESHOLD THEN "escalates" ELSE "settles",
                                     !.mem = Keeps("poll", [e EXCEPT !.offset = log[s], !.denials = n])])
  BY DEF Scan, e
<1>7. n \in Nat
  BY <1>2, <1>5, <1>6 DEF Entries
<1> DEFINE d == [e EXCEPT !.offset = log[s], !.denials = n]
           w == [r EXCEPT !.at = IF ~e.escalated /\ n >= THRESHOLD THEN "escalates" ELSE "settles",
                          !.mem = Keeps("poll", d)]
<1> PICK q : q = w
  OBVIOUS
<1>8. d \in Entries /\ d.path = s /\ d.offset = log[s] /\ d.denials = n
  BY <1>2, <1>5, <1>7 DEF Entries
<1> HIDE DEF d
<1>9. Becomes("poll", q)
  BY <1>6 DEF d
<1>10. /\ Keeps("poll", d) \in [Panes -> Entries]
       /\ \A p \in Panes : Keeps("poll", d)[p] = IF p = r.pane THEN d ELSE r.mem[p]
  BY <1>1, <1>8, KeepsTypes DEF All, Known
<1>11. /\ q \in ProcStates /\ q.mem = Keeps("poll", d) /\ q.pane = r.pane /\ q.kind = "poll" /\ q.found = r.found
       /\ q.at = IF ~e.escalated /\ n >= THRESHOLD THEN "escalates" ELSE "settles"
  BY <1>1, <1>10 DEF ProcStates
<1> HIDE DEF w
<1>12. UNCHANGED <<session, log, heir, raised, disk, killed, left>>
  BY DEF Scan, agents, history
\* It takes a line that was not read to come to the threshold.
<1>13. q.at = "escalates" => log[s] > e.offset /\ Entry("poll").path = s
  <2>1. e.offset \in Nat /\ e.denials \in Nat
    BY <1>5 DEF Entries
  <2>2. q.at = "escalates" => n >= THRESHOLD
    BY <1>11
  <2>3. ~(log[s] > e.offset /\ ~e.escalated) => n = e.denials
    BY <1>6
  <2>4. q.at = "escalates" => log[s] > e.offset
    BY <1>4, <1>5, <1>7, <2>1, <2>2, <2>3
  <2> QED BY <1>2, <1>5, <2>1, <2>4
<1>14. ASSUME NEW p \in Panes PROVE Few(p, q)
  <2>1. CASE p = r.pane
    <3>1. CASE q.at = "escalates"
      BY <1>11, <2>1, <3>1 DEF Few, Raises
    <3>2. CASE q.at # "escalates"
      <4>1. n < THRESHOLD
        BY <1>4, <1>5, <1>6, <1>7, <1>11, <3>2
      <4> QED BY <1>8, <1>10, <1>11, <2>1, <4>1 DEF Few
    <3> QED BY <3>1, <3>2
  <2>2. CASE p # r.pane
    BY <1>1, <1>10, <1>11, <2>2, OthersFew
  <2> QED BY <2>1, <2>2
<1>15. ASSUME NEW p \in Open, session[p] \notin heir
       PROVE  /\ Unread(p, q.mem[p]) + Stake(p, q) <= Unread(p, r.mem[p]) + Stake(p, r)
              /\ MayRaise(p, q) => MayRaise(p, r)
  <2>0. p \in Panes
    BY DEF Open
  <2>1. CASE p = r.pane
    <3>1. session[p] = s
      <4>1. ProcOK(r)
        BY <1>1 DEF All, Known, Reasons
      <4>2. session[p] \in {0, r.found[p]} \/ session[p] \in heir
        BY <1>1, <2>0, <2>1, <4>1 DEF ProcOK
      <4> QED BY <1>15, <2>1, <4>2 DEF Open
    <3>2. Unread(p, q.mem[p]) = 0
      <4>1. q.mem[p] = d
        BY <1>10, <1>11, <2>0, <2>1
      <4>2. ~(log[s] > log[s])
        BY <1>2
      <4> QED BY <1>8, <3>1, <4>1, <4>2 DEF Unread
    <3>3. Stake(p, q) = IF q.at = "escalates" THEN 1 ELSE 0
      BY <1>11, <2>1 DEF Stake, Raises
    <3>4. q.at = "escalates" => Unread(p, r.mem[p]) >= 1
      BY <1>2, <1>3, <1>5, <1>13, <2>1, <3>1 DEF Unread, Entries
    <3>5. Unread(p, r.mem[p]) \in Nat /\ Stake(p, r) \in Nat
      BY <1>2, <1>3, <2>1, <3>1 DEF Unread, Stake, Entries
    <3>6. Unread(p, q.mem[p]) + Stake(p, q) <= Unread(p, r.mem[p]) + Stake(p, r)
      BY <3>2, <3>3, <3>4, <3>5
    <3>7. MayRaise(p, r)
      BY <1>1, <2>1 DEF MayRaise
    <3> QED BY <3>6, <3>7
  <2>2. CASE p # r.pane
    <3>1. Unread(p, q.mem[p]) = Unread(p, r.mem[p]) /\ Stake(p, q) = 0 /\ Stake(p, r) = 0
      BY <1>10, <1>11, <2>0, <2>2 DEF Unread, Stake
    <3>2. r.mem[p] \in Entries
      BY <1>1, <2>0 DEF ProcStates
    <3>3. Unread(p, r.mem[p]) \in Nat
      BY <3>2, ClaimTypes
    <3> QED BY <1>1, <1>11, <2>2, <3>1, <3>3 DEF MayRaise
  <2> QED BY <2>1, <2>2
<1>16. Busy(q)
  BY <1>11 DEF Busy
<1> QED BY <1>1, <1>9, <1>11, <1>12, <1>14, <1>15, <1>16, QuietCredit

LEMMA NotesCredit ==
  ASSUME All, Shaped', NEW h \in Hooks, Notes(h)
  PROVE  Credited'
<1> PICK r : r = proc[h]
  OBVIOUS
<1>1. /\ h \in Procs /\ r \in ProcStates /\ r.pane \in Panes /\ r.at = "looks" /\ Busy(r)
      /\ r.kind = "denied"
  <2>1. h \in Procs /\ h # "poll" /\ r.at = "looks"
    BY WatchdogAssumption DEF Procs, Notes
  <2>2. r \in ProcStates /\ r.pane \in Panes /\ Busy(r)
    BY <2>1, InHand DEF Busy, All, Known
  <2>3. r.kind = "denied"
    BY <2>1 DEF All, Known, Shaped, Shape
  <2> QED BY <2>1, <2>2, <2>3
<1>2. UNCHANGED <<session, log, heir, raised, disk, killed, left>>
  BY DEF Notes, agents, history
<1>3. Entry(h) \in Entries /\ Entry(h) = r.mem[r.pane]
  BY <1>1 DEF Entry, ProcStates
<1>4. /\ Stake(r.pane, r) = 1 /\ \A p \in Panes : p # r.pane => Stake(p, r) = 0
      /\ MayRaise(r.pane, r) /\ ~Raises(r)
  BY <1>1 DEF Stake, MayRaise, Raises
<1>5. \A p \in Open : p \in Panes /\ Unread(p, r.mem[p]) \in Nat
  <2>1. \A p \in Panes : r.mem[p] \in Entries
    BY <1>1 DEF ProcStates
  <2> QED BY <2>1, ClaimTypes
<1>6. CASE Entry(h).escalated
  <2> PICK q : q = Proceeds(r)
    OBVIOUS
  <2>1. Becomes(h, q)
    BY <1>6 DEF Notes
  <2>2. q \in ProcStates
    BY <1>1, ProceedsTypes DEF All, Known, Shaped, Shape
  <2>3. /\ q.mem = r.mem /\ Busy(q) /\ ~Raises(q)
        /\ \A p \in Panes : Stake(p, q) = 0 /\ (MayRaise(p, q) => p # r.pane /\ r.found[p] # 0)
    BY <1>1, DoneStake
  <2>4. \A p \in Panes : Few(p, q)
    BY <1>1, <1>4, <2>3 DEF Few, All, Credited
  <2>5. \A p \in Open : /\ Unread(p, q.mem[p]) + Stake(p, q) <= Unread(p, r.mem[p]) + Stake(p, r)
                        /\ MayRaise(p, q) => MayRaise(p, r)
    BY <1>1, <1>4, <1>5, <2>3 DEF MayRaise
  <2> QED BY <1>1, <1>2, <2>1, <2>2, <2>3, <2>4, <2>5, QuietCredit
<1>7. CASE ~Entry(h).escalated
  <2>1. PICK n \in 1 .. Entry(h).denials + 1 :
          Becomes(h, [r EXCEPT !.at = IF n >= THRESHOLD THEN "escalates" ELSE "saves",
                               !.mem = Keeps(h, [Entry(h) EXCEPT !.denials = n])])
    BY <1>7 DEF Notes
  <2> DEFINE d == [Entry(h) EXCEPT !.denials = n]
             w == [r EXCEPT !.at = IF n >= THRESHOLD THEN "escalates" ELSE "saves", !.mem = Keeps(h, d)]
  <2> PICK q : q = w
    OBVIOUS
  <2>2. /\ d \in Entries /\ d.path = Entry(h).path /\ d.offset = Entry(h).offset /\ d.denials = n
        /\ n \in Nat /\ THRESHOLD \in Nat
    <3>1. Entry(h).denials \in Nat /\ THRESHOLD \in Nat
      BY <1>3, WatchdogAssumption DEF Entries
    <3>2. n \in Nat
      BY <3>1
    <3> QED BY <1>3, <3>1, <3>2 DEF Entries
  <2>3. Becomes(h, q)
    BY <2>1
  <2> HIDE DEF d
  <2>4. /\ Keeps(h, d) \in [Panes -> Entries]
        /\ \A p \in Panes : Keeps(h, d)[p] = IF p = r.pane THEN d ELSE r.mem[p]
    BY <1>1, <2>2, KeepsTypes DEF All, Known
  <2>5. /\ q \in ProcStates /\ q.mem = Keeps(h, d) /\ q.pane = r.pane /\ q.found = r.found
        /\ q.at = IF n >= THRESHOLD THEN "escalates" ELSE "saves"
    BY <1>1, <2>4 DEF ProcStates
  <2> HIDE DEF w
  <2>6. ASSUME NEW p \in Panes PROVE Few(p, q)
    <3>1. CASE p = r.pane
      BY <2>2, <2>4, <2>5, <3>1 DEF Few, Raises
    <3>2. CASE p # r.pane
      BY <1>1, <2>4, <2>5, <3>2, OthersFew
    <3> QED BY <3>1, <3>2
  <2>7. ASSUME NEW p \in Open
        PROVE  /\ Unread(p, q.mem[p]) + Stake(p, q) <= Unread(p, r.mem[p]) + Stake(p, r)
               /\ MayRaise(p, q) => MayRaise(p, r)
    <3>1. CASE p = r.pane
      <4>1. Unread(p, q.mem[p]) = Unread(p, r.mem[p])
        BY <1>3, <1>5, <2>2, <2>4, <2>5, <3>1 DEF Unread
      <4>2. Stake(p, q) \in {0, 1}
        BY DEF Stake
      <4> QED BY <1>4, <1>5, <3>1, <4>1, <4>2
    <3>2. CASE p # r.pane
      <4>1. Unread(p, q.mem[p]) = Unread(p, r.mem[p]) /\ Stake(p, q) = 0
        BY <1>5, <2>4, <2>5, <3>2 DEF Unread, Stake
      <4> QED BY <1>1, <1>4, <1>5, <2>5, <3>2, <4>1 DEF MayRaise
    <3> QED BY <3>1, <3>2
  <2>8. Busy(q)
    BY <2>5 DEF Busy
  <2> QED BY <1>1, <1>2, <2>3, <2>5, <2>6, <2>7, <2>8, QuietCredit
<1> QED BY <1>6, <1>7

\* A process that turns to another part of its work on the same pane.
LEMMA SameStake ==
  ASSUME All, Shaped', NEW x \in Procs, Busy(proc[x]), proc[x].at # "picks", proc[x].pane \in Panes,
         NEW q \in ProcStates, NEW d \in Entries, Becomes(x, q), Busy(q), q.at # "picks",
         q.pane = proc[x].pane, q.found = proc[x].found,
         d.path = proc[x].mem[proc[x].pane].path, d.offset = proc[x].mem[proc[x].pane].offset,
         \A p \in Panes : q.mem[p] = IF p = q.pane THEN d ELSE proc[x].mem[p],
         Few(q.pane, q), Raises(q) => Raises(proc[x]),
         q.at # "looks",
         UNCHANGED <<session, log, heir, raised, disk, killed>>, left'.sessions = left.sessions
  PROVE  Credited'
<1> PICK r : r = proc[x]
  OBVIOUS
<1>1. \A p \in Panes : Few(p, q)
  BY OthersFew
<1>2. ASSUME NEW p \in Open
      PROVE  /\ Unread(p, q.mem[p]) + Stake(p, q) <= Unread(p, r.mem[p]) + Stake(p, r)
             /\ MayRaise(p, q) => MayRaise(p, r)
  <2>1. p \in Panes /\ r \in ProcStates
    BY DEF Open, All, Known, Shaped, TypeOK
  <2>2. r.mem[p] \in Entries
    BY <2>1 DEF ProcStates
  <2>3. Unread(p, r.mem[p]) \in Nat
    BY <2>2, ClaimTypes
  <2>4. Unread(p, q.mem[p]) = Unread(p, r.mem[p])
    BY <2>1 DEF Unread
  <2>5. Stake(p, q) <= Stake(p, r)
    BY DEF Stake
  <2>6. Stake(p, q) \in {0, 1} /\ Stake(p, r) \in {0, 1}
    BY DEF Stake
  <2>7. MayRaise(p, q) => MayRaise(p, r)
    BY DEF MayRaise
  <2> QED BY <2>3, <2>4, <2>5, <2>6, <2>7
<1> QED BY <1>1, <1>2, QuietCredit

\* A process that is done with a pane, and raises nothing.
LEMMA DoneCredit ==
  ASSUME All, Shaped', NEW x \in Procs, Busy(proc[x]), proc[x].at # "picks", proc[x].pane \in Panes,
         NEW r \in ProcStates, NEW q \in ProcStates, NEW d \in Entries, Becomes(x, q),
         q = Proceeds(r) \/ q = Escalated(r),
         r.pane = proc[x].pane, r.found = proc[x].found,
         d.path = proc[x].mem[proc[x].pane].path, d.offset = proc[x].mem[proc[x].pane].offset,
         d.denials < THRESHOLD,
         \A p \in Panes : r.mem[p] = IF p = r.pane THEN d ELSE proc[x].mem[p],
         UNCHANGED <<session, log, heir, raised, disk, killed>>, left'.sessions = left.sessions
  PROVE  Credited'
<1>1. /\ q.mem = r.mem /\ Busy(q) /\ ~Raises(q)
      /\ \A p \in Panes : Stake(p, q) = 0 /\ (MayRaise(p, q) => p # r.pane /\ r.found[p] # 0)
  BY DoneStake
<1>2. ASSUME NEW p \in Panes PROVE Few(p, q)
  <2>1. CASE p = r.pane
    BY <1>1, <2>1 DEF Few
  <2>2. CASE p # r.pane
    BY <1>1, <2>2, OthersFew
  <2> QED BY <2>1, <2>2
<1>3. ASSUME NEW p \in Open
      PROVE  /\ Unread(p, q.mem[p]) + Stake(p, q) <= Unread(p, proc[x].mem[p]) + Stake(p, proc[x])
             /\ MayRaise(p, q) => MayRaise(p, proc[x])
  <2>1. p \in Panes /\ proc[x] \in ProcStates
    BY DEF Open, All, Known, Shaped, TypeOK
  <2>2. proc[x].mem[p] \in Entries
    BY <2>1 DEF ProcStates
  <2>3. Unread(p, proc[x].mem[p]) \in Nat
    BY <2>2, ClaimTypes
  <2>4. Unread(p, q.mem[p]) = Unread(p, proc[x].mem[p])
    BY <1>1, <2>1 DEF Unread
  <2>5. Stake(p, q) = 0 /\ Stake(p, proc[x]) \in {0, 1}
    BY <1>1, <2>1 DEF Stake
  <2>6. MayRaise(p, q) => MayRaise(p, proc[x])
    BY <1>1, <2>1 DEF MayRaise
  <2> QED BY <2>3, <2>4, <2>5, <2>6
<1> QED BY <1>1, <1>2, <1>3, QuietCredit

\* An entry as a process at work remembers it.
LEMMA Remembered ==
  ASSUME All, NEW x \in Procs, proc[x].pane \in Panes
  PROVE  /\ Entry(x) \in Entries /\ Entry(x) = proc[x].mem[proc[x].pane]
         /\ ~Raises(proc[x]) => Entry(x).denials < THRESHOLD
         /\ THRESHOLD \in Nat /\ 0 < THRESHOLD /\ None \in Footers
<1>1. Entry(x) \in Entries /\ Entry(x) = proc[x].mem[proc[x].pane]
  BY DEF Entry, ProcStates, All, Known, Shaped, TypeOK
<1>2. ~Raises(proc[x]) => Entry(x).denials < THRESHOLD
  BY <1>1 DEF All, Credited, Few
<1> QED BY <1>1, <1>2, StartTypes, WatchdogAssumption

LEMMA EscalatesCredit ==
  ASSUME All, Shaped', NEW x \in Procs, Escalates(x)
  PROVE  Credited'
<1> PICK r : r = proc[x]
  OBVIOUS
<1>1. /\ r \in ProcStates /\ r.pane \in Panes /\ r.at = "escalates" /\ Busy(r) /\ Raises(r)
      /\ r.kind = "poll" <=> x = "poll"
      /\ x = "poll" => r.found[r.pane] # 0
  BY InHand DEF Escalates, Busy, Raises, All, Known
<1>2. PICK m \in Footers :
        /\ Reads(r.pane, m)
        /\ Becomes(x, IF m = "manual"
                      THEN Escalated([r EXCEPT !.mem = Keeps(x, [Entry(x) EXCEPT !.denials = 0])])
                      ELSE [r EXCEPT !.at = "cycles", !.goal = "manual", !.before = m, !.left = MAX_CYCLES])
  BY DEF Escalates
<1>3. UNCHANGED <<session, log, heir, raised, disk, killed>> /\ left'.sessions = left.sessions
  BY <1>1, <1>2, ReadsTypes DEF Escalates, agents, All, Known
<1>4. Entry(x) \in Entries /\ Entry(x) = r.mem[r.pane] /\ 0 < THRESHOLD /\ THRESHOLD \in Nat
  BY <1>1, Remembered
<1>5. CASE m = "manual"
  <2> DEFINE d == [Entry(x) EXCEPT !.denials = 0]
             w == [r EXCEPT !.mem = Keeps(x, d)]
  <2>1. d \in Entries /\ d.path = Entry(x).path /\ d.offset = Entry(x).offset /\ d.denials = 0
    BY <1>4 DEF Entries
  <2>2. Becomes(x, Escalated(w))
    BY <1>2, <1>5
  <2> PICK e : e = d
    OBVIOUS
  <2> HIDE DEF d
  <2>3. /\ Keeps(x, e) \in [Panes -> Entries]
        /\ \A p \in Panes : Keeps(x, e)[p] = IF p = r.pane THEN e ELSE r.mem[p]
    BY <1>1, <2>1, KeepsTypes DEF All, Known
  <2>4. /\ w \in ProcStates /\ w.mem = Keeps(x, e) /\ w.pane = r.pane /\ w.found = r.found /\ w.kind = r.kind
    BY <1>1, <2>3 DEF ProcStates
  <2> PICK q : q = w
    OBVIOUS
  <2> HIDE DEF w
  <2>5. Escalated(q) \in ProcStates
    BY <1>1, <2>4, EscalatedTypes
  <2>6. e \in Entries /\ e.path = r.mem[r.pane].path /\ e.offset = r.mem[r.pane].offset /\ e.denials < THRESHOLD
    BY <1>4, <2>1
  <2>7. /\ q \in ProcStates /\ Becomes(x, Escalated(q)) /\ q.pane = r.pane /\ q.found = r.found
        /\ \A p \in Panes : q.mem[p] = IF p = q.pane THEN e ELSE r.mem[p]
    BY <2>2, <2>3, <2>4
  <2>8. PICK z : z = Escalated(q)
    OBVIOUS
  <2> QED BY <1>1, <1>3, <2>5, <2>6, <2>7, <2>8, DoneCredit
<1>6. CASE m # "manual"
  <2> DEFINE w == [r EXCEPT !.at = "cycles", !.goal = "manual", !.before = m, !.left = MAX_CYCLES]
  <2> PICK q : q = w
    OBVIOUS
  <2>1. /\ q \in ProcStates /\ q.at = "cycles" /\ q.goal = "manual" /\ q.mem = r.mem /\ q.pane = r.pane
        /\ q.found = r.found /\ Becomes(x, q)
    BY <1>1, <1>2, <1>6, WatchdogAssumption DEF ProcStates
  <2> HIDE DEF w
  <2>2. Raises(q) /\ Few(q.pane, q) /\ Busy(q)
    BY <2>1 DEF Raises, Few, Busy
  <2>3. r.mem[r.pane] \in Entries
    BY <1>4
  <2> QED BY <1>1, <1>3, <2>1, <2>2, <2>3, SameStake
<1> QED BY <1>5, <1>6

LEMMA SettlesCredit ==
  ASSUME All, Shaped', NEW x \in Procs, Settles(x)
  PROVE  Credited'
<1> PICK r : r = proc[x]
  OBVIOUS
<1> DEFINE w == [r EXCEPT !.at = "cycles", !.goal = "back", !.left = MAX_CYCLES,
                          !.before = IF Entry(x).before = None THEN "acceptEdits" ELSE Entry(x).before]
<1> PICK q : q = w
  OBVIOUS
<1>1. /\ r \in ProcStates /\ r.pane \in Panes /\ r.at = "settles" /\ Busy(r) /\ ~Raises(r)
      /\ r.kind = "poll" <=> x = "poll"
  BY InHand DEF Settles, Busy, Raises, All, Known
<1>2. UNCHANGED <<session, log, heir, raised, disk, killed, left>>
  BY DEF Settles, agents, history
<1>3. Entry(x) \in Entries /\ Entry(x) = r.mem[r.pane] /\ Entry(x).denials < THRESHOLD
  BY <1>1, Remembered
<1>4. q \in ProcStates /\ q.at = "cycles" /\ q.goal = "back" /\ q.mem = r.mem /\ q.pane = r.pane /\ q.found = r.found
  <2>1. Entry(x).before \in Footers
    BY <1>3 DEF Entries
  <2> QED BY <1>1, <2>1, StartTypes, WatchdogAssumption DEF ProcStates
<1>5. Becomes(x, q) \/ Becomes(x, Proceeds(r))
  BY DEF Settles
<1> HIDE DEF w
<1>6. CASE Becomes(x, q)
  <2>1. ~Raises(q) /\ Few(q.pane, q) /\ Busy(q)
    BY <1>3, <1>4 DEF Raises, Few, Busy
  <2> QED BY <1>1, <1>2, <1>3, <1>4, <1>6, <2>1, SameStake
<1>7. CASE Becomes(x, Proceeds(r))
  <2>1. Proceeds(r) \in ProcStates
    BY <1>1, ProceedsTypes
  <2> PICK z : z = Proceeds(r)
    OBVIOUS
  <2> QED BY <1>1, <1>2, <1>3, <1>7, <2>1, DoneCredit
<1> QED BY <1>5, <1>6, <1>7

\* A landing turns what was at stake into an escalation of the session that is in
\* the pane; of no other session, and not again in the life of this process.
LEMMA LandsCredit ==
  ASSUME All, Shaped', NEW x \in Procs, Busy(proc[x]), Raises(proc[x]), proc[x].pane \in Panes,
         NEW r \in ProcStates, NEW q \in ProcStates, NEW d \in Entries, Becomes(x, q),
         q = Escalated(r), r.pane = proc[x].pane, r.found = proc[x].found,
         d.path = proc[x].mem[proc[x].pane].path, d.offset = proc[x].mem[proc[x].pane].offset,
         d.denials < THRESHOLD,
         \A p \in Panes : r.mem[p] = IF p = r.pane THEN d ELSE proc[x].mem[p],
         UNCHANGED <<session, log, heir, disk, killed>>, left'.sessions = left.sessions,
         raised' = IF proc[x].pane \in Open THEN [raised EXCEPT ![session[proc[x].pane]] = @ + 1] ELSE raised
  PROVE  Credited'
<1> PICK o : o = proc[x]
  OBVIOUS
<1>1. /\ q.mem = r.mem /\ Busy(q) /\ ~Raises(q)
      /\ \A p \in Panes : Stake(p, q) = 0 /\ (MayRaise(p, q) => p # r.pane /\ r.found[p] # 0)
  BY DoneStake
<1>2. \A p : Waiting(p)' = Waiting(p)
  <2>1. q.at # "waits" /\ proc[x].at # "waits"
    BY <1>1 DEF Busy
  <2> QED BY <2>1, WaitingKept DEF All, Known
<1>3. \A p \in Panes : IsFiniteSet(Waiting(p))' /\ disk'[p].denials < THRESHOLD /\ Few(p, q)
  <2>1. ASSUME NEW p \in Panes PROVE Few(p, q)
    <3>1. CASE p = r.pane
      BY <1>1, <3>1 DEF Few
    <3>2. CASE p # r.pane
      BY <1>1, <3>2, OthersFew
    <3> QED BY <3>1, <3>2
  <2> QED BY <1>2, <2>1 DEF All, Credited
<1>4. \A p \in Open : raised'[session[p]] = raised[session[p]] + (IF p = r.pane THEN 1 ELSE 0)
  <2>1. \A p \in Open : session[p] \in Sessions /\ raised[session[p]] \in Nat
    BY ClaimTypes
  <2>2. \A p \in Open : p # r.pane /\ r.pane \in Open => session[p] # session[r.pane]
    BY DEF All, Credited
  <2> QED BY <2>1, <2>2 DEF All, Known, Shaped, TypeOK
<1>5. \A s \in Sessions : raised'[s] = raised[s] \/ \E p \in Open : s = session[p]
  BY DEF All, Known, Shaped, TypeOK
<1>6. ASSUME NEW p \in Open, session[p] \notin heir PROVE Credit(p, q)'
  <2> PICK e : e = disk[p]
    OBVIOUS
  <2>0. p \in Panes /\ o.mem[p] \in Entries /\ q.mem[p] \in Entries /\ e \in Entries
    BY DEF Open, All, Known, Shaped, TypeOK, ProcStates
  <2>1. Fair(p, o.mem[p], Stake(p, o), 0) /\ Fair(p, e, 0, IF MayRaise(p, o) THEN 0 ELSE 1)
    BY <1>6 DEF All, Credited, Credit
  <2>2. /\ Unread(p, q.mem[p])' = Unread(p, o.mem[p])
        /\ Unread(p, e)' = Unread(p, e)
    BY <1>1, <2>0 DEF Unread
  <2>3. /\ Stake(p, q)' = 0
        /\ Stake(p, o) = IF p = r.pane THEN 1 ELSE 0
        /\ p = r.pane => MayRaise(p, o) /\ ~MayRaise(p, q)
        /\ p # r.pane /\ MayRaise(p, q) => MayRaise(p, o)
    BY <1>1, <2>0 DEF Stake, MayRaise, Raises
  <2>4. /\ raised[session[p]] \in Nat /\ log[session[p]] \in Nat /\ killed \in Nat
        /\ Cardinality(Waiting(p)) \in Nat
        /\ Unread(p, o.mem[p]) \in Nat /\ Unread(p, e) \in Nat
    BY <2>0, ClaimTypes
  <2>5. Fair(p, q.mem[p], 0, 0)'
    BY <1>2, <1>4, <2>1, <2>2, <2>3, <2>4 DEF Fair
  <2>6. ASSUME NEW k \in {0, 1}, k = IF MayRaise(p, q) THEN 0 ELSE 1 PROVE Fair(p, e, 0, k)'
    <3>1. CASE p = r.pane
      BY <1>2, <1>4, <2>1, <2>2, <2>3, <2>4, <2>6, <3>1 DEF Fair
    <3>2. CASE p # r.pane
      BY <1>2, <1>4, <2>1, <2>2, <2>3, <2>4, <2>6, <3>2 DEF Fair
    <3> QED BY <3>1, <3>2
  <2>7. (IF MayRaise(p, q) THEN 0 ELSE 1) \in {0, 1}
    OBVIOUS
  <2>8. Fair(p, e, 0, IF MayRaise(p, q) THEN 0 ELSE 1)'
    BY <2>6, <2>7 DEF Fair, MayRaise, Raises
  <2> QED BY <2>3, <2>5, <2>8 DEF Credit, Fair, Unread
<1>7. \A s \in Sessions \ heir : raised'[s] <= 2 * log[s] + killed'
  <2> SUFFICES ASSUME NEW s \in Sessions \ heir PROVE raised'[s] <= 2 * log[s] + killed
    OBVIOUS
  <2>1. CASE raised'[s] = raised[s]
    BY <2>1 DEF All, Credited
  <2>2. CASE \E p \in Open : s = session[p]
    <3> PICK p \in Open : s = session[p]
      BY <2>2
    <3>1. Fair(p, q.mem[p], Stake(p, q), 0)'
      BY <1>6 DEF Credit
    <3>2. /\ Stake(p, q)' = 0 /\ raised'[s] \in Nat /\ log[s] \in Nat /\ killed \in Nat
          /\ q.mem[p] \in Entries
      BY <1>1 DEF Open, Stake, Raises, All, Known, Shaped, TypeOK, ProcStates
    <3>3. Cardinality(Waiting(p))' \in Nat
      BY <1>2, ClaimTypes
    <3>4. Unread(p, q.mem[p])' \in Nat
      BY <3>2 DEF Unread, Entries
    <3> QED BY <3>1, <3>2, <3>3, <3>4 DEF Fair
  <2> QED BY <1>5, <2>1, <2>2
<1> QED BY <1>1, <1>3, <1>5, <1>6, <1>7, WorkCredit

LEMMA CyclesCredit ==
  ASSUME All, Shaped', NEW x \in Procs, Cycles(x)
  PROVE  Credited'
<1> PICK r : r = proc[x]
  OBVIOUS
<1>1. /\ r \in ProcStates /\ r.pane \in Panes /\ r.at = "cycles" /\ Busy(r)
      /\ r.kind = "poll" <=> x = "poll"
      /\ x = "poll" => r.found[r.pane] # 0
  BY InHand DEF Cycles, Busy, All, Known
<1>2. UNCHANGED <<session, log, disk, heir, killed>>
  BY CyclesSplit DEF All, Known
<1> DEFINE Over(m) == \E d, q : Ends(x, m, d, q) /\ Becomes(x, q)
<1> HIDE DEF Over
<1>3. PICK m \in Footers : Reads(r.pane, m) /\ (Presses(x, m) \/ Over(m))
  BY CyclesSplit DEF Over, All, Known
<1>4. left'.sessions = left.sessions
  BY <1>1, <1>3, ReadsTypes DEF All, Known
<1>5. /\ Entry(x) \in Entries /\ Entry(x) = r.mem[r.pane] /\ 0 < THRESHOLD /\ None \in Footers
      /\ ~Raises(r) => Entry(x).denials < THRESHOLD
  BY <1>1, Remembered
<1>6. CASE Presses(x, m)
  <2> DEFINE w == [r EXCEPT !.left = @ - 1]
  <2> PICK q : q = w
    OBVIOUS
  <2>1. /\ q \in ProcStates /\ q.at = "cycles" /\ q.goal = r.goal /\ q.mem = r.mem /\ q.pane = r.pane
        /\ q.found = r.found /\ Becomes(x, q) /\ raised' = raised
    BY <1>1, <1>6 DEF ProcStates, Presses
  <2> HIDE DEF w
  <2>2. Raises(q) <=> Raises(r)
    BY <1>1, <2>1 DEF Raises
  <2>3. Few(q.pane, q) /\ Busy(q)
    BY <1>5, <2>1, <2>2 DEF Few, Busy
  <2> QED BY <1>1, <1>2, <1>4, <1>5, <2>1, <2>2, <2>3, SameStake
<1>7. CASE Over(m)
  <2>1. PICK d, z : Ends(x, m, d, z) /\ Becomes(x, z)
    BY <1>7 DEF Over
  <2> DEFINE w == [Dropped(x) EXCEPT !.mem = Keeps(x, d)]
  <2> PICK q : q = w
    OBVIOUS
  <2>2. r.before \in Footers
    BY <1>1 DEF ProcStates
  <2>3. d \in Entries /\ d.path = Entry(x).path /\ d.offset = Entry(x).offset /\ d.denials < THRESHOLD
    <3>1. CASE d = [Entry(x) EXCEPT !.denials = 0, !.escalated = TRUE, !.before = r.before]
      BY <1>5, <2>2, <3>1 DEF Entries
    <3>2. CASE d = [Entry(x) EXCEPT !.denials = 0]
      BY <1>5, <3>2 DEF Entries
    <3>3. CASE d = [Entry(x) EXCEPT !.escalated = FALSE, !.before = None] /\ r.goal = "back"
      <4>1. ~Raises(r)
        BY <1>1, <3>3 DEF Raises
      <4>2. d.denials = Entry(x).denials
        BY <1>5, <3>3 DEF Entries
      <4>3. d \in Entries /\ d.path = Entry(x).path /\ d.offset = Entry(x).offset
        BY <1>5, <3>3 DEF Entries
      <4> QED BY <1>5, <4>1, <4>2, <4>3
    <3> QED BY <2>1, <3>1, <3>2, <3>3 DEF Ends
  <2>4. /\ Keeps(x, d) \in [Panes -> Entries]
        /\ \A p \in Panes : Keeps(x, d)[p] = IF p = r.pane THEN d ELSE r.mem[p]
    BY <1>1, <2>3, KeepsTypes DEF All, Known
  <2>5. /\ q \in ProcStates /\ q.mem = Keeps(x, d) /\ q.pane = r.pane /\ q.found = r.found /\ q.kind = r.kind
    BY <1>1, <1>5, <2>4 DEF Dropped, ProcStates
  <2>6. \/ /\ z = Escalated(q) /\ Raises(r)
           /\ raised' = IF r.pane \in Open THEN [raised EXCEPT ![session[r.pane]] = @ + 1] ELSE raised
        \/ (z = Escalated(q) \/ z = Proceeds(q)) /\ raised' = raised
    BY <1>1, <2>1 DEF Ends, Raises
  <2> HIDE DEF w
  <2>7. z \in ProcStates
    BY <1>1, <2>5, <2>6, EscalatedTypes, ProceedsTypes
  <2>8. /\ d.path = r.mem[r.pane].path /\ d.offset = r.mem[r.pane].offset
        /\ \A p \in Panes : q.mem[p] = IF p = q.pane THEN d ELSE r.mem[p]
    BY <1>5, <2>3, <2>4, <2>5
  <2>9. CASE /\ z = Escalated(q) /\ Raises(r)
             /\ raised' = IF r.pane \in Open THEN [raised EXCEPT ![session[r.pane]] = @ + 1] ELSE raised
    BY <1>1, <1>2, <1>4, <2>1, <2>3, <2>5, <2>7, <2>8, <2>9, LandsCredit
  <2>10. CASE (z = Escalated(q) \/ z = Proceeds(q)) /\ raised' = raised
    BY <1>1, <1>2, <1>4, <2>1, <2>3, <2>5, <2>7, <2>8, <2>10, DoneCredit
  <2> QED BY <2>6, <2>9, <2>10
<1> QED BY <1>3, <1>6, <1>7

\* A hook that gets the lock has its claim at stake; the loop, and the other hooks,
\* had none.
LEMMA HookLoadsCredit ==
  ASSUME All, Shaped', NEW h \in Hooks, HookLoads(h)
  PROVE  Credited'
<1> PICK o : o = proc[h]
  OBVIOUS
<1> DEFINE w == [o EXCEPT !.at = IF o.kind \in {"stop", "tool"} THEN "settles" ELSE "looks", !.mem = disk]
<1> PICK q : q = w
  OBVIOUS
<1>1. /\ h \in Procs /\ h # "poll" /\ o \in ProcStates /\ o.at = "waits" /\ o.kind # "blocked"
      /\ o.kind \in {"stop", "tool", "denied", "blocked"}
  BY WatchdogAssumption DEF HookLoads, Reacts, Procs, All, Known, Shaped, TypeOK, Shape
<1>2. /\ Quiet /\ Becomes(h, q) /\ UNCHANGED <<session, log, heir, raised, disk, killed, left>>
  BY DEF HookLoads, Free, agents, history
<1>3. /\ q \in ProcStates /\ q.mem = disk /\ q.found = o.found /\ q.pane = o.pane /\ q.kind = o.kind
      /\ q.at = IF o.kind = "denied" THEN "looks" ELSE "settles"
  BY <1>1 DEF ProcStates, All, Known, Shaped, TypeOK
<1> HIDE DEF w
<1>4. \A p \in Panes :
        /\ IsFiniteSet(Waiting(p))' /\ Cardinality(Waiting(p))' \in Nat
        /\ Cardinality(Waiting(p))' + Stake(p, q) = Cardinality(Waiting(p))
  <2> SUFFICES ASSUME NEW p \in Panes
               PROVE  /\ IsFiniteSet(Waiting(p))' /\ Cardinality(Waiting(p))' \in Nat
                      /\ Cardinality(Waiting(p))' + Stake(p, q) = Cardinality(Waiting(p))
    BY Zenon
  <2>1. IsFiniteSet(Waiting(p)) /\ Cardinality(Waiting(p)) \in Nat
    BY FS_CardinalityType DEF All, Credited
  <2>2. \A x \in Procs : proc'[x] = IF x = h THEN q ELSE proc[x]
    BY <1>2 DEF Becomes, All, Known, Shaped, TypeOK
  <2>3. Hooks \subseteq Procs /\ q.at # "waits"
    BY <1>3 DEF Procs
  <2>4. CASE o.kind = "denied" /\ o.pane = p
    <3>1. Waiting(p)' = Waiting(p) \ {h} /\ h \in Waiting(p)
      BY <1>1, <2>2, <2>3, <2>4 DEF Waiting
    <3>2. IsFiniteSet(Waiting(p))' /\ Cardinality(Waiting(p))' = Cardinality(Waiting(p)) - 1
      BY <2>1, <3>1, FS_RemoveElement
    <3>3. Cardinality(Waiting(p))' \in Nat
      BY <3>2, FS_CardinalityType
    <3>4. Stake(p, q) = 1
      BY <1>3, <2>4 DEF Stake
    <3> QED BY <2>1, <3>2, <3>3, <3>4
  <2>5. CASE ~(o.kind = "denied" /\ o.pane = p)
    <3>1. Waiting(p)' = Waiting(p)
      BY <1>1, <2>2, <2>3, <2>5 DEF Waiting
    <3>2. Stake(p, q) = 0
      BY <1>3, <2>5 DEF Stake, Raises
    <3> QED BY <2>1, <3>1, <3>2
  <2> QED BY <2>4, <2>5
<1>5. \A p \in Panes : disk'[p].denials < THRESHOLD /\ Few(p, q)
  BY <1>2, <1>3 DEF All, Credited, Few
<1>6. ASSUME NEW p \in Open, session[p] \notin heir PROVE Credit(p, q)'
  <2> PICK e : e = disk[p]
    OBVIOUS
  <2>1. p \in Panes /\ e \in Entries /\ q.mem[p] = e
    BY <1>3 DEF Open, All, Known, Shaped, TypeOK
  <2>2. Fair(p, e, 0, 0) /\ Unread(p, e)' = Unread(p, e)
    BY <1>2, <1>6 DEF All, Credited, Unread
  <2>3. Stake(p, q)' = Stake(p, q) /\ Stake(p, q) \in {0, 1}
    BY DEF Stake, Raises
  <2>4. Fair(p, e, Stake(p, q), 0)' /\ Fair(p, e, 0, 0)' /\ Fair(p, e, 0, 1)'
    BY <1>2, <1>4, <2>1, <2>2, <2>3, ClaimTypes DEF Fair
  <2>5. Fair(p, e, 0, IF MayRaise(p, q) THEN 0 ELSE 1)'
    BY <2>4 DEF Fair, MayRaise, Raises
  <2>6. disk'[p] = e
    BY <1>2
  <2> QED BY <2>1, <2>4, <2>5, <2>6 DEF Credit, Fair, Unread
<1>7. Busy(q)
  BY <1>3 DEF Busy
<1>8. \A s \in Sessions \ heir : raised'[s] <= 2 * log[s] + killed'
  BY <1>2 DEF All, Credited
<1> QED BY <1>1, <1>2, <1>4, <1>5, <1>6, <1>7, <1>8, WorkCredit

LEMMA PollLoadsCredit ==
  ASSUME All, Shaped', PollLoads
  PROVE  Credited'
<1> DEFINE w == [Off EXCEPT !.at = "picks", !.kind = "poll", !.found = session,
                            !.seen = Open, !.idlers = {o \in Open : idle[o]}, !.mem = disk]
<1> PICK q : q = w
  OBVIOUS
<1>1. /\ Quiet /\ Becomes("poll", q) /\ UNCHANGED <<session, log, heir, raised, disk, killed, left>>
      /\ proc["poll"].at = "off" /\ "poll" \in Procs
  BY DEF PollLoads, Free, agents, history, Procs
<1>2. q.mem = disk /\ q.at = "picks"
  BY DEF Off
<1> HIDE DEF w
<1>3. \A p : Waiting(p)' = Waiting(p)
  BY <1>1, <1>2, WaitingKept DEF All, Known
<1>4. \A p \in Panes : IsFiniteSet(Waiting(p))' /\ disk'[p].denials < THRESHOLD /\ Few(p, q)
  BY <1>1, <1>2, <1>3 DEF All, Credited, Few
<1>5. ASSUME NEW p \in Open, session[p] \notin heir PROVE Credit(p, q)'
  <2> PICK e : e = disk[p]
    OBVIOUS
  <2>1. e \in Entries /\ q.mem[p] = e
    BY <1>2 DEF Open, All, Known, Shaped, TypeOK
  <2>2. Fair(p, e, 0, 0) /\ Unread(p, e)' = Unread(p, e)
    BY <1>1, <1>5 DEF All, Credited, Unread
  <2>3. Stake(p, q)' = 0
    BY <1>2 DEF Stake, Raises
  <2>4. Fair(p, e, 0, 0)' /\ Fair(p, e, 0, 1)'
    BY <1>1, <1>3, <2>1, <2>2, ClaimTypes DEF Fair
  <2>5. Fair(p, e, 0, IF MayRaise(p, q) THEN 0 ELSE 1)' /\ Fair(p, e, Stake(p, q), 0)'
    BY <2>3, <2>4 DEF Fair, MayRaise, Raises
  <2>6. disk'[p] = e
    BY <1>1
  <2> QED BY <2>1, <2>5, <2>6 DEF Credit, Fair, Unread
<1>6. Busy(q)
  BY <1>2 DEF Busy
<1>7. \A s \in Sessions \ heir : raised'[s] <= 2 * log[s] + killed'
  BY <1>1 DEF All, Credited
<1> QED BY <1>1, <1>4, <1>5, <1>6, <1>7, WorkCredit

\* A process that saves: its view of the file comes into force.
LEMMA SavesCredit ==
  ASSUME All, Shaped', NEW x \in Procs, Busy(proc[x]), ~Raises(proc[x]), Becomes(x, Off),
         UNCHANGED <<session, log, heir, raised, killed, left>>,
         \A p \in Panes : disk'[p] = proc[x].mem[p] \/ disk'[p] = Blank
  PROVE  Credited'
<1>1. \A p : Waiting(p)' = Waiting(p)
  BY OffCredit, WaitingKept DEF Busy, All, Known
<1>2. ASSUME NEW p \in Panes PROVE IsFiniteSet(Waiting(p))' /\ disk'[p].denials < THRESHOLD /\ Few(p, Off)
  <2>1. proc[x].mem[p].denials < THRESHOLD
    BY DEF All, Credited, Few
  <2> QED BY <1>1, <2>1, OffCredit DEF All, Credited
<1>3. ASSUME NEW p \in Open, session[p] \notin heir PROVE Fair(p, disk[p], 0, 0)'
  <2> PICK r : r = proc[x]
    OBVIOUS
  <2>0. p \in Panes /\ r.mem[p] \in Entries
    BY DEF Open, All, Known, Shaped, TypeOK, ProcStates
  <2>1. Fair(p, r.mem[p], Stake(p, r), 0) /\ Stake(p, r) \in {0, 1}
    BY <1>3 DEF All, Credited, Credit, Stake
  <2>2. Unread(p, disk[p])' <= Unread(p, r.mem[p]) /\ Unread(p, disk[p])' \in Nat
    <3>1. CASE disk'[p] = r.mem[p]
      <4>1. Unread(p, disk[p])' = Unread(p, r.mem[p])
        BY <3>1 DEF Unread
      <4> QED BY <2>0, <4>1, ClaimTypes
    <3>2. CASE disk'[p] = Blank
      <4>1. Unread(p, disk[p])' = 0
        BY <3>2 DEF Unread, Blank, Open
      <4> QED BY <2>0, <4>1, ClaimTypes
    <3> QED BY <2>0, <3>1, <3>2
  <2> QED BY <1>1, <2>0, <2>1, <2>2, ClaimTypes DEF Fair
<1>4. \A s \in Sessions \ heir : raised'[s] <= 2 * log[s] + killed'
  BY DEF All, Credited
<1> HIDE DEF Off
<1> QED BY <1>2, <1>3, <1>4, OffCredit, WorkCredit

LEMMA HookCredit ==
  ASSUME All, Shaped', NEW h \in Hooks, HookReturns(h) \/ HookSaves(h)
  PROVE  Credited'
<1>0. h \in Procs /\ proc[h] \in ProcStates
  BY DEF Procs, All, Known, Shaped, TypeOK
<1>1. CASE HookReturns(h)
  <2>1. /\ ~Busy(proc[h]) /\ proc[h].kind # "denied" /\ Becomes(h, Off)
        /\ UNCHANGED <<session, log, heir, raised, disk, killed, left>>
    BY <1>1 DEF HookReturns, Reacts, agents, history, Busy
  <2>2. \A x \in Procs : proc'[x] = IF x = h THEN Off ELSE proc[x]
    BY <2>1 DEF Becomes, All, Known, Shaped, TypeOK
  <2>3. \A x \in Procs : \/ proc'[x] = proc[x]
                         \/ ~Busy(proc[x]) /\ ~Busy(proc'[x]) /\ proc'[x].mem = Off.mem
    BY <2>1, <2>2, OffCredit
  <2>4. \A p : Waiting(p)' = Waiting(p)
    BY <1>0, <2>1, OffCredit, WaitingKept DEF All, Known
  <2>5. \A p \in Panes : IsFiniteSet(Waiting(p)) /\ Cardinality(Waiting(p)) \in Nat
    BY FS_CardinalityType DEF All, Credited
  <2>6. \A p \in Open' : p \in Panes /\ log[session[p]] \in Nat
    BY <2>1 DEF Open, All, Known, Shaped, TypeOK
  <2>7. \A s \in Sessions : log'[s] >= log[s]
    BY <2>1 DEF All, Known, Shaped, TypeOK
  <2> HIDE DEF Off
  <2> QED BY <2>1, <2>3, <2>4, <2>5, <2>6, <2>7, KeepsCredit
<1>2. CASE HookSaves(h)
  <2>1. /\ proc[h].at = "saves" /\ Becomes(h, Off) /\ disk' = proc[h].mem
        /\ UNCHANGED <<session, log, heir, raised, killed, left>>
    BY <1>2 DEF HookSaves, agents, history
  <2>2. Busy(proc[h]) /\ ~Raises(proc[h])
    BY <2>1 DEF Busy, Raises
  <2> QED BY <1>0, <2>1, <2>2, SavesCredit
<1> QED BY <1>1, <1>2

LEMMA PollCredit ==
  ASSUME All, Shaped', PollSaves \/ \E p \in Panes : PollPicks(p)
  PROVE  Credited'
<1>0. "poll" \in Procs /\ proc["poll"] \in ProcStates
  BY DEF Procs, All, Known, Shaped, TypeOK
<1>1. CASE PollSaves
  <2>1. /\ proc["poll"].at = "picks" /\ Becomes("poll", Off)
        /\ UNCHANGED <<session, log, heir, raised, killed, left>>
        /\ disk' = [p \in Panes |-> IF p \in proc["poll"].seen \/ proc["poll"].mem[p].escalated
                                    THEN proc["poll"].mem[p] ELSE Blank]
    BY <1>1 DEF PollSaves, agents, history
  <2>2. Busy(proc["poll"]) /\ ~Raises(proc["poll"])
    BY <2>1 DEF Busy, Raises
  <2>3. \A p \in Panes : disk'[p] = proc["poll"].mem[p] \/ disk'[p] = Blank
    BY <2>1
  <2> QED BY <1>0, <2>1, <2>2, <2>3, SavesCredit
<1>2. CASE \E p \in Panes : PollPicks(p)
  <2> PICK o \in Panes : PollPicks(o)
    BY <1>2
  <2> PICK r : r = proc["poll"]
    OBVIOUS
  <2> DEFINE w == [r EXCEPT !.at = "looks", !.pane = o]
  <2> PICK q : q = w
    OBVIOUS
  <2>1. /\ r.at = "picks" /\ r.found[o] # 0 /\ Becomes("poll", q)
        /\ UNCHANGED <<session, log, heir, raised, disk, killed, left>>
    BY DEF PollPicks, agents, history
  <2>2. r \in ProcStates /\ r.kind = "poll"
    BY <1>0, <2>1 DEF All, Known, Shaped, Shape
  <2>3. /\ q \in ProcStates /\ q.at = "looks" /\ q.mem = r.mem /\ q.kind = "poll" /\ q.pane = o
        /\ q.found = r.found /\ Busy(q) /\ Busy(r) /\ ~Raises(r)
    BY <2>1, <2>2 DEF ProcStates, Busy, Raises
  <2> HIDE DEF w
  <2>4. \A p \in Panes : Few(p, q)
    BY <1>0, <2>3 DEF All, Credited, Few
  <2>5. ASSUME NEW p \in Open
        PROVE  /\ Unread(p, q.mem[p]) + Stake(p, q) <= Unread(p, r.mem[p]) + Stake(p, r)
               /\ MayRaise(p, q) => MayRaise(p, r)
    <3>1. r.mem[p] \in Entries
      BY <2>2 DEF Open, ProcStates
    <3>2. Unread(p, r.mem[p]) \in Nat
      BY <3>1, ClaimTypes
    <3>3. Stake(p, q) = 0 /\ Stake(p, r) = 0
      BY <2>1, <2>3 DEF Stake, Raises
    <3>4. MayRaise(p, q) => MayRaise(p, r)
      BY <2>1, <2>3 DEF MayRaise
    <3> QED BY <2>3, <3>2, <3>3, <3>4
  <2> QED BY <1>0, <2>1, <2>3, <2>4, <2>5, QuietCredit
<1> QED BY <1>1, <1>2

LEMMA InitCredit == Init => Credited
<1> SUFFICES ASSUME Init PROVE Credited
  OBVIOUS
<1>0. Shaped
  BY InitShaped
<1>1. /\ \A x \in Procs : proc[x] = Off /\ ~Busy(proc[x])
      /\ \A p \in Panes : disk[p] = Blank
      /\ \A s \in Sessions : raised[s] = 0 /\ log[s] = 0
      /\ killed = 0
  BY OffCredit DEF Init
<1>2. \A p, q \in Open : p = q
  <2>1. PICK b \in Bounds : session = [p \in Panes |-> IF p = First THEN b.sessions ELSE 0]
    BY DEF Init
  <2> QED BY <2>1 DEF Open
<1>3. \A p \in Panes : Waiting(p) = {} /\ Cardinality(Waiting(p)) = 0 /\ IsFiniteSet(Waiting(p))
  <2>1. \A p \in Panes : Waiting(p) = {}
    BY <1>1, OffCredit DEF Waiting, Procs
  <2> QED BY <2>1, FS_EmptySet
<1>4. ASSUME NEW p \in Open PROVE Fair(p, disk[p], 0, 0)
  <2>1. p \in Panes /\ session[p] \in Sessions
    BY <1>0 DEF Open, Shaped, TypeOK
  <2>2. Unread(p, disk[p]) = 0
    BY <1>1, <2>1 DEF Unread, Blank, Open
  <2> QED BY <1>1, <1>3, <2>1, <2>2 DEF Fair
<1>5. \A p \in Panes : disk[p].denials < THRESHOLD /\ \A x \in Procs : Few(p, proc[x])
  BY <1>1, OffCredit
<1> QED BY <1>1, <1>2, <1>3, <1>4, <1>5 DEF Credited

LEMMA NextCredit ==
  ASSUME All, Shaped', [Next]_vars
  PROVE  Credited'
<1>1. CASE \E p \in Panes : Agents(p)
  BY <1>1, AgentsCredit
<1>2. CASE TimePasses \/ StateDeleted \/ \E x \in Procs : Dies(x)
  BY <1>2, FaultsCredit
<1>3. CASE PollLoads \/ Poll
  <2>0. "poll" \in Procs
    BY DEF Procs
  <2>1. CASE PollLoads \/ PollSaves \/ \E p \in Panes : PollPicks(p)
    BY <2>1, PollLoadsCredit, PollCredit
  <2>2. CASE Scan
    BY <2>2, ScanCredit
  <2>3. CASE Acts("poll")
    BY <2>0, <2>3, EscalatesCredit, SettlesCredit, CyclesCredit DEF Acts
  <2> QED BY <1>3, <2>1, <2>2, <2>3 DEF Poll
<1>4. CASE \E h \in Hooks : Hook(h)
  <2> PICK h \in Hooks : Hook(h)
    BY <1>4
  <2>1. h \in Procs
    BY DEF Procs
  <2> QED BY <2>1, HookLoadsCredit, HookCredit, NotesCredit, EscalatesCredit, SettlesCredit, CyclesCredit
          DEF Hook, Acts
<1>5. CASE UNCHANGED vars
  <2>1. UNCHANGED <<session, log, raised, killed, heir, left, disk, proc>>
    BY <1>5 DEF vars, agents, history
  <2> QED BY <2>1 DEF All, Credited, Credit, Fair, Few, Raises, Unread, Waiting, Stake, MayRaise, Quiet, Open, Busy
<1> QED BY <1>1, <1>2, <1>3, <1>4, <1>5 DEF Next

\* A denial escalates its session twice at most, once for the hook and once for the
\* line in the transcript, however the loop and the hooks took their turns on the
\* file; a process killed before it has saved costs one escalation more.
THEOREM DenialsSpent == Spec => []DenialsAreSpent
<1>1. Init => All
  BY InitShaped, InitReasons, InitAccount, InitCredit DEF All, Known
<1>2. All /\ [Next]_vars => All'
  <2>1. ASSUME All, [Next]_vars PROVE All'
    <3>1. Known'
      BY <2>1, NextReasons DEF All
    <3>2. Accounted' /\ Credited'
      BY <2>1, <3>1, NextAccount, NextCredit DEF All, Known
    <3> QED BY <3>1, <3>2 DEF All
  <2> QED BY <2>1
<1>3. All => DenialsAreSpent
  BY DEF All, Credited, DenialsAreSpent
<1> QED BY <1>1, <1>2, <1>3, PTL DEF Spec
=============================================================================
