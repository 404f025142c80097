------------------------------ MODULE Substrated ------------------------------
(***************************************************************************)
(* The read-path daemon of the fleet (substrated/index.mjs, herdr mode): a *)
(* cached roster of panes, rebuilt from an agent.list request every poll   *)
(* and kept fresh in between by the status changes pushed over one         *)
(* subscription socket.                                                    *)
(*                                                                         *)
(* The substrate (herdr) owns the panes and their status; it is external   *)
(* and modelled by what the daemon uses of it.  Requests take time and may *)
(* overlap, the subscription is active only once the substrate handled it, *)
(* and a socket delivers what was pushed over it in order until it drops.  *)
(* A row's wait_type travels with its status and is left out; `seq' and    *)
(* `by' are history: which status change a row shows, and who brought it.  *)
(***************************************************************************)
EXTENDS Naturals, Sequences

CONSTANTS
  Panes,       \* pane handles; the substrate never hands one out twice
  Polls,       \* how many agent.list requests can be in flight (a bound)
  MaxChanges,  \* spawns, exits and status changes of a run (a bound)
  MaxFaults,   \* socket drops and failed requests of a run (a bound)
  MaxTimers    \* reconnect timers pending at once (a bound)

ASSUME PanesAssumption == "" \notin Panes
ASSUME BoundsAssumption ==
  MaxChanges \in Nat /\ MaxFaults \in Nat /\ MaxTimers \in Nat

VARIABLES
  status, clock,          \* of each pane: its status, and how often it changed
  cache,                  \* the daemon's rows, by pane
  polls,                  \* agent.list requests in flight
  sock,                   \* subSock and the other end of it
  subHealthy, subPanesKey, herdrConnected,
  timers,                 \* pending reconnect timeouts
  changes, faults

substrate == <<status, clock, changes>>
push == <<sock, subHealthy, subPanesKey>>
vars == <<substrate, cache, polls, push, herdrConnected, timers, faults>>

-----------------------------------------------------------------------------
\* "idle" stands for idle and done, which are shown alike.
AgentStatus == {"working", "blocked", "idle", "unknown"}
Live == {p \in Panes : status[p] \in AgentStatus}

\* WMAP: what a reader is shown for a status; "unknown" has no entry.
WMAP == [working |-> "0", blocked |-> "1", idle |-> "2"]
Known(s) == s \in DOMAIN WMAP
Shown(s) == IF Known(s) THEN WMAP[s] ELSE ""

NoSock == [st |-> "none", panes |-> {}, inbox |-> <<>>, told |-> {}]
NoAgents == [p \in {} |-> [status |-> "", seq |-> 0]]
NoPoll == [st |-> "idle", agents |-> NoAgents]
Ack == [type |-> "started", pane |-> "", status |-> "", seq |-> 0]
Changed(p) == [type |-> "changed", pane |-> p, status |-> status'[p], seq |-> clock'[p]]

-----------------------------------------------------------------------------
(* The substrate.                                                          *)

\* A status change is pushed to a subscription that covers the pane.
Notify(p) ==
  sock' = IF sock.st = "active" /\ p \in sock.panes
          THEN [sock EXCEPT !.inbox = Append(@, Changed(p)), !.told = @ \cup {p}]
          ELSE sock

SetStatus(p, s) ==
  /\ changes < MaxChanges
  /\ changes' = changes + 1
  /\ status' = [status EXCEPT ![p] = s]
  /\ clock' = [clock EXCEPT ![p] = @ + 1]
  /\ UNCHANGED <<cache, polls, subHealthy, subPanesKey, herdrConnected, timers, faults>>

PaneSpawns(p) ==
  /\ status[p] = "none"
  /\ \E s \in AgentStatus : SetStatus(p, s)
  /\ UNCHANGED sock

PaneExits(p) ==
  /\ p \in Live
  /\ SetStatus(p, "gone")
  /\ UNCHANGED sock

StatusChanges(p) ==
  /\ p \in Live
  /\ \E s \in AgentStatus \ {status[p]} : SetStatus(p, s)
  /\ Notify(p)

\* agent.list is answered: the roster and statuses of this moment.
AnswerPoll(i) ==
  /\ polls[i].st = "sent"
  /\ polls' = [polls EXCEPT ![i] = [st |-> "answered", agents |->
               [p \in Live |-> [status |-> status[p], seq |-> clock[p]]]]]
  /\ UNCHANGED <<substrate, cache, push, herdrConnected, timers, faults>>

\* events.subscribe is handled: from here on changes are pushed.
AckSubscription ==
  /\ sock.st = "opening"
  /\ sock' = [sock EXCEPT !.st = "active", !.inbox = <<Ack>>]
  /\ UNCHANGED <<substrate, cache, polls, subHealthy, subPanesKey, herdrConnected,
                 timers, faults>>

-----------------------------------------------------------------------------
(* reconcileRoster.                                                        *)

SendPoll(i) ==
  /\ polls[i].st = "idle"
  /\ polls' = [polls EXCEPT ![i].st = "sent"]
  /\ UNCHANGED <<substrate, cache, push, herdrConnected, timers, faults>>

\* The request times out or its socket fails: the last-known cache is kept.
FailPoll(i) ==
  /\ polls[i].st # "idle"
  /\ faults < MaxFaults
  /\ faults' = faults + 1
  /\ polls' = [polls EXCEPT ![i] = NoPoll]
  /\ herdrConnected' = FALSE
  /\ UNCHANGED <<substrate, cache, push, timers>>

\* (bug: every snapshot overwrites what was pushed)
UsePush_Never(p) == FALSE
\* Push owns the live state of a pane that is already tracked.
UsePush(p) == subHealthy /\ p \in DOMAIN cache

\* (bug: rows of panes that are gone are kept)
Roster_Merged(i) == DOMAIN polls[i].agents \cup DOMAIN cache
Roster(i) == DOMAIN polls[i].agents

Rows(i) ==
  [p \in Roster(i) |->
     IF UsePush(p) \/ p \notin DOMAIN polls[i].agents THEN cache[p]
     ELSE LET a == polls[i].agents[p]
          IN  [waiting |-> Shown(a.status), seq |-> a.seq, by |-> "poll"]]

\* startSubscription: whatever socket there was is destroyed first.
StartSubscription(ids) ==
  /\ sock' = IF ids = {} THEN NoSock ELSE [NoSock EXCEPT !.st = "opening", !.panes = ids]
  /\ subHealthy' = FALSE
  /\ subPanesKey' = ids

\* (bug: a changed roster is subscribed to only when push is down)
MustResubscribe_Down(ids) == ~subHealthy /\ ids # subPanesKey
MustResubscribe(ids) == ids # subPanesKey

ReconcileRoster(i) ==
  /\ polls[i].st = "answered"
  /\ cache' = Rows(i)
  /\ polls' = [polls EXCEPT ![i] = NoPoll]
  /\ herdrConnected' = TRUE
  /\ IF MustResubscribe(Roster(i)) THEN StartSubscription(Roster(i)) ELSE UNCHANGED push
  /\ UNCHANGED <<substrate, timers, faults>>

-----------------------------------------------------------------------------
(* The subscription socket.                                                *)

\* A change of a known pane to a known status goes into its row; the rest of
\* what a message says is that push is healthy.
ApplyEvent ==
  /\ sock.inbox # <<>>
  /\ LET msg == Head(sock.inbox) IN
       cache' = IF /\ msg.type = "changed"
                   /\ msg.pane \in DOMAIN cache
                   /\ Known(msg.status)
                THEN [cache EXCEPT ![msg.pane] =
                        [waiting |-> WMAP[msg.status], seq |-> msg.seq, by |-> "push"]]
                ELSE cache
  /\ sock' = [sock EXCEPT !.inbox = Tail(@)]
  /\ subHealthy' = TRUE
  /\ herdrConnected' = TRUE
  /\ UNCHANGED <<substrate, polls, subPanesKey, timers, faults>>

\* (bug: the key survives the socket and no reconnect is scheduled)
Close_Silent ==
  /\ sock' = NoSock
  /\ subHealthy' = FALSE
  /\ UNCHANGED <<substrate, cache, polls, subPanesKey, herdrConnected, timers>>

\* The close handler of the current socket.
Close ==
  /\ sock' = NoSock
  /\ subHealthy' = FALSE
  /\ subPanesKey' = {}
  /\ timers' = timers + 1
  /\ UNCHANGED <<substrate, cache, polls, herdrConnected>>

DropSocket ==
  /\ sock.st # "none"
  /\ faults < MaxFaults
  /\ faults' = faults + 1
  /\ Close

\* The substrate may refuse to subscribe to a pane that is gone.
RefuseSubscription ==
  /\ sock.st = "opening"
  /\ ~(sock.panes \subseteq Live)
  /\ timers < MaxTimers
  /\ Close
  /\ UNCHANGED faults

\* The reconnect timer fires, also when a poll has resubscribed meanwhile.
Reconnect ==
  /\ timers > 0
  /\ timers' = timers - 1
  /\ StartSubscription(DOMAIN cache)
  /\ UNCHANGED <<substrate, cache, polls, herdrConnected, faults>>

-----------------------------------------------------------------------------
Init ==
  /\ status \in [Panes -> {"none", "working"}]
  /\ clock = [p \in Panes |-> 0]
  /\ cache = [p \in {} |-> [waiting |-> "", seq |-> 0, by |-> "poll"]]
  /\ polls = [i \in Polls |-> NoPoll]
  /\ sock = NoSock
  /\ subHealthy = FALSE /\ subPanesKey = {} /\ herdrConnected = FALSE
  /\ timers = 0 /\ changes = 0 /\ faults = 0

Daemon(i) == SendPoll(i) \/ AnswerPoll(i) \/ ReconcileRoster(i)

Next ==
  \/ \E p \in Panes : PaneSpawns(p) \/ PaneExits(p) \/ StatusChanges(p)
  \/ \E i \in Polls : Daemon(i) \/ FailPoll(i)
  \/ AckSubscription \/ ApplyEvent
  \/ DropSocket \/ RefuseSubscription \/ Reconnect

Spec == Init /\ [][Next]_vars

\* The poll interval and the reconnect timer go off, the substrate answers,
\* and data that arrived is read.
FairSpec ==
  /\ Spec
  /\ \A i \in Polls : WF_vars(Daemon(i))
  /\ WF_vars(AckSubscription) /\ WF_vars(ApplyEvent) /\ WF_vars(Reconnect)

-----------------------------------------------------------------------------
Row == [waiting : {"", "0", "1", "2"}, seq : Nat, by : {"poll", "push"}]
Message == [type : {"started", "changed"}, pane : Panes \cup {""},
            status : AgentStatus \cup {""}, seq : Nat]

Agent == [status : AgentStatus, seq : Nat]
Socket == [st : {"none", "opening", "active"}, panes : SUBSET Panes,
           inbox : Seq(Message), told : SUBSET Panes]

\* f maps some of the panes to members of S.
PaneMap(f, S) == DOMAIN f \subseteq Panes /\ f \in [DOMAIN f -> S]

IsPoll(q) ==
  /\ q = [st |-> q.st, agents |-> q.agents]
  /\ q.st \in {"idle", "sent", "answered"}
  /\ PaneMap(q.agents, Agent)

\* Every variable has its type: readers are only ever shown "", 0, 1 or 2.
TypeOK ==
  /\ status \in [Panes -> AgentStatus \cup {"none", "gone"}]
  /\ clock \in [Panes -> Nat]
  /\ PaneMap(cache, Row)
  /\ polls = [i \in Polls |-> polls[i]] /\ \A i \in Polls : IsPoll(polls[i])
  /\ sock \in Socket
  /\ subHealthy \in BOOLEAN /\ herdrConnected \in BOOLEAN
  /\ subPanesKey \in SUBSET Panes
  /\ timers \in Nat /\ changes \in Nat /\ faults \in Nat

\* The open subscription covers exactly the cached roster, and push counts as
\* healthy only while its socket is subscribed: however polls, drops and
\* reconnect timers interleave, no tracked pane is left out of the push stream
\* (index.mjs 107-108, 133-172).
SubscriptionCoversRoster ==
  /\ subPanesKey = sock.panes
  /\ sock.st # "none" => sock.panes = DOMAIN cache
  /\ subHealthy => sock.st = "active"

\* Once the open subscription has told of a change of a pane, and nothing about
\* it is left to be read, the cache shows the pane's status: no snapshot, late
\* or out of order, takes it back (index.mjs 80-83).
ToldIsShown ==
  \A p \in sock.told \cap Live :
    Known(status[p]) /\ (\A k \in 1 .. Len(sock.inbox) : sock.inbox[k].pane # p)
      => p \in DOMAIN cache /\ cache[p].waiting = WMAP[status[p]]

\* When panes stop coming and going, the roster becomes theirs and, if there
\* are any, push covers them, whatever was dropped, refused, reordered or
\* reconnected twice on the way (herdr-linux-setup.md 200-202).
FleetIsCovered ==
  <>[](DOMAIN cache = Live /\ (Live # {} => subHealthy))
=============================================================================
