--------------------------------- MODULE Bus ---------------------------------
(***************************************************************************)
(* The agent bus of the slack-bridge over NATS (slack-bridge/index.js,     *)
(* transports/nats-transport.js), on one host: envelopes are published to  *)
(* the host's part of the JetStream stream, its durable consumer hands     *)
(* them to the bridge one by one, and the bridge types them into the       *)
(* terminal pane of the agent they are addressed to, when that agent is    *)
(* idle, or holds them in memory until it is.                              *)
(*                                                                         *)
(* An envelope is its kind, its addressee and, for a request and its       *)
(* reply, the POST /request it belongs to; elsewhere it is known by its    *)
(* place in the stream.  An agent is the pane it is registered with.  The  *)
(* Slack transport, the election of an owner among hosts and the rendering *)
(* of a message are left out; the broker, the terminal and the agents are  *)
(* modelled from how the bridge uses them.                                 *)
(***************************************************************************)
EXTENDS Naturals, Sequences, FiniteSets

CONSTANTS
  Panes,       \* the agents of this host
  Reqs,        \* the calls of POST /request
  MaxSends,    \* how many messages are sent by POST /send
  MaxReplies,  \* how many replies are sent to one request
  MaxDrafts,   \* how often a human types into a pane
  QueueMax,    \* BUS_QUEUE_MAX
  Faults,      \* which of AllFaults happen
  MaxFaults    \* how many of them, in all

AllFaults ==
  {"publish",  \* the broker stores an envelope and its confirmation is lost
   "ack",      \* an acknowledgement is lost
   "send",     \* agent-send.sh is killed after its five seconds
   "die",      \* a pane closes
   "list",     \* substrate list-panes answers nothing
   "restart"}  \* the bridge restarts

ASSUME BoundsAssumption ==
  /\ MaxSends \in Nat /\ MaxReplies \in Nat /\ MaxDrafts \in Nat /\ MaxFaults \in Nat
  /\ QueueMax \in Nat \ {0}
ASSUME FaultsAssumption == Faults \subseteq AllFaults

VARIABLES
  stream,           \* the envelopes of this host's subtree, in the broker
  cursor, unacked,  \* the durable consumer: how far it came, what it redelivers
  up,               \* natsReady, and the subscription
  queue,            \* busQueue
  caller,           \* the calls of POST /request; pendingRequests is "waiting"
  status,           \* what the agent in a pane does; at a prompt it is "busy"
  waiting,          \* @waiting, as the substrate last recorded it
  drafting,         \* the panes humanTyping is true of
  registered,       \* the entries of ~/.tmux/registry
  typed,            \* history: what was typed into each pane
  lost, resent,     \* history: what was given up; what may come twice
  drafts, faults    \* the bounds' counters

broker == <<stream, cursor, unacked>>
agents == <<status, waiting, drafting, registered>>
history == <<typed, lost, resent>>
vars == <<broker, up, queue, caller, agents, history, drafts, faults>>

Envelopes ==
  [kind : {"msg"}, to : Panes]
    \cup [kind : {"request"}, to : Panes, corr : Reqs]
    \cup [kind : {"reply"}, corr : Reqs]

Count(kind) == Cardinality({s \in DOMAIN stream : stream[s].kind = kind})
Elements(q) == {q[i] : i \in DOMAIN q}

Fault(f) == f \in Faults /\ faults < MaxFaults /\ faults' = faults + 1
NoFault == UNCHANGED faults

-----------------------------------------------------------------------------
(* Publishing.                                                             *)

Publish(env) == stream' = Append(stream, env) /\ UNCHANGED <<cursor, unacked>>

\* POST /send.
Send ==
  /\ up
  /\ Count("msg") < MaxSends
  /\ \E p \in Panes : Publish([kind |-> "msg", to |-> p])
  /\ UNCHANGED <<up, queue, caller, agents, history, drafts, faults>>

\* POST /request publishes and awaits the broker's confirmation.
Request(r) ==
  /\ caller[r] = "none"
  /\ IF up
     THEN /\ \E p \in Panes : Publish([kind |-> "request", to |-> p, corr |-> r])
          /\ caller' = [caller EXCEPT ![r] = "publishing"]
     ELSE /\ caller' = [caller EXCEPT ![r] = "error"]
          /\ UNCHANGED broker
  /\ UNCHANGED <<up, queue, agents, history, drafts, faults>>

\* Only now the request is pending and its deadline runs.
Confirmed(r) ==
  /\ caller[r] = "publishing"
  /\ \/ caller' = [caller EXCEPT ![r] = "waiting"] /\ NoFault
     \/ caller' = [caller EXCEPT ![r] = "error"] /\ Fault("publish")
  /\ UNCHANGED <<broker, up, queue, agents, history, drafts>>

\* (bug: the timer of an answered request still resolves it)
Deadline_Uncleared(r) ==
  /\ caller[r] \in {"waiting", "ok"}
  /\ caller' = [caller EXCEPT ![r] = "timeout"]
  /\ UNCHANGED <<broker, up, queue, agents, history, drafts, faults>>

\* (bug: no deadline)
Deadline_Never(r) == FALSE /\ UNCHANGED vars

Deadline(r) ==
  /\ caller[r] = "waiting"
  /\ caller' = [caller EXCEPT ![r] = "timeout"]
  /\ UNCHANGED <<broker, up, queue, agents, history, drafts, faults>>

\* An agent at work on a request it was typed answers it.
Reply(r) ==
  /\ up
  /\ Cardinality({s \in DOMAIN stream : stream[s] = [kind |-> "reply", corr |-> r]})
       < MaxReplies
  /\ \E p \in Panes :
       /\ status[p] = "busy"
       /\ [kind |-> "request", to |-> p, corr |-> r] \in {stream[s] : s \in Elements(typed[p])}
  /\ Publish([kind |-> "reply", corr |-> r])
  /\ UNCHANGED <<up, queue, caller, agents, history, drafts, faults>>

-----------------------------------------------------------------------------
(* deliverToPane: agent-send.sh types the text and Enter.  Its exit code   *)
(* says nothing of the pane, only that it was not killed.                  *)

\* The script comes back, or is killed after it typed, or before.
Outcomes == {"sent", "late", "failed"}
Arrives(p, o) == o \in {"sent", "late"} /\ status[p] # "dead"

\* Each pane p of o is typed msg[p]; at most one of them is slow.
Deliver(msg, o) ==
  LET arrived == {p \in DOMAIN o : Arrives(p, o[p])}
      slow == {p \in DOMAIN o : o[p] # "sent"}
  IN  /\ typed' = [p \in Panes |-> IF p \in arrived THEN Append(typed[p], msg[p]) ELSE typed[p]]
      /\ status' = [p \in Panes |-> IF p \in arrived THEN "busy" ELSE status[p]]
      /\ \/ slow = {} /\ NoFault
         \/ Cardinality(slow) = 1 /\ Fault("send")

\* The gate in front of it: @waiting is "2" and nobody is typing.
Open(p) == waiting[p] = "idle" /\ p \notin drafting

-----------------------------------------------------------------------------
(* The consumer's handler: routeEnvelope, then the acknowledgement.        *)

\* The oldest message of a full queue is dropped.
Enqueue(p, s) ==
  IF Len(queue[p]) < QueueMax
  THEN /\ queue' = [queue EXCEPT ![p] = Append(@, s)]
       /\ UNCHANGED lost
  ELSE /\ queue' = [queue EXCEPT ![p] = Append(Tail(@), s)]
       /\ lost' = lost \cup {Head(queue[p])}

\* (bug: a held message is typed as well)
Hold_Typed(p, s) == Enqueue(p, s) /\ Deliver([q \in {p} |-> s], [q \in {p} |-> "sent"])
Hold(p, s) == Enqueue(p, s) /\ NoFault /\ UNCHANGED <<typed, status>>

\* A direct delivery that fails is logged, no more.
DeliverOrQueue(p, s) ==
  IF Open(p)
  THEN \E o \in [{p} -> Outcomes] :
         /\ Deliver([q \in {p} |-> s], o)
         /\ lost' = IF o[p] = "failed" THEN lost \cup {s} ELSE lost
         /\ UNCHANGED queue
  ELSE Hold(p, s)

\* A reply nobody waits for is addressed to no agent.
InterceptReply(r) ==
  caller' = IF caller[r] = "waiting" THEN [caller EXCEPT ![r] = "ok"] ELSE caller

\* Nothing is typed, held or given up.
NotDelivered == NoFault /\ UNCHANGED <<queue, typed, status, lost>>

RouteEnvelope(s) ==
  \/ /\ stream[s].kind = "reply"
     /\ InterceptReply(stream[s].corr)
     /\ NotDelivered
  \/ /\ stream[s].kind # "reply"
     /\ IF stream[s].to \in registered THEN DeliverOrQueue(stream[s].to, s)
        ELSE NotDelivered
     /\ UNCHANGED caller

\* What the broker delivers: the next envelope, or one whose
\* acknowledgement did not come.
Due(s) == s = cursor + 1 \/ s \in unacked

Consume ==
  /\ up
  /\ \E s \in DOMAIN stream :
       /\ Due(s)
       /\ RouteEnvelope(s)
       /\ cursor' = IF s = cursor + 1 THEN s ELSE cursor
       /\ unacked' = unacked \ {s}
  /\ UNCHANGED <<stream, up, waiting, drafting, registered, resent, drafts>>

\* The connection drops, or the bridge dies, before the broker has the last
\* acknowledgement: that envelope comes again.
LoseAck ==
  /\ cursor > 0
  /\ Fault("ack")
  /\ unacked' = unacked \cup {cursor}
  /\ resent' = resent \cup {cursor}
  /\ UNCHANGED <<stream, cursor, up, queue, caller, agents, typed, lost, drafts>>

-----------------------------------------------------------------------------
(* flushBusQueue: at every tick, the oldest message of each open pane.     *)

\* (bug: the message is taken off the queue before it is known to be typed)
Flushed_Early(p, o) == Tail(queue[p])
\* A message is kept unless the script came back in time, typed or not.
Flushed(p, o) == IF o = "sent" THEN Tail(queue[p]) ELSE queue[p]

\* (bug: a pane is flushed only while it has more than one message)
Flushable_Two(gone) == {p \in Panes \ gone : Len(queue[p]) > 1 /\ Open(p)}
Flushable(gone) == {p \in Panes \ gone : queue[p] # <<>> /\ Open(p)}

\* The queues of the panes that are not listed are dropped, unless the list
\* is empty, which is taken for an error.
Tick ==
  /\ up
  /\ \E list \in {{p \in Panes : status[p] # "dead"}, {}} :
       /\ list = {} => "list" \in Faults \/ \A p \in Panes : status[p] = "dead"
       /\ LET gone == IF list = {} THEN {} ELSE Panes \ list
              flush == Flushable(gone)
          IN  \E o \in [flush -> Outcomes] :
                /\ Deliver([p \in flush |-> Head(queue[p])], o)
                /\ queue' = [p \in Panes |-> IF p \in gone THEN <<>>
                                             ELSE IF p \in flush THEN Flushed(p, o[p])
                                             ELSE queue[p]]
                /\ resent' = resent \cup {Head(queue[p]) : p \in {q \in flush : o[q] = "late"}}
  /\ UNCHANGED <<broker, up, caller, waiting, drafting, registered, lost, drafts>>

-----------------------------------------------------------------------------
(* The bridge's process.                                                   *)

\* What is held goes with the process, and so do its callers.
Restart ==
  /\ up
  /\ Fault("restart")
  /\ up' = FALSE
  /\ lost' = lost \cup UNION {Elements(queue[p]) : p \in Panes}
  /\ queue' = [p \in Panes |-> <<>>]
  /\ caller' = [r \in Reqs |-> IF caller[r] \in {"publishing", "waiting"} THEN "reset"
                               ELSE caller[r]]
  /\ UNCHANGED <<broker, agents, typed, resent, drafts>>

\* The transport connects and the durable consumer is bound again.
Connect ==
  /\ ~up
  /\ up' = TRUE
  /\ UNCHANGED <<broker, queue, caller, agents, history, drafts, faults>>

-----------------------------------------------------------------------------
(* The agents and their panes.                                             *)

FinishTurn(p) ==
  /\ status[p] = "busy"
  /\ status' = [status EXCEPT ![p] = "idle"]
  /\ UNCHANGED <<broker, up, queue, caller, waiting, drafting, registered, history,
                 drafts, faults>>

\* A hook, or the daemon's poll, records what the agent does.
Record(p) ==
  /\ waiting[p] # status[p]
  /\ waiting' = [waiting EXCEPT ![p] = status[p]]
  /\ UNCHANGED <<broker, up, queue, caller, status, drafting, registered, history,
                 drafts, faults>>

\* A human starts to type into an idle agent's pane, and sends or gives it up.
StartDraft(p) ==
  /\ drafts < MaxDrafts
  /\ status[p] = "idle" /\ p \notin drafting
  /\ drafting' = drafting \cup {p}
  /\ drafts' = drafts + 1
  /\ UNCHANGED <<broker, up, queue, caller, status, waiting, registered, history, faults>>

EndDraft(p) ==
  /\ p \in drafting
  /\ drafting' = drafting \ {p}
  /\ status' \in {status, [status EXCEPT ![p] = IF @ = "idle" THEN "busy" ELSE @]}
  /\ UNCHANGED <<broker, up, queue, caller, waiting, registered, history, drafts, faults>>

Die(p) ==
  /\ status[p] # "dead"
  /\ Fault("die")
  /\ status' = [status EXCEPT ![p] = "dead"]
  /\ drafting' = drafting \ {p}
  /\ UNCHANGED <<broker, up, queue, caller, waiting, registered, history, drafts>>

\* substrate.sh sweep: the registry entry outlives its pane.
Sweep(p) ==
  /\ status[p] = "dead" /\ p \in registered
  /\ registered' = registered \ {p}
  /\ UNCHANGED <<broker, up, queue, caller, status, waiting, drafting, history,
                 drafts, faults>>

-----------------------------------------------------------------------------
Init ==
  /\ stream = <<>> /\ cursor = 0 /\ unacked = {} /\ up = TRUE
  /\ queue = [p \in Panes |-> <<>>]
  /\ caller = [r \in Reqs |-> "none"]
  /\ status = [p \in Panes |-> "idle"] /\ waiting = status
  /\ drafting = {} /\ registered = Panes
  /\ typed = [p \in Panes |-> <<>>] /\ lost = {} /\ resent = {}
  /\ drafts = 0 /\ faults = 0

Next ==
  \/ Send \/ Consume \/ LoseAck \/ Tick \/ Restart \/ Connect
  \/ \E r \in Reqs : Request(r) \/ Confirmed(r) \/ Deadline(r) \/ Reply(r)
  \/ \E p \in Panes :
       FinishTurn(p) \/ Record(p) \/ StartDraft(p) \/ EndDraft(p) \/ Die(p) \/ Sweep(p)

Spec == Init /\ [][Next]_vars

\* The bridge's event loop runs: envelopes are consumed, ticks, confirmations
\* and deadlines fire, the transport reconnects.  Agents finish their turns,
\* humans their drafts, and hooks report.
FairSpec ==
  /\ Spec
  /\ WF_vars(Consume) /\ WF_vars(Tick) /\ WF_vars(Connect)
  /\ \A r \in Reqs : WF_vars(Confirmed(r)) /\ WF_vars(Deadline(r))
  /\ \A p \in Panes : WF_vars(FinishTurn(p)) /\ WF_vars(Record(p)) /\ WF_vars(EndDraft(p))

-----------------------------------------------------------------------------
States == {"idle", "busy", "dead"}
Settled == {"ok", "timeout", "error", "reset"}

\* Every variable has its type; a queue never exceeds its cap.
TypeOK ==
  /\ stream \in Seq(Envelopes)
  /\ cursor \in 0 .. Len(stream) /\ unacked \subseteq 1 .. cursor
  /\ up \in BOOLEAN
  /\ queue \in [Panes -> Seq(1 .. cursor)] /\ \A p \in Panes : Len(queue[p]) <= QueueMax
  /\ caller \in [Reqs -> {"none", "publishing", "waiting"} \cup Settled]
  /\ status \in [Panes -> States] /\ waiting \in [Panes -> States]
  /\ drafting \subseteq Panes /\ registered \subseteq Panes
  /\ typed \in [Panes -> Seq(1 .. cursor)]
  /\ lost \subseteq 1 .. cursor /\ resent \subseteq 1 .. cursor
  /\ drafts \in Nat /\ faults \in Nat

\* The messages of pane p that the bridge has received.
Received(p) == {s \in 1 .. cursor : stream[s].kind # "reply" /\ stream[s].to = p}

\* Whatever interleaves, a message received for a live agent was typed, is
\* held, or is one of those the bridge gave up: the oldest of a full queue, a
\* failed direct delivery, what was held when it restarted (index.js
\* 1608-1616, 1622-1649, 1704-1714, 2641-2645).
AccountedFor ==
  \A p \in Panes : status[p] # "dead" =>
    Received(p) \subseteq Elements(typed[p]) \cup Elements(queue[p]) \cup lost

\* A message comes to an agent once, typed or still to be typed, unless its
\* acknowledgement was lost or the terminal was slow to take it (index.js
\* 1637-1645, 1706-1711, 2646-2650).
ComesOnce ==
  \A p \in Panes :
    LET copies == typed[p] \o queue[p]
    IN  \A i, j \in DOMAIN copies : copies[i] = copies[j] => i = j \/ copies[i] \in resent

\* What a caller of POST /request was told stays: a late reply, a redelivered
\* one or a deadline changes nothing (index.js 1718-1727, 2186-2193).
CallersSettleOnce ==
  [][\A r \in Reqs : caller[r] \in Settled => caller'[r] = caller[r]]_vars

\* "Always resolves ... so the HTTP call never hangs" (index.js 2163).
CallersSettle == \A r \in Reqs : caller[r] = "publishing" ~> caller[r] \in Settled

\* A held message is typed once the agent goes idle, unless the agent is gone
\* or the message is given up (index.js 1622-1649).
HeldIsTyped ==
  \A p \in Panes, s \in 1 .. MaxSends + Cardinality(Reqs) * (1 + MaxReplies) :
    s \in Elements(queue[p]) ~> (s \in Elements(typed[p]) \cup lost \/ status[p] = "dead")
=============================================================================
