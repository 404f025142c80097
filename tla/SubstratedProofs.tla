--------------------------- MODULE SubstratedProofs --------------------------
(***************************************************************************)
(* What holds of Substrated for every set of panes, every number of        *)
(* overlapping polls, and any number of changes, drops and timers.         *)
(***************************************************************************)
EXTENDS Substrated, TLAPS

\* Sockets that hear nothing: none, and one the substrate has yet to serve.
QuietSocket ==
  /\ sock.st = "none" => sock = NoSock
  /\ sock.st = "opening" => sock.inbox = <<>> /\ sock.told = {}
  /\ \A p \in sock.told : p \in sock.panes /\ status[p] # "none"

\* The last unread message about p carries its status.
OnItsWay(p) ==
  \E k \in 1 .. Len(sock.inbox) :
    /\ sock.inbox[k].type = "changed"
    /\ sock.inbox[k].pane = p
    /\ sock.inbox[k].status = status[p]
    /\ \A j \in 1 .. Len(sock.inbox) : j > k => sock.inbox[j].pane # p

\* All messages about p are read, and its row is push's.
Shows(p) ==
  /\ \A k \in 1 .. Len(sock.inbox) : sock.inbox[k].pane # p
  /\ subHealthy
  /\ p \in DOMAIN cache
  /\ Known(status[p]) => cache[p].waiting = WMAP[status[p]]

\* Whatever the socket has told of is on its way to the cache, or there.
Told == \A p \in sock.told \cap Live : OnItsWay(p) \/ Shows(p)

\* The inductive invariant.
IInv == TypeOK /\ SubscriptionCoversRoster /\ QuietSocket /\ Told

-----------------------------------------------------------------------------
\* A known status is shown as one of three values.
LEMMA KnownIsMapped == \A s : Known(s) => WMAP[s] \in {"0", "1", "2"}
<1>1. DOMAIN WMAP = {"working", "blocked", "idle"}
  BY DEF WMAP
<1>2. WMAP["working"] = "0" /\ WMAP["blocked"] = "1" /\ WMAP["idle"] = "2"
  BY DEF WMAP
<1> QED
  BY <1>1, <1>2 DEF Known

\* What a reader is shown for a status is one of the four values it expects.
LEMMA ShownType == \A s : Shown(s) \in {"", "0", "1", "2"}
BY KnownIsMapped DEF Shown

\* The socket a subscription starts with is well typed.
LEMMA FreshSocketType ==
  ASSUME NEW ids \in SUBSET Panes
  PROVE  [NoSock EXCEPT !.st = "opening", !.panes = ids] \in Socket
<1>1. <<>> \in Seq(Message)
  OBVIOUS
<1> QED
  BY <1>1 DEF NoSock, Socket

\* No socket is well typed.
LEMMA NoSockType == NoSock \in Socket
<1>1. <<>> \in Seq(Message)
  OBVIOUS
<1> QED
  BY <1>1 DEF NoSock, Socket

\* Starting a subscription keeps the push state well typed.
LEMMA StartSubscriptionType ==
  ASSUME NEW ids \in SUBSET Panes, StartSubscription(ids)
  PROVE  sock' \in Socket /\ subHealthy' \in BOOLEAN /\ subPanesKey' \in SUBSET Panes
BY FreshSocketType, NoSockType DEF StartSubscription

\* A status change keeps the substrate and its messages well typed.
LEMMA SetStatusType ==
  ASSUME TypeOK, NEW p \in Panes, p \in Live \/ status[p] = "none",
         NEW s \in AgentStatus \cup {"gone"}, SetStatus(p, s)
  PROVE  /\ status' \in [Panes -> AgentStatus \cup {"none", "gone"}]
         /\ clock' \in [Panes -> Nat]
         /\ changes' \in Nat
         /\ status'[p] = s
         /\ \A q \in Panes \ {p} : status'[q] = status[q]
         /\ UNCHANGED <<cache, polls, subHealthy, subPanesKey, herdrConnected, timers, faults>>
BY DEF TypeOK, SetStatus

\* A change that is pushed is appended to the socket's messages.
LEMMA NotifyType ==
  ASSUME TypeOK, NEW p \in Panes, NEW s \in AgentStatus, status[p] # "none",
         SetStatus(p, s), status[p] \in AgentStatus, Notify(p)
  PROVE  sock' \in Socket
<1>1. status'[p] \in AgentStatus /\ clock'[p] \in Nat
  BY DEF TypeOK, SetStatus
<1>2. Changed(p) \in Message
  BY <1>1 DEF Changed, Message
<1>3. sock \in Socket /\ sock.inbox \in Seq(Message)
  BY DEF TypeOK, Socket
<1>4. Append(sock.inbox, Changed(p)) \in Seq(Message)
  BY <1>2, <1>3
<1> QED
  BY <1>3, <1>4 DEF Notify, Socket

\* A snapshot's rows are well typed, whoever they come from.
LEMMA RowsType ==
  ASSUME TypeOK, NEW i \in Polls
  PROVE  PaneMap(Rows(i), Row) /\ DOMAIN Rows(i) = Roster(i) /\ Roster(i) \in SUBSET Panes
<1>1. PaneMap(polls[i].agents, Agent) /\ PaneMap(cache, Row)
  BY DEF TypeOK, IsPoll
<1>2. Roster(i) \subseteq Panes
  BY <1>1 DEF Roster, PaneMap
<1> DEFINE Val(p) == IF UsePush(p) \/ p \notin DOMAIN polls[i].agents THEN cache[p]
                     ELSE LET a == polls[i].agents[p]
                          IN  [waiting |-> Shown(a.status), seq |-> a.seq, by |-> "poll"]
<1>3. ASSUME NEW p \in Roster(i) PROVE Val(p) \in Row
  <2>1. CASE UsePush(p)
    BY <1>1, <2>1 DEF UsePush, PaneMap
  <2>2. CASE ~UsePush(p)
    <3>1. polls[i].agents[p] \in Agent
      BY <1>1, <1>3 DEF PaneMap, Roster
    <3> QED
      BY <2>2, <3>1, <1>3, ShownType DEF Row, Agent, Roster
  <2> QED BY <2>1, <2>2
<1>4. Rows(i) = [p \in Roster(i) |-> Val(p)]
  BY DEF Rows
<1> HIDE DEF Val
<1> QED
  BY <1>2, <1>3, <1>4 DEF PaneMap

\* A pushed change keeps the rows well typed.
LEMMA AppliedType ==
  ASSUME TypeOK, ApplyEvent
  PROVE  PaneMap(cache', Row) /\ DOMAIN cache' = DOMAIN cache
<1>1. sock.inbox \in Seq(Message) /\ sock.inbox # <<>>
  BY DEF TypeOK, Socket, ApplyEvent
<1>2. Head(sock.inbox) \in Message
  BY <1>1
<1> DEFINE msg == Head(sock.inbox)
           row == [waiting |-> WMAP[msg.status], seq |-> msg.seq, by |-> "push"]
<1>3. CASE msg.type = "changed" /\ msg.pane \in DOMAIN cache /\ Known(msg.status)
  <2>1. row \in Row
    <3>1. WMAP[msg.status] \in {"0", "1", "2"}
      BY <1>3, KnownIsMapped
    <3>2. msg.seq \in Nat
      BY <1>2 DEF Message
    <3> QED BY <3>1, <3>2 DEF Row
  <2>2. cache' = [cache EXCEPT ![msg.pane] = row]
    BY <1>3 DEF ApplyEvent
  <2> HIDE DEF row
  <2> QED BY <1>3, <2>1, <2>2 DEF TypeOK, PaneMap
<1>4. CASE ~(msg.type = "changed" /\ msg.pane \in DOMAIN cache /\ Known(msg.status))
  BY <1>4 DEF ApplyEvent, TypeOK
<1> QED BY <1>3, <1>4

\* Updating one poll keeps them all well typed.
LEMMA PollType ==
  ASSUME TypeOK, NEW i \in Polls, NEW q, IsPoll(q), polls' = [polls EXCEPT ![i] = q]
  PROVE  polls' = [j \in Polls |-> polls'[j]] /\ \A j \in Polls : IsPoll(polls'[j])
<1>1. polls = [j \in Polls |-> polls[j]] /\ \A j \in Polls : IsPoll(polls[j])
  BY DEF TypeOK
<1>2. \A j \in Polls : polls'[j] = IF j = i THEN q ELSE polls[j]
  BY <1>1
<1> QED BY <1>1, <1>2 DEF IsPoll

\* An idle poll is well typed.
LEMMA NoPollType == IsPoll(NoPoll)
BY DEF IsPoll, NoPoll, NoAgents, PaneMap

\* The initial state is well typed.
LEMMA InitType == Init => TypeOK
<1> SUFFICES ASSUME Init PROVE TypeOK
  OBVIOUS
<1>1. \A i \in Polls : polls[i] = NoPoll
  BY DEF Init
<1>2. \A i \in Polls : IsPoll(polls[i])
  BY <1>1, NoPollType
<1>3. sock \in Socket
  BY NoSockType DEF Init
<1>4. PaneMap(cache, Row)
  BY DEF Init, PaneMap
<1> QED
  BY <1>2, <1>3, <1>4 DEF Init, TypeOK, AgentStatus

\* Every step keeps every variable in its type.
LEMMA NextType == TypeOK /\ [Next]_vars => TypeOK'
<1> SUFFICES ASSUME TypeOK, [Next]_vars PROVE TypeOK'
  OBVIOUS
<1> USE DEF substrate, push
<1>1. ASSUME NEW p \in Panes, PaneSpawns(p) PROVE TypeOK'
  <2> PICK s \in AgentStatus : SetStatus(p, s)
    BY <1>1 DEF PaneSpawns
  <2>1. status[p] = "none" /\ UNCHANGED sock
    BY <1>1 DEF PaneSpawns
  <2> QED BY <2>1, SetStatusType DEF TypeOK
<1>2. ASSUME NEW p \in Panes, PaneExits(p) PROVE TypeOK'
  BY <1>2, SetStatusType DEF PaneExits, TypeOK
<1>3. ASSUME NEW p \in Panes, StatusChanges(p) PROVE TypeOK'
  <2> PICK s \in AgentStatus : SetStatus(p, s)
    BY <1>3 DEF StatusChanges
  <2>1. p \in Live /\ status[p] \in AgentStatus /\ status[p] # "none"
    BY <1>3 DEF StatusChanges, Live, AgentStatus
  <2>2. sock' \in Socket
    BY <1>3, <2>1, NotifyType DEF StatusChanges
  <2> QED BY <2>1, <2>2, SetStatusType DEF TypeOK
<1>4. ASSUME NEW i \in Polls, SendPoll(i) PROVE TypeOK'
  <2> DEFINE q == [polls[i] EXCEPT !.st = "sent"]
  <2>1. IsPoll(q)
    BY DEF TypeOK, IsPoll
  <2>2. polls' = [polls EXCEPT ![i] = q]
    BY <1>4 DEF SendPoll
  <2> HIDE DEF q
  <2> QED BY <1>4, <2>1, <2>2, PollType DEF TypeOK, SendPoll
<1>5. ASSUME NEW i \in Polls, AnswerPoll(i) PROVE TypeOK'
  <2> DEFINE q == [st |-> "answered",
                   agents |-> [p \in Live |-> [status |-> status[p], seq |-> clock[p]]]]
  <2>1. IsPoll(q)
    <3>1. \A p \in Live : [status |-> status[p], seq |-> clock[p]] \in Agent
      BY DEF TypeOK, Live, Agent
    <3> QED BY <3>1 DEF IsPoll, PaneMap, Live
  <2>2. polls' = [polls EXCEPT ![i] = q]
    BY <1>5 DEF AnswerPoll
  <2> HIDE DEF q
  <2> QED BY <1>5, <2>1, <2>2, PollType DEF TypeOK, AnswerPoll
<1>6. ASSUME NEW i \in Polls, FailPoll(i) PROVE TypeOK'
  <2>1. polls' = [j \in Polls |-> polls'[j]] /\ \A j \in Polls : IsPoll(polls'[j])
    BY <1>6, NoPollType, PollType DEF FailPoll
  <2>2. faults' \in Nat
    BY <1>6 DEF TypeOK, FailPoll
  <2> QED BY <1>6, <2>1, <2>2 DEF TypeOK, FailPoll
<1>7. ASSUME NEW i \in Polls, ReconcileRoster(i) PROVE TypeOK'
  <2>1. PaneMap(cache', Row) /\ Roster(i) \in SUBSET Panes
    BY <1>7, RowsType DEF ReconcileRoster
  <2>2. sock' \in Socket /\ subHealthy' \in BOOLEAN /\ subPanesKey' \in SUBSET Panes
    BY <1>7, <2>1, StartSubscriptionType DEF ReconcileRoster, TypeOK
  <2> QED BY <1>7, <2>1, <2>2, NoPollType, PollType DEF TypeOK, ReconcileRoster
<1>8. CASE AckSubscription
  <2>1. Ack \in Message
    BY DEF Ack, Message
  <2>2. <<Ack>> \in Seq(Message)
    BY <2>1
  <2> QED BY <1>8, <2>2 DEF TypeOK, AckSubscription, Socket
<1>9. CASE ApplyEvent
  <2>1. Tail(sock.inbox) \in Seq(Message)
    BY <1>9 DEF TypeOK, Socket, ApplyEvent
  <2>2. sock' \in Socket
    BY <1>9, <2>1 DEF TypeOK, ApplyEvent, Socket
  <2> QED BY <1>9, <2>2, AppliedType DEF TypeOK, ApplyEvent
<1>10. CASE DropSocket
  <2>1. faults' \in Nat /\ timers' \in Nat
    BY <1>10 DEF TypeOK, DropSocket, Close
  <2> QED BY <1>10, <2>1, NoSockType DEF TypeOK, DropSocket, Close
<1>11. CASE RefuseSubscription
  <2>1. timers' \in Nat
    BY <1>11 DEF TypeOK, RefuseSubscription, Close
  <2> QED BY <1>11, <2>1, NoSockType DEF TypeOK, RefuseSubscription, Close
<1>12. CASE Reconnect
  <2>1. DOMAIN cache \in SUBSET Panes
    BY DEF TypeOK, PaneMap
  <2>2. sock' \in Socket /\ subHealthy' \in BOOLEAN /\ subPanesKey' \in SUBSET Panes
    BY <1>12, <2>1, StartSubscriptionType DEF Reconnect
  <2> QED BY <1>12, <2>2 DEF TypeOK, Reconnect
<1>13. CASE UNCHANGED vars
  BY <1>13 DEF TypeOK, vars, IsPoll
<1> QED
  BY <1>1, <1>2, <1>3, <1>4, <1>5, <1>6, <1>7, <1>8, <1>9, <1>10, <1>11, <1>12, <1>13
     DEF Next, Daemon

-----------------------------------------------------------------------------
\* A started subscription hears nothing yet and covers what it was given.
LEMMA StartSubscriptionCovers ==
  ASSUME NEW ids \in SUBSET Panes, StartSubscription(ids), DOMAIN cache' = ids
  PROVE  SubscriptionCoversRoster' /\ QuietSocket' /\ Told'
<1>1. subPanesKey' = sock'.panes /\ ~subHealthy'
  BY DEF StartSubscription, NoSock
<1>2. sock'.st # "none" => sock'.panes = DOMAIN cache'
  BY DEF StartSubscription, NoSock
<1>3. sock'.told = {} /\ sock'.inbox = <<>>
  BY DEF StartSubscription, NoSock
<1>4. sock'.st = "none" => sock' = NoSock
  BY DEF StartSubscription, NoSock
<1> QED
  BY <1>1, <1>2, <1>3, <1>4 DEF SubscriptionCoversRoster, QuietSocket, Told

\* So does no socket at all.
LEMMA CloseCovers ==
  ASSUME Close
  PROVE  SubscriptionCoversRoster' /\ QuietSocket' /\ Told'
BY DEF Close, NoSock, SubscriptionCoversRoster, QuietSocket, Told

\* A subscribed socket's change of a pane is pushed if the socket has told of it
\* before, and what was on its way to other panes still is.
LEMMA ChangeIsPushed ==
  ASSUME IInv, NEW p \in Panes, StatusChanges(p), TypeOK'
  PROVE  SubscriptionCoversRoster' /\ QuietSocket' /\ Told'
<1> PICK s \in AgentStatus : SetStatus(p, s)
  BY DEF StatusChanges
<1>1. /\ p \in Live /\ status[p] \in AgentStatus
      /\ status'[p] = s
      /\ \A q \in Panes \ {p} : status'[q] = status[q]
      /\ UNCHANGED <<cache, polls, subHealthy, subPanesKey>>
  BY SetStatusType DEF StatusChanges, Live, IInv
<1>2. sock \in Socket /\ sock.inbox \in Seq(Message)
  BY DEF IInv, TypeOK, Socket
<1>3. CASE sock.st = "active" /\ p \in sock.panes
  <2>1. /\ sock'.st = sock.st /\ sock'.panes = sock.panes
        /\ sock'.inbox = Append(sock.inbox, Changed(p))
        /\ sock'.told = sock.told \cup {p}
    BY <1>2, <1>3 DEF StatusChanges, Notify, Socket
  <2>2. Len(sock'.inbox) = Len(sock.inbox) + 1 /\ Len(sock.inbox) \in Nat
    BY <1>2, <2>1
  <2>3. sock'.inbox[Len(sock.inbox) + 1] = Changed(p)
    BY <1>2, <2>1
  <2>4. \A k \in 1 .. Len(sock.inbox) : sock'.inbox[k] = sock.inbox[k]
    BY <1>2, <2>1
  <2>5. SubscriptionCoversRoster' /\ QuietSocket'
    <3>1. SubscriptionCoversRoster'
      BY <1>1, <1>3, <2>1 DEF IInv, SubscriptionCoversRoster
    <3>2. \A q \in sock'.told : q \in sock'.panes /\ status'[q] # "none"
      BY <1>1, <1>2, <1>3, <2>1 DEF IInv, QuietSocket, AgentStatus, Socket
    <3>3. sock'.st # "none" /\ sock'.st # "opening"
      BY <1>3, <2>1
    <3> QED BY <3>1, <3>2, <3>3 DEF QuietSocket
  <2>6. OnItsWay(p)'
    BY <1>1, <2>2, <2>3 DEF OnItsWay, Changed
  <2>7. ASSUME NEW q \in sock.told \cap Live, q # p PROVE OnItsWay(q)' \/ Shows(q)'
    <3>1. Changed(p).pane # q /\ q \in Panes /\ status'[q] = status[q]
      BY <1>1, <2>7 DEF Changed, Live
    <3>2. CASE OnItsWay(q)
      <4> PICK k \in 1 .. Len(sock.inbox) :
            /\ sock.inbox[k].type = "changed"
            /\ sock.inbox[k].pane = q
            /\ sock.inbox[k].status = status[q]
            /\ \A j \in 1 .. Len(sock.inbox) : j > k => sock.inbox[j].pane # q
        BY <3>2 DEF OnItsWay
      <4>1. \A j \in 1 .. Len(sock'.inbox) : j > k => sock'.inbox[j].pane # q
        BY <2>2, <2>3, <2>4, <3>1
      <4>2. k \in 1 .. Len(sock'.inbox) /\ sock'.inbox[k] = sock.inbox[k]
        BY <2>2, <2>4
      <4>3. /\ sock'.inbox[k].type = "changed"
            /\ sock'.inbox[k].pane = q
            /\ sock'.inbox[k].status = status'[q]
        BY <3>1, <4>2
      <4> HIDE DEF OnItsWay
      <4> QED BY <4>1, <4>2, <4>3 DEF OnItsWay
    <3>3. CASE Shows(q)
      <4>1. \A j \in 1 .. Len(sock'.inbox) : sock'.inbox[j].pane # q
        BY <2>2, <2>3, <2>4, <3>1, <3>3 DEF Shows
      <4> QED BY <1>1, <3>1, <3>3, <4>1 DEF Shows
    <3> QED BY <2>7, <3>2, <3>3 DEF IInv, Told
  <2>8. \A q \in (sock'.told \cap Live') \ {p} : q \in sock.told \cap Live
    BY <1>1, <2>1 DEF Live
  <2> QED BY <2>5, <2>6, <2>7, <2>8 DEF Told
<1>4. CASE ~(sock.st = "active" /\ p \in sock.panes)
  <2>1. sock' = sock
    BY <1>4 DEF StatusChanges, Notify
  <2>2. p \notin sock.told
    BY <1>4, <1>2 DEF IInv, QuietSocket, NoSock, Socket
  <2>3. SubscriptionCoversRoster' /\ QuietSocket'
    BY <1>1, <2>1, <2>2 DEF IInv, SubscriptionCoversRoster, QuietSocket, Socket, TypeOK
  <2>4. ASSUME NEW q \in sock'.told \cap Live' PROVE OnItsWay(q)' \/ Shows(q)'
    <3>1. q \in sock.told \cap Live /\ q # p /\ status'[q] = status[q]
      BY <1>1, <2>1, <2>2, <2>4 DEF Live
    <3> QED BY <1>1, <2>1, <3>1 DEF IInv, Told, OnItsWay, Shows
  <2> QED BY <2>3, <2>4 DEF Told
<1> QED BY <1>3, <1>4

\* A read message is in its row, and what is left to be read is as before.
LEMMA EventIsApplied ==
  ASSUME IInv, ApplyEvent, TypeOK'
  PROVE  SubscriptionCoversRoster' /\ QuietSocket' /\ Told'
<1> DEFINE msg == Head(sock.inbox)
           n == Len(sock.inbox)
<1>1. /\ sock \in Socket /\ sock.inbox \in Seq(Message) /\ sock.inbox # <<>>
  BY DEF IInv, TypeOK, Socket, ApplyEvent
<1>2. /\ sock'.st = sock.st /\ sock'.panes = sock.panes /\ sock'.told = sock.told
      /\ sock'.inbox = Tail(sock.inbox)
      /\ UNCHANGED <<status, subPanesKey>> /\ subHealthy' = TRUE
  BY <1>1 DEF ApplyEvent, Socket, substrate
<1>3. sock.st = "active"
  BY <1>1 DEF IInv, QuietSocket, NoSock, Socket
<1>4. n \in Nat /\ n >= 1 /\ Len(sock'.inbox) = n - 1 /\ msg = sock.inbox[1] /\ msg \in Message
  BY <1>1, <1>2
<1>5. \A k \in 1 .. n - 1 : sock'.inbox[k] = sock.inbox[k + 1]
  BY <1>1, <1>2
<1>6. SubscriptionCoversRoster' /\ QuietSocket'
  BY <1>2, <1>3, AppliedType DEF IInv, SubscriptionCoversRoster, QuietSocket
<1>7. ASSUME NEW p \in sock.told \cap Live PROVE OnItsWay(p)' \/ Shows(p)'
  <2>1. p \in Panes /\ p \in DOMAIN cache /\ DOMAIN cache' = DOMAIN cache
    BY <1>3, AppliedType DEF IInv, QuietSocket, SubscriptionCoversRoster, Live
  <2>2. CASE Shows(p)
    <3>1. \A k \in 1 .. n : sock.inbox[k].pane # p
      BY <2>2 DEF Shows
    <3>2. \A k \in 1 .. n - 1 : sock'.inbox[k].pane # p
      BY <1>4, <1>5, <3>1
    <3>3. msg.pane # p
      BY <1>4, <3>1
    <3>4. cache'[p] = cache[p]
      BY <2>1, <3>3 DEF ApplyEvent, IInv, TypeOK, PaneMap
    <3> QED BY <1>2, <1>4, <2>1, <2>2, <3>2, <3>4 DEF Shows
  <2>3. CASE OnItsWay(p)
    <3> PICK k \in 1 .. n :
          /\ sock.inbox[k].type = "changed"
          /\ sock.inbox[k].pane = p
          /\ sock.inbox[k].status = status[p]
          /\ \A j \in 1 .. n : j > k => sock.inbox[j].pane # p
      BY <2>3 DEF OnItsWay
    <3> HIDE DEF n
    <3>1. \A j \in 1 .. n - 1 : j > k - 1 => sock'.inbox[j].pane # p
      <4> TAKE j \in 1 .. n - 1
      <4> HAVE j > k - 1
      <4>1. j + 1 \in 1 .. n /\ j + 1 > k
        BY <1>4
      <4> QED BY <1>5, <4>1
    <3>2. CASE k = 1
      <4>1. msg.type = "changed" /\ msg.pane = p /\ msg.status = status[p]
        BY <1>4, <3>2
      <4>2. Known(status[p]) => cache'[p].waiting = WMAP[status[p]]
        <5> HAVE Known(status[p])
        <5> DEFINE row == [waiting |-> WMAP[msg.status], seq |-> msg.seq, by |-> "push"]
        <5>1. cache' = [cache EXCEPT ![msg.pane] = row]
          BY <2>1, <4>1 DEF ApplyEvent
        <5>2. cache'[p] = row
          BY <2>1, <4>1, <5>1 DEF IInv, TypeOK, PaneMap
        <5> QED BY <4>1, <5>2
      <4>3. \A j \in 1 .. Len(sock'.inbox) : sock'.inbox[j].pane # p
        BY <1>4, <3>1, <3>2
      <4> QED BY <1>2, <2>1, <4>2, <4>3 DEF Shows
    <3>3. CASE k # 1
      <4>1. k - 1 \in 1 .. Len(sock'.inbox) /\ sock'.inbox[k - 1] = sock.inbox[k]
        BY <1>4, <1>5, <3>3
      <4>2. \A j \in 1 .. Len(sock'.inbox) : j > k - 1 => sock'.inbox[j].pane # p
        BY <1>4, <3>1
      <4>3. /\ sock'.inbox[k - 1].type = "changed"
            /\ sock'.inbox[k - 1].pane = p
            /\ sock'.inbox[k - 1].status = status'[p]
        BY <1>2, <4>1
      <4> QED BY <4>1, <4>2, <4>3 DEF OnItsWay
    <3> QED BY <3>2, <3>3
  <2> QED BY <1>7, <2>2, <2>3 DEF IInv, Told
<1> QED
  BY <1>2, <1>6, <1>7 DEF Told, Live

\* A snapshot with the roster push covers leaves push's rows as they are; one
\* with another roster starts a subscription of its own.
LEMMA SnapshotIsReconciled ==
  ASSUME IInv, NEW i \in Polls, ReconcileRoster(i), TypeOK'
  PROVE  SubscriptionCoversRoster' /\ QuietSocket' /\ Told'
<1>1. cache' = Rows(i) /\ DOMAIN cache' = Roster(i) /\ Roster(i) \in SUBSET Panes
  BY RowsType DEF ReconcileRoster, IInv
<1>2. CASE MustResubscribe(Roster(i))
  BY <1>1, <1>2, StartSubscriptionCovers DEF ReconcileRoster
<1>3. CASE ~MustResubscribe(Roster(i))
  <2>1. UNCHANGED <<sock, subHealthy, subPanesKey, status>> /\ Roster(i) = sock.panes
    BY <1>3 DEF ReconcileRoster, MustResubscribe, push, substrate, IInv,
                SubscriptionCoversRoster
  <2>2. SubscriptionCoversRoster' /\ QuietSocket'
    BY <1>1, <2>1 DEF IInv, SubscriptionCoversRoster, QuietSocket
  <2>3. ASSUME NEW p \in sock.told \cap Live PROVE OnItsWay(p)' \/ Shows(p)'
    <3>1. CASE OnItsWay(p)
      BY <2>1, <3>1 DEF OnItsWay
    <3>2. CASE Shows(p)
      <4>1. UsePush(p) /\ p \in Roster(i)
        BY <2>1, <3>2 DEF Shows, UsePush, IInv, QuietSocket
      <4>2. cache'[p] = cache[p] /\ p \in DOMAIN cache'
        BY <1>1, <4>1 DEF Rows
      <4> QED BY <2>1, <3>2, <4>2 DEF Shows
    <3> QED BY <2>3, <3>1, <3>2 DEF IInv, Told
  <2> QED BY <2>1, <2>2, <2>3 DEF Told, Live
<1> QED BY <1>2, <1>3

\* The invariant survives every step.
LEMMA NextInv == IInv /\ [Next]_vars => IInv'
<1> SUFFICES ASSUME IInv, [Next]_vars
             PROVE  SubscriptionCoversRoster' /\ QuietSocket' /\ Told'
  BY NextType DEF IInv
<1>0. TypeOK /\ TypeOK'
  BY NextType DEF IInv
<1> USE DEF substrate, push
<1>1. ASSUME NEW p \in Panes, PaneSpawns(p)
      PROVE  SubscriptionCoversRoster' /\ QuietSocket' /\ Told'
  <2> PICK s \in AgentStatus : SetStatus(p, s)
    BY <1>1 DEF PaneSpawns
  <2>1. /\ status[p] = "none" /\ UNCHANGED <<sock, cache, subHealthy, subPanesKey>>
        /\ \A q \in Panes \ {p} : status'[q] = status[q]
    BY <1>0, <1>1, SetStatusType DEF PaneSpawns
  <2>2. p \notin sock.told
    BY <2>1 DEF IInv, QuietSocket
  <2>3. sock.told \subseteq Panes
    BY <1>0 DEF TypeOK, Socket
  <2>4. SubscriptionCoversRoster' /\ QuietSocket'
    BY <2>1, <2>2, <2>3 DEF IInv, SubscriptionCoversRoster, QuietSocket
  <2>5. ASSUME NEW q \in sock'.told \cap Live' PROVE OnItsWay(q)' \/ Shows(q)'
    <3>1. q \in sock.told \cap Live /\ status'[q] = status[q]
      BY <2>1, <2>2, <2>5 DEF Live
    <3> QED BY <2>1, <3>1 DEF IInv, Told, OnItsWay, Shows
  <2> QED BY <2>4, <2>5 DEF Told
<1>2. ASSUME NEW p \in Panes, PaneExits(p)
      PROVE  SubscriptionCoversRoster' /\ QuietSocket' /\ Told'
  <2>1. /\ p \in Live /\ SetStatus(p, "gone") /\ UNCHANGED sock
    BY <1>2 DEF PaneExits
  <2>2. /\ status'[p] = "gone" /\ UNCHANGED <<sock, cache, subHealthy, subPanesKey>>
        /\ \A q \in Panes \ {p} : status'[q] = status[q]
    BY <1>0, <2>1, SetStatusType
  <2>3. sock.told \subseteq Panes
    BY <1>0 DEF TypeOK, Socket
  <2>4. SubscriptionCoversRoster' /\ QuietSocket'
    BY <2>2, <2>3 DEF IInv, SubscriptionCoversRoster, QuietSocket
  <2>5. ASSUME NEW q \in sock'.told \cap Live' PROVE OnItsWay(q)' \/ Shows(q)'
    <3>1. q # p
      BY <2>2, <2>5 DEF Live, AgentStatus
    <3>2. q \in sock.told \cap Live /\ status'[q] = status[q]
      BY <2>2, <2>5, <3>1 DEF Live
    <3> QED BY <2>2, <3>2 DEF IInv, Told, OnItsWay, Shows
  <2> QED BY <2>4, <2>5 DEF Told
<1>3. ASSUME NEW p \in Panes, StatusChanges(p)
      PROVE  SubscriptionCoversRoster' /\ QuietSocket' /\ Told'
  BY <1>0, <1>3, ChangeIsPushed
<1>4. ASSUME UNCHANGED <<status, cache, sock, subHealthy, subPanesKey>>
      PROVE  SubscriptionCoversRoster' /\ QuietSocket' /\ Told'
  BY <1>4 DEF IInv, SubscriptionCoversRoster, QuietSocket, Told, OnItsWay, Shows, Live
<1>5. ASSUME NEW i \in Polls, SendPoll(i) \/ AnswerPoll(i) \/ FailPoll(i)
      PROVE  UNCHANGED <<status, cache, sock, subHealthy, subPanesKey>>
  BY <1>5 DEF SendPoll, AnswerPoll, FailPoll
<1>6. ASSUME NEW i \in Polls, ReconcileRoster(i)
      PROVE  SubscriptionCoversRoster' /\ QuietSocket' /\ Told'
  BY <1>0, <1>6, SnapshotIsReconciled
<1>7. CASE AckSubscription
  <2>1. sock'.told = {} /\ sock'.st = "active" /\ sock'.panes = sock.panes
    BY <1>0, <1>7 DEF AckSubscription, TypeOK, Socket, IInv, QuietSocket
  <2> QED
    BY <1>7, <2>1 DEF AckSubscription, IInv, SubscriptionCoversRoster, QuietSocket, Told
<1>8. CASE ApplyEvent
  BY <1>0, <1>8, EventIsApplied
<1>9. CASE DropSocket \/ RefuseSubscription
  BY <1>9, CloseCovers DEF DropSocket, RefuseSubscription
<1>10. CASE Reconnect
  <2>1. DOMAIN cache \in SUBSET Panes
    BY <1>0 DEF TypeOK, PaneMap
  <2> QED BY <1>10, <2>1, StartSubscriptionCovers DEF Reconnect
<1>11. CASE UNCHANGED vars
  BY <1>4, <1>11 DEF vars
<1> QED
  BY <1>1, <1>2, <1>3, <1>4, <1>5, <1>6, <1>7, <1>8, <1>9, <1>10, <1>11 DEF Next, Daemon

\* The daemon starts in the invariant.
LEMMA InitInv == Init => IInv
<1> SUFFICES ASSUME Init PROVE IInv
  OBVIOUS
<1>1. sock = NoSock /\ subPanesKey = {} /\ ~subHealthy
  BY DEF Init
<1>2. sock.told = {} /\ sock.panes = {} /\ sock.st = "none" /\ sock.inbox = <<>>
  BY <1>1 DEF NoSock
<1> QED
  BY <1>1, <1>2, InitType DEF IInv, SubscriptionCoversRoster, QuietSocket, Told

-----------------------------------------------------------------------------
\* Every variable keeps its type: whatever the substrate reports, a reader of
\* /windows is shown "", 0, 1 or 2 (index.mjs 99, 127).
THEOREM TypeCorrect == Spec => []TypeOK
BY InitType, NextType, PTL DEF Spec

\* The invariant the two properties below rest on.
THEOREM Invariance == Spec => []IInv
BY InitInv, NextInv, PTL DEF Spec

\* The subscription always covers the cached roster (index.mjs 107-108, 133-172).
THEOREM RosterIsCovered == Spec => []SubscriptionCoversRoster
<1>1. IInv => SubscriptionCoversRoster
  BY DEF IInv
<1> QED BY <1>1, Invariance, PTL

\* A pushed status is shown until push tells another: no answer to an
\* overlapping poll takes it back (index.mjs 80-92).
THEOREM ToldStaysShown == Spec => []ToldIsShown
<1>1. IInv => ToldIsShown
  <2> SUFFICES ASSUME IInv, NEW p \in sock.told \cap Live, Known(status[p]),
                      \A k \in 1 .. Len(sock.inbox) : sock.inbox[k].pane # p
               PROVE  p \in DOMAIN cache /\ cache[p].waiting = WMAP[status[p]]
    BY DEF ToldIsShown
  <2>1. ~OnItsWay(p)
    BY DEF OnItsWay
  <2> QED BY <2>1 DEF IInv, Told, Shows
<1> QED BY <1>1, Invariance, PTL
=============================================================================
