------------------------------ MODULE BusProofs ------------------------------
(***************************************************************************)
(* What holds of Bus for every set of agents and calls, every bound and    *)
(* every mix of faults.                                                    *)
(***************************************************************************)
EXTENDS Bus, TLAPS

\* Only a pane that is gone loses its registry entry.
RegisteredWhileAlive == \A p \in Panes : p \notin registered => status[p] = "dead"

\* The inductive invariant.
IInv == TypeOK /\ RegisteredWhileAlive /\ AccountedFor

-----------------------------------------------------------------------------
(* Sequences and their elements.                                           *)

LEMMA ElementsEmpty == Elements(<<>>) = {}
BY DEF Elements

LEMMA ElementsAppend ==
  ASSUME NEW S, NEW q \in Seq(S), NEW x \in S
  PROVE  Append(q, x) \in Seq(S) /\ Elements(Append(q, x)) = Elements(q) \cup {x}
<1>1. Append(q, x) \in Seq(S) /\ Len(Append(q, x)) = Len(q) + 1
  OBVIOUS
<1>2. \A i \in 1 .. Len(q) : Append(q, x)[i] = q[i]
  OBVIOUS
<1>3. Append(q, x)[Len(q) + 1] = x
  OBVIOUS
<1>4. DOMAIN Append(q, x) = 1 .. (Len(q) + 1) /\ DOMAIN q = 1 .. Len(q)
  BY <1>1
<1> QED
  BY <1>1, <1>2, <1>3, <1>4 DEF Elements

LEMMA ElementsTail ==
  ASSUME NEW S, NEW q \in Seq(S), q # <<>>
  PROVE  /\ Tail(q) \in Seq(S) /\ Len(Tail(q)) = Len(q) - 1
         /\ Head(q) \in S
         /\ Elements(q) = {Head(q)} \cup Elements(Tail(q))
<1>1. Tail(q) \in Seq(S) /\ Len(Tail(q)) = Len(q) - 1 /\ Len(q) > 0 /\ Head(q) \in S
  OBVIOUS
<1>2. \A i \in 1 .. Len(Tail(q)) : Tail(q)[i] = q[i + 1]
  OBVIOUS
<1>3. DOMAIN Tail(q) = 1 .. (Len(q) - 1) /\ DOMAIN q = 1 .. Len(q) /\ Head(q) = q[1]
  BY <1>1
<1>4. ASSUME NEW i \in 1 .. Len(q)
      PROVE  q[i] \in {Head(q)} \cup Elements(Tail(q))
  <2>1. CASE i = 1
    BY <2>1, <1>3
  <2>2. CASE i # 1
    <3>1. i - 1 \in 1 .. Len(Tail(q)) /\ Tail(q)[i - 1] = q[i]
      BY <2>2, <1>1, <1>2
    <3> QED BY <3>1, <1>1, <1>3 DEF Elements
  <2> QED BY <2>1, <2>2
<1>5. ASSUME NEW i \in 1 .. (Len(q) - 1)
      PROVE  Tail(q)[i] \in Elements(q)
  BY <1>1, <1>2, <1>3 DEF Elements
<1> QED
  BY <1>1, <1>3, <1>4, <1>5 DEF Elements

LEMMA ElementsType ==
  ASSUME NEW S, NEW q \in Seq(S)
  PROVE  Elements(q) \subseteq S
BY DEF Elements

LEMMA Widen ==
  ASSUME NEW m \in Nat, NEW n \in Nat, m <= n, NEW q \in Seq(1 .. m)
  PROVE  q \in Seq(1 .. n)
<1>1. \A i \in 1 .. Len(q) : q[i] \in 1 .. n
  OBVIOUS
<1> QED
  BY <1>1

-----------------------------------------------------------------------------
(* What typing into a set of panes does.                                   *)

LEMMA DeliverFacts ==
  ASSUME TypeOK, NEW c \in Nat, cursor <= c,
         NEW D \in SUBSET Panes, NEW o \in [D -> Outcomes],
         NEW msg, \A p \in D : msg[p] \in 1 .. c,
         Deliver(msg, o)
  PROVE  /\ typed' \in [Panes -> Seq(1 .. c)]
         /\ status' \in [Panes -> States]
         /\ \A p \in Panes : status'[p] = "dead" <=> status[p] = "dead"
         /\ faults' \in Nat
         /\ \A p \in Panes : Elements(typed[p]) \subseteq Elements(typed'[p])
         /\ \A p \in D : o[p] # "failed" /\ status[p] # "dead" => msg[p] \in Elements(typed'[p])
<1> DEFINE arrived == {p \in D : Arrives(p, o[p])}
<1>1. DOMAIN o = D
  OBVIOUS
<1>2. /\ typed' = [p \in Panes |-> IF p \in arrived THEN Append(typed[p], msg[p]) ELSE typed[p]]
      /\ status' = [p \in Panes |-> IF p \in arrived THEN "busy" ELSE status[p]]
      /\ faults' = faults \/ faults' = faults + 1
  BY <1>1 DEF Deliver, NoFault, Fault
<1>3. \A p \in Panes : typed[p] \in Seq(1 .. c)
  BY Widen DEF TypeOK
<1>4. \A p \in arrived : /\ Append(typed[p], msg[p]) \in Seq(1 .. c)
                         /\ Elements(Append(typed[p], msg[p])) = Elements(typed[p]) \cup {msg[p]}
  BY <1>3, ElementsAppend
<1>5. typed' \in [Panes -> Seq(1 .. c)]
  BY <1>2, <1>3, <1>4
<1>6. status' \in [Panes -> States] /\ \A p \in Panes : status'[p] = "dead" <=> status[p] = "dead"
  BY <1>2 DEF TypeOK, States, Arrives
<1>8. faults' \in Nat
  BY <1>2 DEF TypeOK
<1>9. \A p \in Panes : Elements(typed[p]) \subseteq Elements(typed'[p])
  BY <1>2, <1>4
<1>10. \A p \in D : o[p] # "failed" /\ status[p] # "dead" => p \in arrived
  BY DEF Arrives, Outcomes
<1>11. \A p \in arrived : msg[p] \in Elements(typed'[p])
  BY <1>2, <1>4
<1> QED
  BY <1>5, <1>6, <1>8, <1>9, <1>10, <1>11

-----------------------------------------------------------------------------
(* The parts of the invariant that an action leaves alone.                 *)

\* An action that adds to the stream at most, and takes nothing from a queue
\* or from what was typed or lost, keeps a message accounted for.
LEMMA StillAccounted ==
  ASSUME IInv, TypeOK', cursor' = cursor,
         \A s \in 1 .. cursor : stream'[s] = stream[s],
         \A p \in Panes : status'[p] # "dead" => status[p] # "dead",
         \A p \in Panes : status'[p] # "dead" =>
           Elements(typed[p]) \cup Elements(queue[p]) \cup lost
             \subseteq Elements(typed'[p]) \cup Elements(queue'[p]) \cup lost'
  PROVE  AccountedFor'
<1>1. \A p \in Panes : Received(p)' = Received(p)
  BY DEF Received
<1> QED
  BY <1>1 DEF IInv, AccountedFor

\* Publishing leaves what was received as it is.
LEMMA PublishFacts ==
  ASSUME IInv, NEW env \in Envelopes, Publish(env),
         UNCHANGED <<queue, status, typed, lost, resent, registered>>
  PROVE  /\ stream' \in Seq(Envelopes) /\ cursor' = cursor /\ unacked' = unacked
         /\ cursor' \in 0 .. Len(stream')
         /\ RegisteredWhileAlive'
         /\ TypeOK' => AccountedFor'
<1>1. stream' = Append(stream, env) /\ cursor' = cursor /\ unacked' = unacked
  BY DEF Publish
<1>2. stream \in Seq(Envelopes) /\ cursor \in 0 .. Len(stream)
  BY DEF IInv, TypeOK
<1>3. stream' \in Seq(Envelopes) /\ cursor' \in 0 .. Len(stream')
  BY <1>1, <1>2
<1>4. \A s \in 1 .. cursor : stream'[s] = stream[s]
  BY <1>1, <1>2
<1>5. RegisteredWhileAlive'
  BY DEF IInv, RegisteredWhileAlive
<1>6. TypeOK' => AccountedFor'
  BY <1>1, <1>4, StillAccounted
<1> QED
  BY <1>1, <1>3, <1>5, <1>6

\* What an action that moves no message does to the invariant.
LEMMA Unmoved ==
  ASSUME IInv, TypeOK', UNCHANGED <<stream, cursor, queue, typed, lost>>,
         \A p \in Panes : status'[p] # "dead" => status[p] # "dead",
         \A p \in Panes : p \notin registered' => status'[p] = "dead"
  PROVE  IInv'
<1>1. AccountedFor'
  BY StillAccounted
<1> QED
  BY <1>1 DEF IInv, RegisteredWhileAlive

-----------------------------------------------------------------------------
(* The handler of the consumer.                                            *)

LEMMA EnqueueFacts ==
  ASSUME TypeOK, NEW c \in Nat, cursor <= c, NEW p \in Panes, NEW s \in 1 .. c,
         Enqueue(p, s)
  PROVE  /\ queue' \in [Panes -> Seq(1 .. c)]
         /\ \A q \in Panes : Len(queue'[q]) <= QueueMax
         /\ lost' \subseteq 1 .. c
         /\ s \in Elements(queue'[p])
         /\ \A q \in Panes : Elements(queue[q]) \cup lost \subseteq Elements(queue'[q]) \cup lost'
<1>0. cursor \in Nat /\ QueueMax \in Nat \ {0} /\ lost \subseteq 1 .. cursor
  BY BoundsAssumption DEF TypeOK
<1>1. \A q \in Panes : queue[q] \in Seq(1 .. c) /\ Len(queue[q]) <= QueueMax
  BY <1>0, Widen DEF TypeOK
<1>2. CASE Len(queue[p]) < QueueMax
  <2>1. queue' = [queue EXCEPT ![p] = Append(queue[p], s)] /\ lost' = lost
    BY <1>2 DEF Enqueue
  <2>2. /\ Append(queue[p], s) \in Seq(1 .. c)
        /\ Len(Append(queue[p], s)) <= QueueMax
        /\ Elements(Append(queue[p], s)) = Elements(queue[p]) \cup {s}
    BY <1>0, <1>1, <1>2, ElementsAppend
  <2>3. lost' \subseteq 1 .. c
    BY <2>1, <1>0
  <2> QED BY <1>1, <2>1, <2>2, <2>3 DEF TypeOK
<1>3. CASE ~(Len(queue[p]) < QueueMax)
  <2>1. queue' = [queue EXCEPT ![p] = Append(Tail(queue[p]), s)] /\ lost' = lost \cup {Head(queue[p])}
    BY <1>3 DEF Enqueue
  <2>2. queue[p] # <<>>
    BY <1>0, <1>1, <1>3
  <2>3. /\ Tail(queue[p]) \in Seq(1 .. c) /\ Len(Tail(queue[p])) = Len(queue[p]) - 1
        /\ Head(queue[p]) \in 1 .. c
        /\ Elements(queue[p]) = {Head(queue[p])} \cup Elements(Tail(queue[p]))
    BY <1>1, <2>2, ElementsTail
  <2>4. /\ Append(Tail(queue[p]), s) \in Seq(1 .. c)
        /\ Len(Append(Tail(queue[p]), s)) <= QueueMax
        /\ Elements(Append(Tail(queue[p]), s)) = Elements(Tail(queue[p])) \cup {s}
    BY <1>0, <1>1, <2>3, ElementsAppend
  <2>5. lost' \subseteq 1 .. c
    <3>1. Head(queue[p]) \in 1 .. c
      BY <2>3
    <3>2. 1 .. cursor \subseteq 1 .. c
      BY <1>0
    <3> QED BY <2>1, <3>1, <3>2, <1>0
  <2> QED BY <1>1, <2>1, <2>3, <2>4, <2>5 DEF TypeOK
<1> QED BY <1>2, <1>3

\* Every envelope has the fields its kind calls for.
LEMMA EnvelopeFields ==
  ASSUME NEW env \in Envelopes
  PROVE  /\ env.kind = "reply" => env.corr \in Reqs
         /\ env.kind # "reply" => env.to \in Panes
BY DEF Envelopes

LEMMA DeliverOrQueueFacts ==
  ASSUME TypeOK, NEW c \in Nat, cursor <= c, NEW p \in Panes, NEW s \in 1 .. c,
         DeliverOrQueue(p, s)
  PROVE  /\ queue' \in [Panes -> Seq(1 .. c)] /\ \A q \in Panes : Len(queue'[q]) <= QueueMax
         /\ typed' \in [Panes -> Seq(1 .. c)] /\ status' \in [Panes -> States]
         /\ lost' \subseteq 1 .. c /\ faults' \in Nat
         /\ \A q \in Panes : status'[q] = "dead" <=> status[q] = "dead"
         /\ \A q \in Panes : Elements(typed[q]) \cup Elements(queue[q]) \cup lost
                               \subseteq Elements(typed'[q]) \cup Elements(queue'[q]) \cup lost'
         /\ status[p] # "dead" =>
               s \in Elements(typed'[p]) \cup Elements(queue'[p]) \cup lost'
<1>0. /\ cursor \in Nat /\ lost \subseteq 1 .. c /\ faults \in Nat
      /\ status \in [Panes -> States]
      /\ \A q \in Panes : /\ queue[q] \in Seq(1 .. c) /\ Len(queue[q]) <= QueueMax
                           /\ typed[q] \in Seq(1 .. c)
  <2>1. cursor \in Nat /\ 1 .. cursor \subseteq 1 .. c
    BY DEF TypeOK
  <2> QED BY <2>1, Widen DEF TypeOK
<1>1. CASE Open(p)
  <2>1. PICK o \in [{p} -> Outcomes] :
          /\ Deliver([q \in {p} |-> s], o)
          /\ lost' = IF o[p] = "failed" THEN lost \cup {s} ELSE lost
          /\ queue' = queue
    BY <1>1 DEF DeliverOrQueue
  <2> DEFINE msg == [q \in {p} |-> s]
  <2>2. {p} \in SUBSET Panes /\ \A q \in {p} : msg[q] \in 1 .. c
    OBVIOUS
  <2>3. Deliver(msg, o)
    BY <2>1
  <2> HIDE DEF msg
  <2>4. /\ typed' \in [Panes -> Seq(1 .. c)] /\ status' \in [Panes -> States]
        /\ \A q \in Panes : status'[q] = "dead" <=> status[q] = "dead"
        /\ faults' \in Nat
        /\ \A q \in Panes : Elements(typed[q]) \subseteq Elements(typed'[q])
        /\ \A q \in {p} : o[q] # "failed" /\ status[q] # "dead" => msg[q] \in Elements(typed'[q])
    BY <2>2, <2>3, DeliverFacts
  <2>5. msg[p] = s
    BY DEF msg
  <2>6. queue' \in [Panes -> Seq(1 .. c)] /\ \A q \in Panes : Len(queue'[q]) <= QueueMax
    BY <1>0, <2>1 DEF TypeOK
  <2>7. lost' \subseteq 1 .. c /\ lost \subseteq lost'
    BY <1>0, <2>1
  <2>8. status[p] # "dead" => s \in Elements(typed'[p]) \cup lost'
    BY <2>1, <2>4, <2>5
  <2> QED BY <2>1, <2>4, <2>6, <2>7, <2>8
<1>2. CASE ~Open(p)
  <2>1. Enqueue(p, s) /\ UNCHANGED <<typed, status, faults>>
    BY <1>2 DEF DeliverOrQueue, Hold, NoFault
  <2>2. /\ queue' \in [Panes -> Seq(1 .. c)]
        /\ \A q \in Panes : Len(queue'[q]) <= QueueMax
        /\ lost' \subseteq 1 .. c
        /\ s \in Elements(queue'[p])
        /\ \A q \in Panes : Elements(queue[q]) \cup lost \subseteq Elements(queue'[q]) \cup lost'
    BY <2>1, EnqueueFacts
  <2>3. typed' \in [Panes -> Seq(1 .. c)]
    BY <1>0, <2>1 DEF TypeOK
  <2> QED BY <1>0, <2>1, <2>2, <2>3
<1> QED BY <1>1, <1>2

LEMMA RouteFacts ==
  ASSUME TypeOK, RegisteredWhileAlive, NEW c \in Nat, cursor <= c,
         NEW s \in DOMAIN stream, s \in 1 .. c, RouteEnvelope(s)
  PROVE  /\ queue' \in [Panes -> Seq(1 .. c)] /\ \A q \in Panes : Len(queue'[q]) <= QueueMax
         /\ typed' \in [Panes -> Seq(1 .. c)] /\ status' \in [Panes -> States]
         /\ lost' \subseteq 1 .. c /\ faults' \in Nat
         /\ caller' \in [Reqs -> {"none", "publishing", "waiting"} \cup Settled]
         /\ \A q \in Panes : status'[q] = "dead" <=> status[q] = "dead"
         /\ \A q \in Panes : Elements(typed[q]) \cup Elements(queue[q]) \cup lost
                               \subseteq Elements(typed'[q]) \cup Elements(queue'[q]) \cup lost'
         /\ \A p \in Panes : stream[s].kind # "reply" /\ stream[s].to = p /\ status[p] # "dead" =>
               s \in Elements(typed'[p]) \cup Elements(queue'[p]) \cup lost'
<1>0. stream[s] \in Envelopes
  BY DEF TypeOK
<1>1. /\ stream[s].kind = "reply" => stream[s].corr \in Reqs
      /\ stream[s].kind # "reply" => stream[s].to \in Panes
  BY <1>0, EnvelopeFields
<1>2. CASE NotDelivered /\ (stream[s].kind # "reply" => stream[s].to \notin registered)
  <2>1. UNCHANGED <<queue, typed, status, lost, faults>>
    BY <1>2 DEF NotDelivered, NoFault
  <2>2. cursor \in Nat /\ 1 .. cursor \subseteq 1 .. c
    BY DEF TypeOK
  <2>3. queue' \in [Panes -> Seq(1 .. c)] /\ typed' \in [Panes -> Seq(1 .. c)]
    BY <2>1, <2>2, Widen DEF TypeOK
  <2>4. lost' \subseteq 1 .. c /\ faults' \in Nat
        /\ status' \in [Panes -> States] /\ \A q \in Panes : Len(queue'[q]) <= QueueMax
    BY <2>1, <2>2 DEF TypeOK
  <2>5. caller' \in [Reqs -> {"none", "publishing", "waiting"} \cup Settled]
    BY <1>1, <1>2 DEF RouteEnvelope, InterceptReply, TypeOK, Settled
  <2>6. \A p \in Panes : stream[s].kind # "reply" /\ stream[s].to = p => status[p] = "dead"
    BY <1>2 DEF RegisteredWhileAlive
  <2> QED BY <2>1, <2>3, <2>4, <2>5, <2>6
<1>3. CASE /\ stream[s].kind # "reply" /\ stream[s].to \in registered
           /\ DeliverOrQueue(stream[s].to, s) /\ UNCHANGED caller
  <2>1. caller' \in [Reqs -> {"none", "publishing", "waiting"} \cup Settled]
    BY <1>3 DEF TypeOK
  <2> DEFINE p == stream[s].to
  <2>2. p \in Panes /\ DeliverOrQueue(p, s)
    BY <1>1, <1>3
  <2>3. \A q \in Panes : stream[s].to = q => q = p
    OBVIOUS
  <2> HIDE DEF p
  <2> QED BY <2>1, <2>2, <2>3, DeliverOrQueueFacts
<1> QED BY <1>2, <1>3 DEF RouteEnvelope

-----------------------------------------------------------------------------
(* One lemma for each action that moves messages.                          *)

LEMMA ConsumeInv ==
  ASSUME IInv, Consume
  PROVE  IInv'
<1>1. PICK s \in DOMAIN stream :
        /\ Due(s)
        /\ RouteEnvelope(s)
        /\ cursor' = IF s = cursor + 1 THEN s ELSE cursor
        /\ unacked' = unacked \ {s}
  BY DEF Consume
<1>2. UNCHANGED <<stream, up, waiting, drafting, registered, resent, drafts>>
  BY DEF Consume
<1>3. TypeOK /\ RegisteredWhileAlive /\ AccountedFor
  BY DEF IInv
<1>4. /\ cursor \in Nat /\ cursor' \in Nat /\ cursor <= cursor'
      /\ s \in 1 .. cursor' /\ cursor' \in 0 .. Len(stream)
      /\ 1 .. cursor' = (1 .. cursor) \cup {s}
  BY <1>1, <1>3 DEF TypeOK, Due
<1>5. /\ queue' \in [Panes -> Seq(1 .. cursor')] /\ \A q \in Panes : Len(queue'[q]) <= QueueMax
      /\ typed' \in [Panes -> Seq(1 .. cursor')] /\ status' \in [Panes -> States]
      /\ lost' \subseteq 1 .. cursor' /\ faults' \in Nat
      /\ caller' \in [Reqs -> {"none", "publishing", "waiting"} \cup Settled]
      /\ \A q \in Panes : status'[q] = "dead" <=> status[q] = "dead"
      /\ \A q \in Panes : Elements(typed[q]) \cup Elements(queue[q]) \cup lost
                            \subseteq Elements(typed'[q]) \cup Elements(queue'[q]) \cup lost'
      /\ \A p \in Panes : stream[s].kind # "reply" /\ stream[s].to = p /\ status[p] # "dead" =>
            s \in Elements(typed'[p]) \cup Elements(queue'[p]) \cup lost'
  BY <1>1, <1>3, <1>4, RouteFacts
<1>6. unacked' \subseteq 1 .. cursor' /\ resent' \subseteq 1 .. cursor'
  BY <1>1, <1>2, <1>3, <1>4 DEF TypeOK
<1>7. TypeOK'
  BY <1>2, <1>3, <1>4, <1>5, <1>6 DEF TypeOK
<1>8. RegisteredWhileAlive'
  BY <1>2, <1>3, <1>5 DEF RegisteredWhileAlive
<1>9. AccountedFor'
  <2> SUFFICES ASSUME NEW p \in Panes, status'[p] # "dead", NEW t \in Received(p)'
               PROVE  t \in Elements(typed'[p]) \cup Elements(queue'[p]) \cup lost'
    BY DEF AccountedFor
  <2>1. t \in 1 .. cursor' /\ stream[t].kind # "reply" /\ stream[t].to = p /\ status[p] # "dead"
    BY <1>2, <1>5 DEF Received
  <2>2. CASE t = s
    BY <1>5, <2>1, <2>2
  <2>3. CASE t # s
    <3>1. t \in Received(p)
      BY <1>4, <2>1, <2>3 DEF Received
    <3>2. t \in Elements(typed[p]) \cup Elements(queue[p]) \cup lost
      BY <1>3, <2>1, <3>1 DEF AccountedFor
    <3> QED BY <1>5, <3>2
  <2> QED BY <2>2, <2>3
<1> QED BY <1>7, <1>8, <1>9 DEF IInv

LEMMA TickInv ==
  ASSUME IInv, Tick
  PROVE  IInv'
<1>1. PICK list \in {{p \in Panes : status[p] # "dead"}, {}} :
        LET gone == IF list = {} THEN {} ELSE Panes \ list
            flush == Flushable(gone)
        IN  \E o \in [flush -> Outcomes] :
              /\ Deliver([p \in flush |-> Head(queue[p])], o)
              /\ queue' = [p \in Panes |-> IF p \in gone THEN <<>>
                                           ELSE IF p \in flush THEN Flushed(p, o[p])
                                           ELSE queue[p]]
              /\ resent' = resent \cup {Head(queue[p]) : p \in {q \in flush : o[q] = "late"}}
  BY DEF Tick
<1> DEFINE gone == IF list = {} THEN {} ELSE Panes \ list
           flush == Flushable(gone)
           msg == [p \in flush |-> Head(queue[p])]
<1>2. PICK o \in [flush -> Outcomes] :
        /\ Deliver(msg, o)
        /\ queue' = [p \in Panes |-> IF p \in gone THEN <<>>
                                     ELSE IF p \in flush THEN Flushed(p, o[p])
                                     ELSE queue[p]]
        /\ resent' = resent \cup {Head(queue[p]) : p \in {q \in flush : o[q] = "late"}}
  BY <1>1
<1>3. UNCHANGED <<stream, cursor, unacked, up, caller, waiting, drafting, registered, lost, drafts>>
  BY DEF Tick, broker
<1>4. TypeOK /\ RegisteredWhileAlive /\ AccountedFor /\ cursor \in Nat
  BY DEF IInv, TypeOK
<1>5. \A p \in gone : status[p] = "dead"
  OBVIOUS
<1>6. flush \in SUBSET Panes /\ \A p \in flush : p \notin gone /\ queue[p] # <<>>
  BY DEF Flushable
<1>7. \A p \in Panes : queue[p] \in Seq(1 .. cursor) /\ Len(queue[p]) <= QueueMax
  BY <1>4 DEF TypeOK
<1>8. \A p \in flush : /\ Tail(queue[p]) \in Seq(1 .. cursor)
                       /\ Len(Tail(queue[p])) <= QueueMax
                       /\ Head(queue[p]) \in 1 .. cursor
                       /\ Elements(queue[p]) = {Head(queue[p])} \cup Elements(Tail(queue[p]))
  <2> TAKE p \in flush
  <2>1. /\ Tail(queue[p]) \in Seq(1 .. cursor) /\ Len(Tail(queue[p])) = Len(queue[p]) - 1
        /\ Head(queue[p]) \in 1 .. cursor
        /\ Elements(queue[p]) = {Head(queue[p])} \cup Elements(Tail(queue[p]))
    BY <1>6, <1>7, ElementsTail
  <2>2. QueueMax \in Nat
    BY BoundsAssumption
  <2>3. p \in Panes
    BY <1>6
  <2>4. Len(queue[p]) \in Nat /\ Len(queue[p]) <= QueueMax
    BY <1>7, <2>3
  <2> QED BY <2>1, <2>2, <2>4
<1>9. \A p \in flush : msg[p] = Head(queue[p]) /\ msg[p] \in 1 .. cursor
  BY <1>8
<1> HIDE DEF gone, flush, msg
<1>10. /\ typed' \in [Panes -> Seq(1 .. cursor)]
       /\ status' \in [Panes -> States]
       /\ \A p \in Panes : status'[p] = "dead" <=> status[p] = "dead"
       /\ faults' \in Nat
       /\ \A p \in Panes : Elements(typed[p]) \subseteq Elements(typed'[p])
       /\ \A p \in flush : o[p] # "failed" /\ status[p] # "dead" => msg[p] \in Elements(typed'[p])
  <2>1. TypeOK /\ cursor \in Nat /\ cursor <= cursor
    BY <1>4
  <2>2. flush \in SUBSET Panes /\ \A p \in flush : msg[p] \in 1 .. cursor
    BY <1>6, <1>9
  <2>3. Deliver(msg, o)
    BY <1>2
  <2> QED BY <2>1, <2>2, <2>3, DeliverFacts
<1>11. queue' \in [Panes -> Seq(1 .. cursor)] /\ \A p \in Panes : Len(queue'[p]) <= QueueMax
  <2>1. <<>> \in Seq(1 .. cursor) /\ Len(<<>>) <= QueueMax
    BY BoundsAssumption
  <2>2. \A p \in flush : Flushed(p, o[p]) \in Seq(1 .. cursor) /\ Len(Flushed(p, o[p])) <= QueueMax
    BY <1>6, <1>7, <1>8 DEF Flushed
  <2> QED BY <1>2, <1>7, <2>1, <2>2
<1>12. TypeOK'
  <2>1. resent' \subseteq 1 .. cursor
    BY <1>2, <1>4, <1>8 DEF TypeOK
  <2> QED BY <1>3, <1>4, <1>10, <1>11, <2>1 DEF TypeOK
<1>13. \A p \in Panes : status[p] # "dead" =>
         Elements(typed[p]) \cup Elements(queue[p]) \cup lost
           \subseteq Elements(typed'[p]) \cup Elements(queue'[p]) \cup lost'
  <2> SUFFICES ASSUME NEW p \in Panes, status[p] # "dead"
               PROVE  Elements(queue[p]) \subseteq Elements(typed'[p]) \cup Elements(queue'[p])
    BY <1>3, <1>10
  <2>1. p \notin gone
    BY <1>5
  <2>2. CASE p \in flush
    <3>1. queue'[p] = Flushed(p, o[p])
      BY <1>2, <2>1, <2>2
    <3>2. CASE o[p] # "sent"
      BY <3>1, <3>2 DEF Flushed
    <3>3. CASE o[p] = "sent"
      BY <3>1, <3>3, <1>8, <1>9, <1>10, <2>2 DEF Flushed
    <3> QED BY <3>2, <3>3
  <2>3. CASE p \notin flush
    BY <1>2, <2>1, <2>3
  <2> QED BY <2>2, <2>3
<1>14. RegisteredWhileAlive'
  BY <1>3, <1>4, <1>10 DEF RegisteredWhileAlive
<1>15. AccountedFor'
  BY <1>3, <1>10, <1>12, <1>13, StillAccounted
<1> QED BY <1>12, <1>14, <1>15 DEF IInv

LEMMA RestartInv ==
  ASSUME IInv, Restart
  PROVE  IInv'
<1>1. /\ UNCHANGED <<stream, cursor, unacked, status, waiting, drafting, registered,
                     typed, resent, drafts>>
      /\ up' = FALSE /\ faults' = faults + 1
      /\ queue' = [p \in Panes |-> <<>>]
      /\ lost' = lost \cup UNION {Elements(queue[p]) : p \in Panes}
      /\ caller' = [r \in Reqs |-> IF caller[r] \in {"publishing", "waiting"} THEN "reset"
                                    ELSE caller[r]]
  BY DEF Restart, Fault, broker, agents
<1>2. TypeOK /\ RegisteredWhileAlive
  BY DEF IInv
<1>3. \A p \in Panes : Elements(queue[p]) \subseteq 1 .. cursor
  BY <1>2, ElementsType DEF TypeOK
<1>4. lost' \subseteq 1 .. cursor
  BY <1>1, <1>2, <1>3 DEF TypeOK
<1>5. queue' \in [Panes -> Seq(1 .. cursor)] /\ \A p \in Panes : Len(queue'[p]) <= QueueMax
  BY <1>1, BoundsAssumption
<1>6. caller' \in [Reqs -> {"none", "publishing", "waiting"} \cup Settled]
  BY <1>1, <1>2 DEF TypeOK, Settled
<1>7. TypeOK'
  <2>1. drafts' \in Nat /\ faults' \in Nat /\ up' \in BOOLEAN
    <3>1. drafts \in Nat /\ faults \in Nat
      BY <1>2 DEF TypeOK
    <3>2. drafts' = drafts /\ faults' = faults + 1
      BY <1>1
    <3>3. drafts' \in Nat /\ faults' \in Nat
      BY <3>1, <3>2
    <3>4. up' \in BOOLEAN
      BY <1>1
    <3> QED BY <3>3, <3>4
  <2>2. /\ stream' \in Seq(Envelopes) /\ cursor' \in 0 .. Len(stream')
        /\ unacked' \subseteq 1 .. cursor' /\ resent' \subseteq 1 .. cursor'
        /\ typed' \in [Panes -> Seq(1 .. cursor')]
        /\ status' \in [Panes -> States] /\ waiting' \in [Panes -> States]
        /\ drafting' \subseteq Panes /\ registered' \subseteq Panes
    BY <1>1, <1>2 DEF TypeOK
  <2>3. cursor' = cursor
    BY <1>1
  <2> QED BY <1>4, <1>5, <1>6, <2>1, <2>2, <2>3 DEF TypeOK
<1>8. \A p \in Panes : Elements(queue[p]) \subseteq lost'
  BY <1>1
<1>9. AccountedFor'
  BY <1>1, <1>7, <1>8, StillAccounted
<1> QED BY <1>1, <1>2, <1>7, <1>9 DEF IInv, RegisteredWhileAlive

-----------------------------------------------------------------------------
LEMMA InitInv == Init => IInv
<1> SUFFICES ASSUME Init PROVE IInv
  OBVIOUS
<1>1. TypeOK
  BY BoundsAssumption DEF Init, TypeOK, States
<1>2. AccountedFor
  BY DEF Init, AccountedFor, Received
<1> QED BY <1>1, <1>2 DEF Init, IInv, RegisteredWhileAlive

\* Every step keeps the invariant.
LEMMA StepInv ==
  ASSUME IInv, [Next]_vars
  PROVE  IInv'
<1>0. TypeOK /\ RegisteredWhileAlive
  BY DEF IInv
<1>1. CASE Send
  <2>1. PICK p \in Panes : Publish([kind |-> "msg", to |-> p])
    BY <1>1 DEF Send
  <2>2. [kind |-> "msg", to |-> p] \in Envelopes
    BY DEF Envelopes
  <2>3. UNCHANGED <<up, queue, caller, status, waiting, drafting, registered, typed, lost,
                    resent, drafts, faults>>
    BY <1>1 DEF Send, agents, history
  <2>4. /\ stream' \in Seq(Envelopes) /\ cursor' = cursor /\ unacked' = unacked
        /\ cursor' \in 0 .. Len(stream') /\ RegisteredWhileAlive' /\ (TypeOK' => AccountedFor')
    BY <2>1, <2>2, <2>3, PublishFacts
  <2>5. TypeOK'
    BY <1>0, <2>3, <2>4 DEF TypeOK
  <2> QED BY <2>4, <2>5 DEF IInv
<1>2. ASSUME NEW r \in Reqs, Request(r) PROVE IInv'
  <2>1. UNCHANGED <<up, queue, status, waiting, drafting, registered, typed, lost,
                    resent, drafts, faults>>
    BY <1>2 DEF Request, agents, history
  <2>2. caller' \in [Reqs -> {"none", "publishing", "waiting"} \cup Settled]
    BY <1>0, <1>2 DEF Request, TypeOK, Settled
  <2>3. CASE up
    <3>1. PICK p \in Panes : Publish([kind |-> "request", to |-> p, corr |-> r])
      BY <1>2, <2>3 DEF Request
    <3>2. [kind |-> "request", to |-> p, corr |-> r] \in Envelopes
      BY DEF Envelopes
    <3>3. /\ stream' \in Seq(Envelopes) /\ cursor' = cursor /\ unacked' = unacked
          /\ cursor' \in 0 .. Len(stream') /\ RegisteredWhileAlive' /\ (TypeOK' => AccountedFor')
      BY <2>1, <3>1, <3>2, PublishFacts
    <3>4. TypeOK'
      BY <1>0, <2>1, <2>2, <3>3 DEF TypeOK
    <3> QED BY <3>3, <3>4 DEF IInv
  <2>4. CASE ~up
    <3>1. UNCHANGED <<stream, cursor, unacked>>
      BY <1>2, <2>4 DEF Request, broker
    <3>2. TypeOK'
      BY <1>0, <2>1, <2>2, <3>1 DEF TypeOK
    <3> QED BY <1>0, <2>1, <3>1, <3>2, Unmoved DEF RegisteredWhileAlive
  <2> QED BY <2>3, <2>4
<1>3. ASSUME NEW r \in Reqs, Confirmed(r) \/ Deadline(r) PROVE IInv'
  <2>1. /\ UNCHANGED <<stream, cursor, unacked, up, queue, status, waiting, drafting, registered,
                       typed, lost, resent, drafts>>
        /\ faults' = faults \/ faults' = faults + 1
        /\ \E c \in {"waiting", "error", "timeout"} : caller' = [caller EXCEPT ![r] = c]
    BY <1>3 DEF Confirmed, Deadline, broker, agents, history, Fault, NoFault
  <2>2. TypeOK'
    BY <1>0, <2>1 DEF TypeOK, Settled
  <2> QED BY <1>0, <2>1, <2>2, Unmoved DEF RegisteredWhileAlive
<1>4. ASSUME NEW r \in Reqs, Reply(r) PROVE IInv'
  <2>1. Publish([kind |-> "reply", corr |-> r]) /\ [kind |-> "reply", corr |-> r] \in Envelopes
    BY <1>4 DEF Reply, Envelopes
  <2>2. UNCHANGED <<up, queue, caller, status, waiting, drafting, registered, typed, lost,
                    resent, drafts, faults>>
    BY <1>4 DEF Reply, agents, history
  <2>3. /\ stream' \in Seq(Envelopes) /\ cursor' = cursor /\ unacked' = unacked
        /\ cursor' \in 0 .. Len(stream') /\ RegisteredWhileAlive' /\ (TypeOK' => AccountedFor')
    BY <2>1, <2>2, PublishFacts
  <2>4. TypeOK'
    BY <1>0, <2>2, <2>3 DEF TypeOK
  <2> QED BY <2>3, <2>4 DEF IInv
<1>5. CASE Consume
  BY <1>5, ConsumeInv
<1>6. CASE LoseAck
  <2>1. /\ UNCHANGED <<stream, cursor, up, queue, caller, status, waiting, drafting, registered,
                       typed, lost, drafts>>
        /\ faults' = faults + 1 /\ cursor > 0
        /\ unacked' = unacked \cup {cursor} /\ resent' = resent \cup {cursor}
    BY <1>6 DEF LoseAck, Fault, agents
  <2>2. TypeOK'
    BY <1>0, <2>1 DEF TypeOK
  <2> QED BY <1>0, <2>1, <2>2, Unmoved DEF RegisteredWhileAlive
<1>7. CASE Tick
  BY <1>7, TickInv
<1>8. CASE Restart
  BY <1>8, RestartInv
<1>9. CASE Connect
  <2>1. /\ UNCHANGED <<stream, cursor, unacked, queue, caller, status, waiting, drafting, registered,
                       typed, lost, resent, drafts, faults>>
        /\ up' = TRUE
    BY <1>9 DEF Connect, broker, agents, history
  <2>2. TypeOK'
    BY <1>0, <2>1 DEF TypeOK
  <2> QED BY <1>0, <2>1, <2>2, Unmoved DEF RegisteredWhileAlive
<1>10. ASSUME NEW p \in Panes, FinishTurn(p) \/ EndDraft(p) \/ Die(p) PROVE IInv'
  <2>1. /\ UNCHANGED <<stream, cursor, unacked, up, queue, caller, waiting, registered,
                       typed, lost, resent, drafts>>
        /\ faults' = faults \/ faults' = faults + 1
        /\ drafting' \subseteq drafting
        /\ status' \in [Panes -> States]
        /\ \A q \in Panes : status'[q] # "dead" => status[q] # "dead"
        /\ \A q \in Panes : status[q] = "dead" => status'[q] = "dead"
    BY <1>0, <1>10 DEF FinishTurn, EndDraft, Die, TypeOK, States, broker, history, Fault
  <2>2. TypeOK'
    BY <1>0, <2>1 DEF TypeOK
  <2> QED BY <1>0, <2>1, <2>2, Unmoved DEF RegisteredWhileAlive
<1>11. ASSUME NEW p \in Panes, Record(p) \/ StartDraft(p) \/ Sweep(p) PROVE IInv'
  <2>1. /\ UNCHANGED <<stream, cursor, unacked, up, queue, caller, status,
                       typed, lost, resent, faults>>
        /\ waiting' \in [Panes -> States] /\ drafting' \subseteq Panes
        /\ registered' \subseteq Panes /\ drafts' \in Nat
        /\ \A q \in Panes : q \notin registered' => status[q] = "dead"
    <3>1. CASE Record(p)
      BY <1>0, <3>1 DEF Record, TypeOK, RegisteredWhileAlive, broker, history
    <3>2. CASE StartDraft(p)
      BY <1>0, <3>2 DEF StartDraft, TypeOK, RegisteredWhileAlive, broker, history
    <3>3. CASE Sweep(p)
      BY <1>0, <3>3 DEF Sweep, TypeOK, RegisteredWhileAlive, broker, history
    <3> QED BY <1>11, <3>1, <3>2, <3>3
  <2>2. TypeOK'
    BY <1>0, <2>1 DEF TypeOK
  <2> QED BY <1>0, <2>1, <2>2, Unmoved
<1>12. CASE UNCHANGED vars
  <2>1. UNCHANGED <<stream, cursor, unacked, up, queue, caller, status, waiting, drafting, registered,
                    typed, lost, resent, drafts, faults>>
    BY <1>12 DEF vars, broker, agents, history
  <2>2. TypeOK'
    BY <1>0, <2>1 DEF TypeOK
  <2> QED BY <1>0, <2>1, <2>2, Unmoved DEF RegisteredWhileAlive
<1> QED
  BY <1>1, <1>2, <1>3, <1>4, <1>5, <1>6, <1>7, <1>8, <1>9, <1>10, <1>11, <1>12 DEF Next

-----------------------------------------------------------------------------
THEOREM Invariance == Spec => []IInv
<1> QED BY InitInv, StepInv, PTL DEF Spec

\* Every variable keeps its type, and no queue grows beyond BUS_QUEUE_MAX
\* (index.js 263, 1608-1616).
THEOREM TypeCorrect == Spec => []TypeOK
<1>1. IInv => TypeOK
  BY DEF IInv
<1> QED BY <1>1, Invariance, PTL

\* A message received for a live agent is typed, held or given up in one of
\* three known ways (index.js 1608-1616, 1622-1649, 1704-1714).
THEOREM NothingVanishes == Spec => []AccountedFor
<1>1. IInv => AccountedFor
  BY DEF IInv
<1> QED BY <1>1, Invariance, PTL

\* A caller of POST /request is answered once (index.js 1718-1727, 2186-2193).
THEOREM CallersAnsweredOnce == Spec => CallersSettleOnce
<1>1. ASSUME TypeOK, [Next]_vars
      PROVE  [\A r \in Reqs : caller[r] \in Settled => caller'[r] = caller[r]]_vars
  <2> SUFFICES ASSUME Next, NEW r \in Reqs, caller[r] \in Settled
               PROVE  caller'[r] = caller[r]
    BY <1>1
  <2>0. caller \in [Reqs -> {"none", "publishing", "waiting"} \cup Settled]
        /\ caller[r] \notin {"none", "publishing", "waiting"}
    BY <1>1 DEF TypeOK, Settled
  <2>1. CASE \E q \in Reqs : Request(q) \/ Confirmed(q) \/ Deadline(q)
    BY <2>0, <2>1 DEF Request, Confirmed, Deadline
  <2>2. CASE Consume
    <3>1. PICK s \in DOMAIN stream : RouteEnvelope(s)
      BY <2>2 DEF Consume
    <3>2. UNCHANGED caller \/ InterceptReply(stream[s].corr)
      BY <3>1 DEF RouteEnvelope
    <3> QED BY <2>0, <3>2 DEF InterceptReply
  <2>3. CASE Restart
    BY <2>0, <2>3 DEF Restart
  <2>4. CASE UNCHANGED caller
    BY <2>4
  <2> QED
    BY <2>1, <2>2, <2>3, <2>4
       DEF Next, Send, LoseAck, Tick, Connect, Reply, FinishTurn, Record, StartDraft,
           EndDraft, Die, Sweep
<1> QED BY <1>1, TypeCorrect, PTL DEF Spec, CallersSettleOnce

-----------------------------------------------------------------------------
(* A message comes once.  The bridge copies a message at two places only: *)
(* the handler, which the broker may call again for one whose             *)
(* acknowledgement was lost, and a flush whose script was killed after it  *)
(* had typed.  Both are in resent before the second copy is made.          *)

\* q holds nothing twice but what is in R.
Single(q, R) == \A i, j \in DOMAIN q : q[i] = q[j] => i = j \/ q[i] \in R

\* What was typed and what is held have no copy of each other, but in R.
Apart(t, q, R) ==
  Single(t, R) /\ Single(q, R) /\ Elements(t) \cap Elements(q) \subseteq R

\* The inductive invariant: what the broker has still to redeliver is resent.
OnceInv ==
  /\ unacked \subseteq resent
  /\ \A p \in Panes : Apart(typed[p], queue[p], resent)

LEMMA SingleAppend ==
  ASSUME NEW S, NEW R, NEW q \in Seq(S), NEW x \in S, Single(q, R),
         x \notin Elements(q) \/ x \in R
  PROVE  Single(Append(q, x), R)
<1>1. DOMAIN Append(q, x) = 1 .. (Len(q) + 1) /\ DOMAIN q = 1 .. Len(q) /\ Len(q) \in Nat
  OBVIOUS
<1>2. \A i \in 1 .. Len(q) : Append(q, x)[i] = q[i]
  OBVIOUS
<1>3. Append(q, x)[Len(q) + 1] = x
  OBVIOUS
<1>4. \A i \in 1 .. (Len(q) + 1) : i = Len(q) + 1 \/ i \in 1 .. Len(q)
  BY <1>1
<1>5. \A i \in 1 .. Len(q) : q[i] \in Elements(q)
  BY <1>1 DEF Elements
<1> QED BY <1>1, <1>2, <1>3, <1>4, <1>5 DEF Single

LEMMA SingleTail ==
  ASSUME NEW S, NEW R, NEW q \in Seq(S), q # <<>>, Single(q, R)
  PROVE  /\ Single(Tail(q), R)
         /\ Head(q) \notin Elements(Tail(q)) \/ Head(q) \in R
<1>1. /\ DOMAIN Tail(q) = 1 .. (Len(q) - 1) /\ DOMAIN q = 1 .. Len(q)
      /\ Len(q) \in Nat /\ Len(q) > 0 /\ Head(q) = q[1]
  OBVIOUS
<1>2. \A i \in DOMAIN Tail(q) : Tail(q)[i] = q[i + 1] /\ i + 1 \in DOMAIN q /\ i \in Nat /\ i + 1 # 1
  BY <1>1
<1>3. Single(Tail(q), R)
  <2> SUFFICES ASSUME NEW i \in DOMAIN Tail(q), NEW j \in DOMAIN Tail(q), Tail(q)[i] = Tail(q)[j]
               PROVE  i = j \/ Tail(q)[i] \in R
    BY DEF Single
  <2>1. i + 1 = j + 1 \/ q[i + 1] \in R
    BY <1>2 DEF Single
  <2>2. i \in Nat /\ j \in Nat /\ (i + 1 = j + 1 => i = j)
    BY <1>2
  <2> QED BY <1>2, <2>1, <2>2
<1>4. Head(q) \in Elements(Tail(q)) => Head(q) \in R
  <2> SUFFICES ASSUME NEW i \in DOMAIN Tail(q), Head(q) = Tail(q)[i]
               PROVE  Head(q) \in R
    BY DEF Elements
  <2>1. q[1] = q[i + 1] /\ i + 1 \in DOMAIN q /\ 1 \in DOMAIN q /\ i + 1 # 1
    BY <1>1, <1>2
  <2> QED BY <1>1, <2>1 DEF Single
<1> QED BY <1>3, <1>4

\* The handler types a message, or holds it.
LEMMA ApartAppend ==
  ASSUME NEW S, NEW R, NEW t \in Seq(S), NEW q \in Seq(S), NEW x \in S, Apart(t, q, R),
         x \notin Elements(t) \cup Elements(q) \/ x \in R
  PROVE  Apart(Append(t, x), q, R) /\ Apart(t, Append(q, x), R)
<1>1. Single(Append(t, x), R) /\ Single(Append(q, x), R)
  BY SingleAppend DEF Apart
<1>2. Elements(Append(t, x)) = Elements(t) \cup {x} /\ Elements(Append(q, x)) = Elements(q) \cup {x}
  BY ElementsAppend
<1> QED BY <1>1, <1>2 DEF Apart

\* A queue gives up its oldest message.
LEMMA ApartTail ==
  ASSUME NEW S, NEW R, NEW t \in Seq(S), NEW q \in Seq(S), q # <<>>, Apart(t, q, R)
  PROVE  /\ Apart(t, Tail(q), R) /\ Tail(q) \in Seq(S) /\ Head(q) \in S
         /\ Head(q) \notin Elements(t) \cup Elements(Tail(q)) \/ Head(q) \in R
         /\ Elements(Tail(q)) \subseteq Elements(q)
<1>1. Single(Tail(q), R) /\ (Head(q) \notin Elements(Tail(q)) \/ Head(q) \in R)
  BY SingleTail DEF Apart
<1>2. /\ Tail(q) \in Seq(S) /\ Head(q) \in S
      /\ Elements(q) = {Head(q)} \cup Elements(Tail(q))
  BY ElementsTail
<1> QED BY <1>1, <1>2 DEF Apart

LEMMA ApartMore ==
  ASSUME NEW R, NEW T, R \subseteq T, NEW t, NEW q, Apart(t, q, R)
  PROVE  Apart(t, q, T)
BY DEF Apart, Single

\* The two together, one after the other.
LEMMA ApartTogether ==
  ASSUME NEW S, NEW R, NEW t \in Seq(S), NEW q \in Seq(S), Apart(t, q, R)
  PROVE  Single(t \o q, R)
<1>1. /\ DOMAIN (t \o q) = 1 .. (Len(t) + Len(q)) /\ Len(t) \in Nat /\ Len(q) \in Nat
      /\ DOMAIN t = 1 .. Len(t) /\ DOMAIN q = 1 .. Len(q)
  OBVIOUS
<1>2. \A i \in DOMAIN t : (t \o q)[i] = t[i]
  OBVIOUS
<1>3. \A i \in DOMAIN (t \o q) : i \notin DOMAIN t =>
        i - Len(t) \in DOMAIN q /\ (t \o q)[i] = q[i - Len(t)] /\ i \in Nat
  OBVIOUS
<1> SUFFICES ASSUME NEW i \in DOMAIN (t \o q), NEW j \in DOMAIN (t \o q), (t \o q)[i] = (t \o q)[j]
             PROVE  i = j \/ (t \o q)[i] \in R
  BY DEF Single
<1> DEFINE m == i - Len(t)
           n == j - Len(t)
<1>4. CASE i \in DOMAIN t /\ j \in DOMAIN t
  BY <1>2, <1>4 DEF Apart, Single
<1>5. CASE i \notin DOMAIN t /\ j \notin DOMAIN t
  <2>1. m = n \/ q[m] \in R
    BY <1>3, <1>5 DEF Apart, Single
  <2>2. m = n => i = j
    BY <1>1, <1>3, <1>5
  <2> QED BY <1>3, <1>5, <2>1, <2>2
<1>6. CASE i \in DOMAIN t /\ j \notin DOMAIN t
  <2>1. t[i] = q[n] /\ n \in DOMAIN q
    BY <1>2, <1>3, <1>6
  <2>2. t[i] \in Elements(t) \cap Elements(q)
    BY <1>6, <2>1 DEF Elements
  <2> QED BY <1>2, <1>6, <2>2 DEF Apart
<1>7. CASE i \notin DOMAIN t /\ j \in DOMAIN t
  <2>1. t[j] = q[m] /\ m \in DOMAIN q
    BY <1>2, <1>3, <1>7
  <2>2. t[j] \in Elements(t) \cap Elements(q)
    BY <1>7, <2>1 DEF Elements
  <2> QED BY <1>2, <1>7, <2>2 DEF Apart
<1> QED BY <1>4, <1>5, <1>6, <1>7

\* A received message comes to one pane: new ones are after the cursor, and
\* what comes again is in resent.
LEMMA ConsumeOnce ==
  ASSUME IInv, OnceInv, Consume
  PROVE  OnceInv'
<1>1. PICK s \in DOMAIN stream : Due(s) /\ RouteEnvelope(s) /\ unacked' = unacked \ {s}
  BY DEF Consume
<1>2. UNCHANGED resent
  BY DEF Consume
<1>3. TypeOK /\ cursor \in Nat
  BY DEF IInv, TypeOK
<1>4. unacked' \subseteq resent'
  BY <1>1, <1>2 DEF OnceInv
<1>5. s \in Nat \ {0} /\ stream[s] \in Envelopes
  BY <1>3 DEF TypeOK
<1>6. s \notin 1 .. cursor \/ s \in resent
  BY <1>1, <1>3 DEF Due, OnceInv
<1>7. \A p \in Panes : /\ typed[p] \in Seq(1 .. cursor) /\ queue[p] \in Seq(1 .. cursor)
                       /\ typed[p] \in Seq(Nat) /\ queue[p] \in Seq(Nat)
                       /\ Elements(typed[p]) \cup Elements(queue[p]) \subseteq 1 .. cursor
  <2> TAKE p \in Panes
  <2>1. typed[p] \in Seq(1 .. cursor) /\ queue[p] \in Seq(1 .. cursor)
    BY <1>3 DEF TypeOK
  <2>2. \A q \in Seq(1 .. cursor) : q \in Seq(Nat)
    BY <1>3
  <2> QED BY <2>1, <2>2, ElementsType
<1>8. \A p \in Panes : Apart(typed[p], queue[p], resent)
  BY DEF OnceInv
<1>9. \A p \in Panes : s \notin Elements(typed[p]) \cup Elements(queue[p]) \/ s \in resent
  BY <1>6, <1>7
<1>10. CASE NotDelivered
  BY <1>2, <1>4, <1>8, <1>10 DEF NotDelivered, OnceInv
<1>11. CASE stream[s].kind # "reply" /\ DeliverOrQueue(stream[s].to, s)
  <2>1. PICK p \in Panes : DeliverOrQueue(p, s)
    BY <1>5, <1>11, EnvelopeFields
  <2>2. CASE Open(p)
    <3>1. PICK o \in [{p} -> Outcomes] : Deliver([q \in {p} |-> s], o) /\ UNCHANGED queue
      BY <2>1, <2>2 DEF DeliverOrQueue
    <3>2. \E A \in SUBSET {p} :
            typed' = [q \in Panes |-> IF q \in A THEN Append(typed[q], s) ELSE typed[q]]
      <4> DEFINE A == {q \in {p} : Arrives(q, o[q])}
      <4>1. typed' = [q \in Panes |-> IF q \in A THEN Append(typed[q], [r \in {p} |-> s][q])
                                      ELSE typed[q]]
        BY <3>1 DEF Deliver
      <4>2. \A q \in A : [r \in {p} |-> s][q] = s
        OBVIOUS
      <4>3. A \in SUBSET {p}
        OBVIOUS
      <4> HIDE DEF A
      <4>4. typed' = [q \in Panes |-> IF q \in A THEN Append(typed[q], s) ELSE typed[q]]
        BY <4>1, <4>2
      <4> QED BY <4>3, <4>4
    <3>3. \A q \in Panes : typed'[q] = typed[q] \/ typed'[q] = Append(typed[q], s)
      BY <3>2
    <3>4. \A q \in Panes : Apart(Append(typed[q], s), queue[q], resent)
      BY <1>5, <1>7, <1>8, <1>9, ApartAppend
    <3> QED BY <1>2, <1>4, <1>8, <3>1, <3>3, <3>4 DEF OnceInv
  <2>3. CASE ~Open(p)
    <3>1. Enqueue(p, s) /\ UNCHANGED typed
      BY <2>1, <2>3 DEF DeliverOrQueue, Hold
    <3>2. \A q \in Panes : \/ queue'[q] = queue[q] \/ queue'[q] = Append(queue[q], s)
                           \/ queue[q] # <<>> /\ queue'[q] = Append(Tail(queue[q]), s)
      <4>1. queue \in [Panes -> Seq(1 .. cursor)] /\ QueueMax \in Nat \ {0}
        BY <1>3, BoundsAssumption DEF TypeOK
      <4>2. ~(Len(queue[p]) < QueueMax) => queue[p] # <<>>
        BY <4>1
      <4> QED BY <3>1, <4>1, <4>2 DEF Enqueue
    <3>3. ASSUME NEW q \in Panes
          PROVE  Apart(typed[q], queue'[q], resent)
      <4>1. Apart(typed[q], Append(queue[q], s), resent)
        BY <1>5, <1>7, <1>8, <1>9, ApartAppend
      <4>2. CASE queue[q] # <<>> /\ queue'[q] = Append(Tail(queue[q]), s)
        <5>1. /\ Apart(typed[q], Tail(queue[q]), resent) /\ Tail(queue[q]) \in Seq(Nat)
              /\ Elements(Tail(queue[q])) \subseteq Elements(queue[q])
          BY <1>7, <1>8, <4>2, ApartTail
        <5>2. s \notin Elements(typed[q]) \cup Elements(Tail(queue[q])) \/ s \in resent
          BY <1>9, <5>1
        <5> QED BY <1>5, <1>7, <4>2, <5>1, <5>2, ApartAppend
      <4> QED BY <1>8, <3>2, <4>1, <4>2
    <3> QED BY <1>2, <1>4, <3>1, <3>3 DEF OnceInv
  <2> QED BY <2>2, <2>3
<1> QED BY <1>1, <1>10, <1>11 DEF RouteEnvelope

\* A flush moves a message from the queue, unless its script was killed: then
\* it stays, and is in resent when it was typed.
LEMMA TickOnce ==
  ASSUME IInv, OnceInv, Tick
  PROVE  OnceInv'
<1>1. PICK list \in {{p \in Panes : status[p] # "dead"}, {}} :
        LET gone == IF list = {} THEN {} ELSE Panes \ list
            flush == Flushable(gone)
        IN  \E o \in [flush -> Outcomes] :
              /\ Deliver([p \in flush |-> Head(queue[p])], o)
              /\ queue' = [p \in Panes |-> IF p \in gone THEN <<>>
                                           ELSE IF p \in flush THEN Flushed(p, o[p])
                                           ELSE queue[p]]
              /\ resent' = resent \cup {Head(queue[p]) : p \in {q \in flush : o[q] = "late"}}
  BY DEF Tick
<1> DEFINE gone == IF list = {} THEN {} ELSE Panes \ list
           flush == Flushable(gone)
           msg == [p \in flush |-> Head(queue[p])]
<1>2. PICK o \in [flush -> Outcomes] :
        /\ Deliver(msg, o)
        /\ queue' = [p \in Panes |-> IF p \in gone THEN <<>>
                                     ELSE IF p \in flush THEN Flushed(p, o[p])
                                     ELSE queue[p]]
        /\ resent' = resent \cup {Head(queue[p]) : p \in {q \in flush : o[q] = "late"}}
  BY <1>1
<1>3. UNCHANGED unacked
  BY DEF Tick, broker
<1>4. \A p \in flush : p \notin gone /\ p \in Panes /\ queue[p] # <<>> /\ msg[p] = Head(queue[p])
  BY DEF Flushable
<1>5. typed' = [p \in Panes |-> IF p \in {q \in flush : Arrives(q, o[q])}
                                THEN Append(typed[p], msg[p]) ELSE typed[p]]
  <2>1. DOMAIN o = flush
    OBVIOUS
  <2> QED BY <1>2, <2>1 DEF Deliver
<1> HIDE DEF gone, flush, msg
<1>6. \A p \in Panes : typed[p] \in Seq(1 .. cursor) /\ queue[p] \in Seq(1 .. cursor)
  BY DEF IInv, TypeOK
<1>7. resent \subseteq resent' /\ \A p \in flush : o[p] = "late" => Head(queue[p]) \in resent'
  BY <1>2
<1>8. \A p \in Panes : Apart(typed[p], queue[p], resent')
  BY <1>7, ApartMore DEF OnceInv
<1>9. \A p \in Panes : /\ p \in gone => queue'[p] = <<>>
                       /\ p \in flush => queue'[p] = Flushed(p, o[p])
                       /\ p \notin gone /\ p \notin flush => queue'[p] = queue[p]
  <2>1. queue' = [p \in Panes |-> IF p \in gone THEN <<>>
                                  ELSE IF p \in flush THEN Flushed(p, o[p])
                                  ELSE queue[p]]
    BY <1>2
  <2> QED BY <1>4, <2>1
<1>10. \A p \in Panes :
         \/ typed'[p] = typed[p]
         \/ p \in flush /\ typed'[p] = Append(typed[p], msg[p]) /\ Arrives(p, o[p])
  BY <1>5
<1>11. ASSUME NEW p \in Panes
       PROVE  Apart(typed'[p], queue'[p], resent')
  <2>1. CASE p \in gone
    <3>1. queue'[p] = <<>> /\ typed'[p] = typed[p]
      BY <1>4, <1>9, <1>10, <1>11, <2>1
    <3>2. Single(typed[p], resent') /\ Single(<<>>, resent')
      BY <1>8 DEF Apart, Single
    <3> QED BY <3>1, <3>2, ElementsEmpty DEF Apart
  <2>2. CASE p \in flush
    <3>1. queue'[p] = Flushed(p, o[p])
      BY <1>9, <1>11, <2>2
    <3>2. \/ typed'[p] = typed[p]
          \/ typed'[p] = Append(typed[p], Head(queue[p])) /\ Arrives(p, o[p])
      BY <1>4, <1>10, <1>11, <2>2
    <3>3. /\ Apart(typed[p], Tail(queue[p]), resent') /\ Tail(queue[p]) \in Seq(1 .. cursor)
          /\ Head(queue[p]) \in 1 .. cursor
          /\ \/ Head(queue[p]) \notin Elements(typed[p]) \cup Elements(Tail(queue[p]))
             \/ Head(queue[p]) \in resent'
      <4>1. /\ typed[p] \in Seq(1 .. cursor) /\ queue[p] \in Seq(1 .. cursor)
            /\ queue[p] # <<>> /\ Apart(typed[p], queue[p], resent')
        BY <1>4, <1>6, <1>8, <1>11, <2>2
      <4> QED BY <4>1, ApartTail
    <3>4. CASE o[p] = "sent"
      <4>1. Apart(Append(typed[p], Head(queue[p])), Tail(queue[p]), resent')
        BY <1>6, <3>3, ApartAppend
      <4>2. queue'[p] = Tail(queue[p])
        BY <3>1, <3>4 DEF Flushed
      <4> QED BY <3>2, <3>3, <4>1, <4>2
    <3>5. CASE o[p] # "sent"
      <4>1. queue'[p] = queue[p]
        BY <3>1, <3>5 DEF Flushed
      <4>2. CASE typed'[p] = typed[p]
        BY <1>8, <4>1, <4>2
      <4>3. CASE typed'[p] = Append(typed[p], Head(queue[p])) /\ Arrives(p, o[p])
        <5>1. Head(queue[p]) \in resent'
          BY <1>7, <2>2, <3>5, <4>3 DEF Arrives
        <5>2. Apart(Append(typed[p], Head(queue[p])), queue[p], resent')
          BY <1>6, <1>8, <3>3, <5>1, ApartAppend
        <5> QED BY <4>1, <4>3, <5>2
      <4> QED BY <3>2, <4>2, <4>3
    <3> QED BY <3>4, <3>5
  <2>3. CASE p \notin gone /\ p \notin flush
    <3>1. queue'[p] = queue[p] /\ typed'[p] = typed[p]
      BY <1>9, <1>10, <1>11, <2>3
    <3> QED BY <1>8, <3>1
  <2> QED BY <2>1, <2>2, <2>3
<1> QED BY <1>3, <1>7, <1>11 DEF OnceInv

LEMMA StepOnce ==
  ASSUME IInv, OnceInv, [Next]_vars
  PROVE  OnceInv'
<1>1. CASE Consume
  BY <1>1, ConsumeOnce
<1>2. CASE Tick
  BY <1>2, TickOnce
<1>3. CASE LoseAck
  <2>1. /\ typed' = typed /\ queue' = queue /\ resent \subseteq resent'
        /\ unacked' = unacked \cup {cursor} /\ resent' = resent \cup {cursor}
    BY <1>3 DEF LoseAck
  <2>2. \A p \in Panes : Apart(typed[p], queue[p], resent')
    BY <2>1, ApartMore DEF OnceInv
  <2> QED BY <2>1, <2>2 DEF OnceInv
<1>4. CASE Restart
  <2>1. UNCHANGED <<typed, unacked, resent>> /\ queue' = [p \in Panes |-> <<>>]
    BY <1>4 DEF Restart, broker
  <2>2. \A p \in Panes : Apart(typed[p], <<>>, resent)
    BY ElementsEmpty DEF OnceInv, Apart, Single
  <2> QED BY <2>1, <2>2 DEF OnceInv
<1>5. CASE UNCHANGED <<unacked, queue, typed, resent>>
  BY <1>5 DEF OnceInv
<1>6. \/ Consume \/ Tick \/ LoseAck \/ Restart
      \/ UNCHANGED <<unacked, queue, typed, resent>>
  <2>1. Send \/ Connect => UNCHANGED <<unacked, queue, typed, resent>>
    BY DEF Send, Connect, Publish, broker, history
  <2>2. ASSUME NEW r \in Reqs, Request(r) \/ Confirmed(r) \/ Deadline(r) \/ Reply(r)
        PROVE  UNCHANGED <<unacked, queue, typed, resent>>
    BY <2>2 DEF Request, Confirmed, Deadline, Reply, Publish, broker, history
  <2>3. ASSUME NEW p \in Panes,
               FinishTurn(p) \/ Record(p) \/ StartDraft(p) \/ EndDraft(p) \/ Die(p) \/ Sweep(p)
        PROVE  UNCHANGED <<unacked, queue, typed, resent>>
    BY <2>3 DEF FinishTurn, Record, StartDraft, EndDraft, Die, Sweep, broker, history
  <2>4. UNCHANGED vars => UNCHANGED <<unacked, queue, typed, resent>>
    BY DEF vars, broker, history
  <2> QED BY <2>1, <2>2, <2>3, <2>4 DEF Next
<1> QED BY <1>1, <1>2, <1>3, <1>4, <1>5, <1>6

\* A message is typed into its pane, or held for it, once, unless it came
\* again: its acknowledgement was lost, or the script was killed when it had
\* typed it (index.js 1637-1645, 1706-1711, 2646-2650).
THEOREM MessagesComeOnce == Spec => []ComesOnce
<1>1. Init => OnceInv
  BY ElementsEmpty DEF Init, OnceInv, Apart, Single
<1>2. IInv /\ OnceInv /\ [Next]_vars => OnceInv'
  BY StepOnce
<1>3. ASSUME IInv, OnceInv
      PROVE  ComesOnce
  <2>1. \A p \in Panes : typed[p] \in Seq(1 .. cursor) /\ queue[p] \in Seq(1 .. cursor)
    BY <1>3 DEF IInv, TypeOK
  <2>2. \A p \in Panes : Single(typed[p] \o queue[p], resent)
    BY <1>3, <2>1, ApartTogether DEF OnceInv
  <2> QED BY <2>2 DEF ComesOnce, Single
<1> QED BY <1>1, <1>2, <1>3, Invariance, PTL DEF Spec
=============================================================================
