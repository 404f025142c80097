----------------------------- MODULE ProxyProofs -----------------------------
(***************************************************************************)
(* Theorems about Proxy, for any pool, any set of requests and any number  *)
(* of connections.  The invariant is the type invariant with NeverUpgrades *)
(* and WorkKeepsItsModel, which a shed needs of the model it starts from,  *)
(* and with the fact that a call that was reverted is on the model it asked*)
(* for.  The ceiling has an invariant of its own, CeilingInv, about what is *)
(* owed by the calls in flight.                                            *)
(***************************************************************************)
EXTENDS Proxy, FiniteSetTheorems, TLAPS

\* What the invariants say of one call.
Sound(k) ==
  /\ k \in Calls
  /\ ServedAsAsked(k)
  /\ Class(k.req) = "work" /\ ~IsClassifier(k.req) => k.model = k.req.model
  /\ k.reverted => k.model = k.req.model

Counters ==
  /\ hits \in [Pool -> 0..(Threshold - 1)] /\ cooling \subseteq Pool
  /\ routing \in SUBSET Difficulties
  /\ tally \in [Sessions -> Nat] /\ spent \in [Sessions -> Nat] /\ torn \in [Sessions -> Nat]

IInv ==
  /\ call \in [Slots -> Calls \cup {Idle}]
  /\ \A c \in Slots : Busy(c) => Sound(call[c])
  /\ Counters

USE DEF Classes, MinTier, Difficulties, Phases

-----------------------------------------------------------------------------
(* Which model: what the operators of routing.py return.                   *)

\* A name is found in the pool or not at all, and a candidate is itself.
LEMMA FindType ==
  ASSUME NEW m \in Models
  PROVE  /\ Find(m) \in Pool \cup {NoModel}
         /\ m \in Pool => Find(m) = m
BY PoolAssumption DEF Find

\* What select_model, select_bg_ceiling and select_classifier_model return is
\* what was asked for, or a candidate no dearer than it.
LEMMA SelectedNotDearer ==
  ASSUME NEW m \in Models, NEW d, NEW size, NEW active,
         NEW n \in SelectModel(m, d, active) \cup SelectBgCeiling(m)
                     \cup SelectClassifier(m, size, active)
  PROVE  \/ n = m
         \/ Find(m) \in Pool /\ n \in Pool /\ Cost[n] <= Cost[Find(m)]
<1>1. Find(m) \in Pool \cup {NoModel} /\ Find(BgModel) \in Pool \cup {NoModel}
  BY FindType, PoolAssumption
<1>2. CASE n \in SelectModel(m, d, active)
  BY <1>1, <1>2 DEF SelectModel, Cheapest, NotDearer
<1>3. CASE n \in SelectBgCeiling(m)
  BY <1>1, <1>3, PoolAssumption DEF SelectBgCeiling
<1>4. CASE n \in SelectClassifier(m, size, active)
  BY <1>1, <1>4 DEF SelectClassifier, Cheapest, NotDearer
<1> QED BY <1>2, <1>3, <1>4

\* What shed_model returns is in the pool and cheaper than what it was given.
LEMMA ShedIsCheaper ==
  ASSUME NEW m \in Models, NEW active, NEW n \in ShedModel(m, active)
  PROVE  /\ Find(m) \in Pool /\ n \in Pool
         /\ Cost[n] < Cost[Find(m)]
BY FindType DEF ShedModel, Dearest

\* The model a call starts on is one it may be served by.
LEMMA ServedSound ==
  ASSUME NEW r \in Requests, NEW m \in Served(r)
  PROVE  Sound(Attempt(r, m, 0, FALSE))
<1>1. r.session \in Sessions /\ r.model \in Models /\ Class(r) \in Classes
  BY RequestsAssumption DEF Class
<1>2. CASE Class(r) = "deepseek"
  <2>1. m = DeepSeekModel
    BY <1>2 DEF Served
  <2> QED BY <1>1, <1>2, <2>1, PoolAssumption, BoundsAssumption
        DEF Sound, Calls, ServedAsAsked, Class, Attempt
<1>3. CASE Class(r) # "deepseek"
  <2>1. \/ m = r.model
        \/ Find(r.model) \in Pool /\ m \in Pool /\ Cost[m] <= Cost[Find(r.model)]
    BY <1>1, <1>3, SelectedNotDearer DEF Served
  <2>2. Class(r) = "work" /\ ~IsClassifier(r) => m = r.model
    BY <1>3 DEF Served
  <2>3. m \in Models
    BY <1>1, <2>1, PoolAssumption
  <2> QED BY <1>1, <1>3, <2>1, <2>2, <2>3, BoundsAssumption DEF Sound, Calls, ServedAsAsked, Class, Attempt
<1> QED BY <1>2, <1>3

\* A call that is shed stays sound, is no reverted one, and costs less.
LEMMA ShedSound ==
  ASSUME NEW c \in Slots, call[c] \in Calls, Sound(call[c]), NEW active,
         NEW m \in ShedTarget(c, active)
  PROVE  /\ Sound(Attempt(call[c].req, m, 0, call[c].reverted))
         /\ ~call[c].reverted
         /\ Find(call[c].model) \in Pool /\ Cost[m] < Cost[Find(call[c].model)]
<1> DEFINE k == call[c]
<1>1. MayShed(k.req) /\ ~k.reverted /\ m \in ShedModel(k.model, active)
  BY DEF ShedTarget
<1>2. k.req \in Requests /\ k.model \in Models /\ k.req.model \in Models
  BY RequestsAssumption DEF Calls
<1>3. Find(k.model) \in Pool /\ m \in Pool /\ Cost[m] < Cost[Find(k.model)]
  BY <1>1, <1>2, ShedIsCheaper
<1>4. Class(k.req) # "deepseek" /\ (Class(k.req) = "work" => IsClassifier(k.req))
  BY <1>1 DEF MayShed, IsClassifier
<1>5. Find(k.req.model) \in Pool /\ Cost[m] <= Cost[Find(k.req.model)]
  <2>1. CASE k.model = k.req.model
    BY <1>3, <2>1, PoolAssumption
  <2>2. CASE /\ Find(k.req.model) \in Pool /\ k.model \in Pool
             /\ Cost[k.model] <= Cost[Find(k.req.model)]
    <3>1. Find(k.model) = k.model
      BY <1>2, <2>2, FindType
    <3> QED BY <1>3, <2>2, <3>1, PoolAssumption
  <2> QED BY <1>4, <2>1, <2>2 DEF Sound, ServedAsAsked
<1> DEFINE n == Attempt(k.req, m, 0, k.reverted)
<1>6. n \in Calls /\ n.req = k.req /\ n.model = m /\ n.reverted = k.reverted
  BY <1>2, <1>3, PoolAssumption, BoundsAssumption DEF Calls, Attempt
<1>7. ServedAsAsked(n)
  BY <1>3, <1>4, <1>5, <1>6 DEF ServedAsAsked, Class
<1> HIDE DEF n
<1>8. Sound(n)
  BY <1>1, <1>4, <1>6, <1>7 DEF Sound, Class
<1> QED BY <1>1, <1>3, <1>8 DEF n
-----------------------------------------------------------------------------
(* The invariant is kept.                                                  *)

LEMMA InitInv == Init => IInv
BY BoundsAssumption DEF Init, IInv, Counters, Busy, Idle

\* A call that is not idle is one of Calls, with the parts the record names.
LEMMA BusyCall ==
  ASSUME IInv, NEW c \in Slots, Busy(c)
  PROVE  /\ call[c] \in Calls /\ Sound(call[c])
         /\ call[c].req \in Requests /\ call[c].model \in Models
         /\ call[c].req.model \in Models /\ call[c].req.session \in Sessions
         /\ call[c].tokens \in 0..MaxTurn
         /\ call[c].attempt \in Nat /\ call[c].reverted \in BOOLEAN
BY RequestsAssumption DEF IInv, Busy, Idle, Calls

\* A step that changes one call, to a sound one or to none, keeps them sound.
LEMMA OneCall ==
  ASSUME IInv, NEW c \in Slots, NEW k, call' = [call EXCEPT ![c] = k],
         k = Idle \/ Sound(k), Counters'
  PROVE  IInv'
<1>1. k \in Calls \cup {Idle}
  BY DEF Sound
<1>2. ASSUME NEW d \in Slots, Busy(d)'  PROVE Sound(call'[d])
  BY <1>2 DEF IInv, Busy, Idle
<1>3. call' \in [Slots -> Calls \cup {Idle}]
  BY <1>1 DEF IInv
<1> QED BY <1>2, <1>3 DEF IInv

LEMMA RecordKeeps ==
  ASSUME Counters, NEW m, NEW o, Record(m, o), UNCHANGED <<routing, spending>>
  PROVE  Counters'
BY BoundsAssumption DEF Counters, Record, cooldowns, spending

\* A call goes from one attempt to the next, nearer its end; or is over.
LEMMA FailsStep ==
  ASSUME IInv, NEW c \in Slots, Fails(c)
  PROVE  /\ Counters'
         /\ \/ call' = [call EXCEPT ![c] = Idle]
            \/ \E k \in Calls :
                 /\ call' = [call EXCEPT ![c] = k] /\ Sound(k) /\ NearerItsEnd(k, call[c])
                 /\ call[c].reverted => k.model = call[c].req.model
<1> DEFINE k == call[c]
<1>1. Busy(c) /\ UNCHANGED <<routing, spending>>
  BY DEF Fails
<1>2. PICK o \in Outcomes \ {"ok"} : Retry(c, o) \/ Revert(c, o) \/ Shed(c, o) \/ Surface(c, o)
  BY DEF Fails
<1>3. /\ k \in Calls /\ Sound(k) /\ k.req \in Requests /\ k.model \in Models
      /\ k.req.model \in Models /\ k.attempt \in Nat /\ k.reverted \in BOOLEAN
  BY <1>1, BusyCall
<1>4. Counters
  BY DEF IInv
<1>5. CASE Retry(c, o)
  <2> DEFINE n == Attempt(k.req, k.model, k.attempt + 1, k.reverted)
  <2>1. call' = [call EXCEPT ![c] = n]
    BY <1>5 DEF Retry, IInv
  <2>2. n \in Calls /\ Sound(n)
    BY <1>3, BoundsAssumption DEF Attempt, Calls, Sound, ServedAsAsked, Class
  <2>3. NearerItsEnd(n, k)
    BY <1>3, <1>5, BoundsAssumption DEF Attempt, NearerItsEnd, Retry, Exhausted, Limit
  <2>4. k.reverted => n.model = k.req.model
    BY <1>3 DEF Sound, Attempt
  <2>5. Counters'
    BY <1>1, <1>4, <1>5, RecordKeeps DEF Retry
  <2> QED BY <2>1, <2>2, <2>3, <2>4, <2>5
<1>6. CASE Revert(c, o)
  <2> DEFINE n == Attempt(k.req, k.req.model, 0, TRUE)
  <2>1. call' = [call EXCEPT ![c] = n] /\ ~k.reverted /\ IsClassifier(k.req)
    BY <1>6 DEF Revert, Reverts, IInv
  <2>2. n \in Calls /\ n.req = k.req /\ n.model = k.req.model /\ n.reverted
    BY <1>3, BoundsAssumption DEF Attempt, Calls
  <2>3. Sound(n)
    BY <2>1, <2>2 DEF Sound, ServedAsAsked, IsClassifier, Class
  <2>4. NearerItsEnd(n, k)
    BY <2>1, <2>2 DEF NearerItsEnd
  <2>5. Counters'
    BY <1>1, <1>4, <1>6 DEF Revert, Counters, cooldowns, spending
  <2> QED BY <2>1, <2>2, <2>3, <2>4, <2>5
<1>7. CASE Shed(c, o)
  <2>1. PICK m \in ShedTarget(c, cooling') :
          call' = [call EXCEPT ![c] = Attempt(@.req, m, 0, @.reverted)]
    BY <1>7 DEF Shed
  <2> DEFINE n == Attempt(k.req, m, 0, k.reverted)
  <2>2. call' = [call EXCEPT ![c] = n]
    BY <2>1 DEF IInv
  <2>3. /\ Sound(n) /\ ~k.reverted
        /\ Find(k.model) \in Pool /\ Cost[m] < Cost[Find(k.model)]
    BY <1>3, <2>1, ShedSound
  <2>4. n \in Calls
    BY <2>3 DEF Sound
  <2>5. NearerItsEnd(n, k)
    BY <2>3 DEF NearerItsEnd, Attempt
  <2>6. Counters'
    BY <1>1, <1>4, <1>7, RecordKeeps DEF Shed
  <2> QED BY <2>2, <2>3, <2>4, <2>5, <2>6
<1>8. CASE Surface(c, o)
  BY <1>1, <1>4, <1>8, RecordKeeps DEF Surface
<1> QED BY <1>2, <1>5, <1>6, <1>7, <1>8

\* Every step keeps the invariant.
LEMMA NextInv == IInv /\ [Next]_vars => IInv'
<1> SUFFICES ASSUME IInv, [Next]_vars PROVE IInv'
  OBVIOUS
<1>0. Counters
  BY DEF IInv
<1>1. ASSUME NEW c \in Slots, Arrive(c) PROVE IInv'
  <2>0. PICK r \in Requests : \E m \in Served(r) : call' = [call EXCEPT ![c] = Attempt(r, m, 0, FALSE)]
    BY <1>1 DEF Arrive
  <2>1. PICK m \in Served(r) : call' = [call EXCEPT ![c] = Attempt(r, m, 0, FALSE)]
    BY <2>0
  <2>2. Sound(Attempt(r, m, 0, FALSE))
    BY ServedSound
  <2>3. Counters'
    BY <1>0, <1>1 DEF Arrive, Counters, cooldowns, spending
  <2> QED BY <2>1, <2>2, <2>3, OneCall
<1>2. ASSUME NEW c \in Slots, Fails(c) PROVE IInv'
  BY <1>2, FailsStep, OneCall
<1>3. ASSUME NEW c \in Slots, Busy(c), NEW ph \in Phases, NEW t \in 0..MaxTurn, Counters',
             call' = [call EXCEPT ![c] = Committed(call[c], ph, t)]
      PROVE  IInv'
  <2> DEFINE k == Committed(call[c], ph, t)
  <2>1. /\ k \in Calls /\ k.req = call[c].req /\ k.model = call[c].model
        /\ k.reverted = call[c].reverted
    BY <1>3, BusyCall DEF Committed, Calls
  <2>2. Sound(k)
    BY <1>3, <2>1, BusyCall DEF Sound, ServedAsAsked, Class
  <2> QED BY <1>3, <2>2, OneCall
<1>4. ASSUME NEW c \in Slots, Succeeds(c) PROVE IInv'
  <2>1. PICK t \in Usage[call[c].req.session] :
          /\ call' = [call EXCEPT ![c] =
                        Committed(@, IF @.req.stream THEN "streaming" ELSE "logging", t)]
          /\ spent' = [spent EXCEPT ![call[c].req.session] = @ + t]
    BY <1>4 DEF Succeeds
  <2>2. Busy(c) /\ call[c].req.session \in Sessions
    BY <1>4, BusyCall DEF Succeeds
  <2>3. t \in 0..MaxTurn /\ MaxTurn \in Nat
    BY <2>2, RequestsAssumption, BoundsAssumption
  <2>4. Counters'
    BY <1>0, <1>4, <2>1, <2>2, <2>3 DEF Succeeds, Counters, cooldowns
  <2>5. CASE call[c].req.stream
    <3>1. call' = [call EXCEPT ![c] = Committed(call[c], "streaming", t)]
      BY <2>1, <2>5 DEF IInv
    <3> QED BY <1>3, <2>2, <2>3, <2>4, <3>1
  <2>6. CASE ~call[c].req.stream
    <3>1. call' = [call EXCEPT ![c] = Committed(call[c], "logging", t)]
      BY <2>1, <2>6 DEF IInv
    <3> QED BY <1>3, <2>2, <2>3, <2>4, <3>1
  <2> QED BY <2>5, <2>6
<1>5. ASSUME NEW c \in Slots, StreamEnds(c) PROVE IInv'
  <2>1. call' = [call EXCEPT ![c] = Committed(call[c], "logging", call[c].tokens)] /\ Busy(c)
    BY <1>5 DEF StreamEnds, IInv
  <2>2. Counters'
    BY <1>0, <1>5 DEF StreamEnds, Counters, cooldowns, spending
  <2> QED BY <1>3, <2>1, <2>2, BusyCall
<1>6. ASSUME NEW c \in Slots, StreamTorn(c) PROVE IInv'
  <2>1. Busy(c) /\ call[c].req.session \in Sessions /\ call[c].tokens \in Nat
    BY <1>6, BusyCall, BoundsAssumption DEF StreamTorn
  <2>2. Counters'
    BY <1>0, <1>6, <2>1 DEF StreamTorn, Counters, cooldowns
  <2> QED BY <1>6, <2>2, OneCall DEF StreamTorn
<1>7. ASSUME NEW c \in Slots, LogGeneration(c) \/ LogStream(c) PROVE IInv'
  <2>1. Busy(c) /\ AccountUsage(c)
    BY <1>7 DEF LogGeneration, LogStream
  <2>2. call[c].req.session \in Sessions /\ call[c].tokens \in Nat
    BY <2>1, BusyCall, BoundsAssumption
  <2>3. Counters'
    BY <1>0, <2>1, <2>2 DEF AccountUsage, Counters, cooldowns
  <2> QED BY <2>1, <2>3, OneCall DEF AccountUsage
<1>8. ASSUME NEW m \in Pool, CoolsOff(m) PROVE IInv'
  BY <1>8 DEF CoolsOff, IInv, Counters, Busy, spending
<1>9. CASE SetRouteConfig
  BY <1>9, BoundsAssumption DEF SetRouteConfig, IInv, Counters, Busy, cooldowns, spending
<1>10. CASE Restart
  BY <1>10, BoundsAssumption DEF Restart, IInv, Counters, Busy, Idle
<1>11. CASE UNCHANGED vars
  BY <1>11 DEF vars, cooldowns, spending, IInv, Counters, Busy
<1> QED BY <1>1, <1>2, <1>4, <1>5, <1>6, <1>7, <1>8, <1>9, <1>10, <1>11 DEF Next, Answer

\* In every reachable state each call is sound.
LEMMA Invariant == Spec => []IInv
BY InitInv, NextInv, PTL DEF Spec

-----------------------------------------------------------------------------
(* The theorems.                                                           *)

\* The variables of the proxy keep their types: a model that cools down has
\* no hits left over, and a call's model is one of those named.
THEOREM TypeCorrect == Spec => []TypeOK
<1>1. IInv => TypeOK
  BY DEF IInv, Counters, TypeOK
<1> QED BY <1>1, Invariant, PTL

\* No choice of models by select_model, the bg ceiling, the classifier's
\* selection, sheds and the revert ever serves a call by a dearer model.
THEOREM NoCallUpgraded == Spec => []NeverUpgrades
<1>1. IInv => NeverUpgrades
  BY DEF IInv, NeverUpgrades, Sound
<1> QED BY <1>1, Invariant, PTL

\* The main-loop turns of work sessions are exempt from every downgrade.
THEOREM WorkUntouched == Spec => []WorkKeepsItsModel
<1>1. IInv => WorkKeepsItsModel
  BY DEF IInv, WorkKeepsItsModel, Sound
<1> QED BY <1>1, Invariant, PTL

\* How one call may change while it stays a call: it makes its next attempt,
\* nearer its end, or its answer moves on.
LEMMA CallStep ==
  ASSUME IInv, [Next]_vars, NEW c \in Slots, Busy(c), Busy(c)'
  PROVE  \/ call'[c] = call[c]
         \/ NearerItsEnd(call'[c], call[c])
            /\ (call[c].reverted => call'[c].model = call[c].req.model)
         \/ call'[c].phase # "sent" /\ call'[c].model = call[c].model
<1>0. call \in [Slots -> Calls \cup {Idle}]
  BY DEF IInv
<1>1. ASSUME NEW d \in Slots, Arrive(d) PROVE call'[c] = call[c]
  BY <1>0, <1>1 DEF Arrive
<1>2. ASSUME NEW d \in Slots, Fails(d)
      PROVE  \/ call'[c] = call[c]
             \/ NearerItsEnd(call'[c], call[c])
                /\ (call[c].reverted => call'[c].model = call[c].req.model)
  <2>1. CASE call' = [call EXCEPT ![d] = Idle]
    BY <1>0, <2>1 DEF Busy, Idle
  <2>2. CASE \E k \in Calls :
                 /\ call' = [call EXCEPT ![d] = k] /\ Sound(k) /\ NearerItsEnd(k, call[d])
                 /\ call[d].reverted => k.model = call[d].req.model
    BY <1>0, <2>2
  <2> QED BY <1>2, <2>1, <2>2, FailsStep
<1>3. ASSUME NEW d \in Slots, Succeeds(d) \/ StreamEnds(d)
      PROVE  \/ call'[c] = call[c]
             \/ call'[c].phase # "sent" /\ call'[c].model = call[c].model
  BY <1>0, <1>3 DEF Succeeds, StreamEnds, Committed
<1>4. ASSUME NEW d \in Slots, StreamTorn(d) \/ LogGeneration(d) \/ LogStream(d)
      PROVE  call'[c] = call[c]
  BY <1>0, <1>4 DEF StreamTorn, LogGeneration, LogStream, AccountUsage, Busy, Idle
<1>5. ASSUME NEW m \in Pool, CoolsOff(m) PROVE call'[c] = call[c]
  BY <1>5 DEF CoolsOff
<1>6. CASE SetRouteConfig \/ UNCHANGED vars
  BY <1>6 DEF SetRouteConfig, vars
<1>7. CASE Restart
  BY <1>7 DEF Restart, Busy, Idle
<1> QED BY <1>1, <1>2, <1>3, <1>4, <1>5, <1>6, <1>7 DEF Next, Answer

\* The retries, sheds and the revert of a call come to an end.
THEOREM AttemptsAreFinite == Spec => AttemptsEnd
<1>1. ASSUME IInv, [Next]_vars, NEW c \in Slots, Busy(c), Busy(c)',
             call[c].phase = "sent", call'[c].phase = "sent"
      PROVE  call'[c] = call[c] \/ NearerItsEnd(call'[c], call[c])
  BY <1>1, CallStep
<1>2. IInv /\ [Next]_vars =>
        [\A c \in Slots :
           Busy(c) /\ Busy(c)' /\ call[c].phase = "sent" /\ call'[c].phase = "sent"
             => call'[c] = call[c] \/ NearerItsEnd(call'[c], call[c])]_call
  BY <1>1
<1> QED BY <1>2, Invariant, PTL DEF Spec, AttemptsEnd

\* A classifier call that does not stream is denied by a 400 of the model it
\* asked for only, and after the revert it stays on that model.
THEOREM RefusalsAreItsOwn == Spec => RefusedOnlyByItsOwn
<1>1. ASSUME IInv, NEW c \in Slots, Denies(c), ~call[c].req.stream
      PROVE  call[c].model = call[c].req.model
  <2>1. Busy(c) /\ IsClassifier(call[c].req) /\ ~Reverts(c, "bad")
    BY <1>1 DEF Denies, Surface
  <2>2. CASE call[c].reverted
    BY <1>1, <2>1, <2>2, BusyCall DEF Sound
  <2>3. CASE ~call[c].reverted
    BY <1>1, <2>1, <2>3 DEF Reverts
  <2> QED BY <2>2, <2>3
<1>2. ASSUME IInv, [Next]_vars, NEW c \in Slots, Busy(c), Busy(c)', call[c].reverted
      PROVE  call'[c].model = call[c].req.model
  BY <1>2, CallStep, BusyCall DEF Sound
<1>3. IInv /\ [Next]_vars =>
        [\A c \in Slots :
           /\ Denies(c) /\ ~call[c].req.stream => call[c].model = call[c].req.model
           /\ Busy(c) /\ Busy(c)' /\ call[c].reverted => call'[c].model = call[c].req.model]_call
  BY <1>1, <1>2
<1> QED BY <1>3, Invariant, PTL DEF Spec, RefusedOnlyByItsOwn

-----------------------------------------------------------------------------
(* The ceiling.  What has been charged and not yet tallied is what the calls *)
(* of the session that were answered carry.  It is a sum over the            *)
(* connections, counted as the pairs of a connection and one of its tokens.  *)

Part(k, s) == IF k.phase # "idle" /\ k.req.session = s THEN k.tokens ELSE 0
OwedIn(f, s) == {x \in Slots \X (1..MaxTurn) : x[2] <= Part(f[x[1]], s)}
OfIn(f, s) == {c \in Slots : f[c].phase # "idle" /\ f[c].req.session = s}
Owed(s) == OwedIn(call, s)

\* A session that is let in is under the cap, and each of its calls adds no
\* more than a turn when it is over.
CeilingInv ==
  /\ \A c \in Slots : call[c].phase = "sent" => call[c].tokens = 0
  /\ \A s \in Sessions :
       /\ spent[s] = tally[s] + torn[s] + Cardinality(Owed(s))
       /\ tally[s] <= Cap - 1 + MaxTurn * (Cardinality(Slots) - Cardinality(Of(s)))

\* The sets that are counted are finite, and no call carries more than a turn.
LEMMA OfFinite ==
  ASSUME NEW f, NEW s
  PROVE  /\ IsFiniteSet(OfIn(f, s)) /\ Cardinality(OfIn(f, s)) \in Nat
         /\ Cardinality(Slots) \in Nat /\ Cardinality(OfIn(f, s)) <= Cardinality(Slots)
<1>1. OfIn(f, s) \in SUBSET Slots
  BY DEF OfIn
<1> QED BY <1>1, SlotsAssumption, FS_Subset, FS_CardinalityType

LEMMA OwedFinite ==
  ASSUME NEW f, NEW s
  PROVE  /\ IsFiniteSet(OwedIn(f, s)) /\ Cardinality(OwedIn(f, s)) \in Nat
         /\ Cardinality(OwedIn(f, s)) <= MaxTurn * Cardinality(OfIn(f, s))
<1>1. /\ IsFiniteSet(1..MaxTurn) /\ Cardinality(1..MaxTurn) = MaxTurn
  BY BoundsAssumption, FS_Interval
<1>2. /\ IsFiniteSet(OfIn(f, s) \X (1..MaxTurn))
      /\ Cardinality(OfIn(f, s) \X (1..MaxTurn)) = Cardinality(OfIn(f, s)) * MaxTurn
  BY <1>1, OfFinite, FS_Product
<1>3. OwedIn(f, s) \in SUBSET (OfIn(f, s) \X (1..MaxTurn))
  <2> SUFFICES ASSUME NEW x \in OwedIn(f, s) PROVE x \in OfIn(f, s) \X (1..MaxTurn)
    OBVIOUS
  <2>1. x[1] \in Slots /\ x[2] \in 1..MaxTurn /\ x = <<x[1], x[2]>> /\ x[2] <= Part(f[x[1]], s)
    BY DEF OwedIn
  <2>2. f[x[1]].phase # "idle" /\ f[x[1]].req.session = s
    BY <2>1, BoundsAssumption DEF Part
  <2> QED BY <2>1, <2>2 DEF OfIn
<1>4. Cardinality(OfIn(f, s)) * MaxTurn = MaxTurn * Cardinality(OfIn(f, s))
  BY OfFinite, BoundsAssumption
<1> QED BY <1>2, <1>3, <1>4, FS_Subset, FS_CardinalityType

\* What changes when one connection does.
LEMMA OneConnection ==
  ASSUME NEW f \in [Slots -> Calls \cup {Idle}], NEW c \in Slots, NEW k \in Calls \cup {Idle},
         NEW s
  PROVE  /\ Part(f[c], s) \in 0..MaxTurn /\ Part(k, s) \in 0..MaxTurn
         /\ Cardinality(OwedIn([f EXCEPT ![c] = k], s)) = Cardinality(OwedIn(f, s)) - Part(f[c], s) + Part(k, s)
<1>1. ASSUME NEW h \in [Slots -> Calls \cup {Idle}], \A d \in Slots \ {c} : h[d] = f[d]
      PROVE  /\ Part(h[c], s) \in 0..MaxTurn
             /\ Cardinality(OwedIn(h, s)) =
                  Cardinality({x \in OwedIn(f, s) : x[1] # c}) + Part(h[c], s)
  <2> DEFINE others == {x \in OwedIn(f, s) : x[1] # c}
             own == {c} \X (1..Part(h[c], s))
  <2>1. Part(h[c], s) \in 0..MaxTurn
    <3>1. h[c] = Idle \/ h[c].tokens \in 0..MaxTurn
      BY DEF Calls
    <3> QED BY <3>1, BoundsAssumption DEF Part, Idle
  <2>2. OwedIn(h, s) = others \cup own
    BY <1>1, <2>1, BoundsAssumption DEF OwedIn
  <2>3. others \cap own = {}
    OBVIOUS
  <2>4. IsFiniteSet(others) /\ Cardinality(others) \in Nat
    BY OwedFinite, FS_Subset, FS_CardinalityType
  <2>5. IsFiniteSet(own) /\ Cardinality(own) = Part(h[c], s)
    <3>1. IsFiniteSet({c}) /\ Cardinality({c}) = 1
      BY FS_Singleton
    <3>2. IsFiniteSet(1..Part(h[c], s)) /\ Cardinality(1..Part(h[c], s)) = Part(h[c], s)
      BY <2>1, BoundsAssumption, FS_Interval
    <3>3. IsFiniteSet(own) /\ Cardinality(own) = 1 * Cardinality(1..Part(h[c], s))
      BY <3>1, <3>2, FS_Product
    <3> QED BY <2>1, <3>2, <3>3, BoundsAssumption
  <2> HIDE DEF others, own
  <2>6. Cardinality(OwedIn(h, s)) = Cardinality(others) + Cardinality(own) - Cardinality({})
    BY <2>2, <2>3, <2>4, <2>5, FS_Union
  <2>7. Cardinality(OwedIn(h, s)) = Cardinality(others) + Part(h[c], s)
    BY <2>1, <2>4, <2>5, <2>6, FS_EmptySet, BoundsAssumption
  <2> QED BY <2>1, <2>7 DEF others
<1> DEFINE g == [f EXCEPT ![c] = k]
<1>2. g \in [Slots -> Calls \cup {Idle}] /\ g[c] = k /\ \A d \in Slots \ {c} : g[d] = f[d]
  OBVIOUS
<1> DEFINE others == {x \in OwedIn(f, s) : x[1] # c}
<1>3. Cardinality(others) \in Nat
  BY OwedFinite, FS_Subset, FS_CardinalityType
<1> HIDE DEF others, g
<1>4. /\ Part(f[c], s) \in 0..MaxTurn
      /\ Cardinality(OwedIn(f, s)) = Cardinality(others) + Part(f[c], s)
  BY <1>1 DEF others
<1>5. Part(g[c], s) \in 0..MaxTurn /\ Cardinality(OwedIn(g, s)) = Cardinality(others) + Part(g[c], s)
  BY <1>1, <1>2 DEF others
<1> QED BY <1>2, <1>3, <1>4, <1>5, BoundsAssumption DEF g

LEMMA TimesMonotone ==
  ASSUME NEW m \in Nat, NEW i \in Int, NEW j \in Int, i <= j
  PROVE  m * i <= m * j /\ m * (j + 1) = m * j + m
OBVIOUS

\* When no call of the session begins, the room under its ceiling is kept.
LEMMA RoomKept ==
  ASSUME NEW f, NEW g, NEW s, NEW t \in Nat, OfIn(g, s) \subseteq OfIn(f, s),
         t <= Cap - 1 + MaxTurn * (Cardinality(Slots) - Cardinality(OfIn(f, s)))
  PROVE  t <= Cap - 1 + MaxTurn * (Cardinality(Slots) - Cardinality(OfIn(g, s)))
<1> DEFINE n == Cardinality(Slots) - Cardinality(OfIn(f, s))
           m == Cardinality(Slots) - Cardinality(OfIn(g, s))
<1>1. n \in Int /\ m \in Int /\ n <= m
  BY OfFinite, FS_Subset
<1>2. n * MaxTurn \in Int /\ MaxTurn * n <= MaxTurn * m /\ MaxTurn * n \in Int /\ MaxTurn * m \in Int
  BY <1>1, TimesMonotone, BoundsAssumption
<1>3. t <= Cap - 1 + MaxTurn * n
  OBVIOUS
<1> HIDE DEF n, m
<1>4. t <= Cap - 1 + MaxTurn * m
  BY <1>2, <1>3, BoundsAssumption
<1> QED BY <1>4 DEF m

LEMMA OfIsOfIn == \A s : Of(s) = OfIn(call, s)
BY DEF Of, OfIn, Busy
LEMMA OfIsOfInNext == \A s : Of(s)' = OfIn(call', s)
BY DEF Of, OfIn, Busy

\* A step of one connection that keeps the account and the room under the
\* ceiling keeps both for all sessions.
LEMMA OneConnectionCeiling ==
  ASSUME IInv, CeilingInv, IInv', NEW c \in Slots, NEW k \in Calls \cup {Idle},
         call' = [call EXCEPT ![c] = k], k.phase = "sent" => k.tokens = 0,
         \A s \in Sessions :
           spent'[s] = spent[s] + (tally'[s] - tally[s]) + (torn'[s] - torn[s])
                         - Part(call[c], s) + Part(k, s),
         \A s \in Sessions :
           tally'[s] <= Cap - 1 + MaxTurn * (Cardinality(Slots) - Cardinality(OfIn(call', s)))
  PROVE  CeilingInv'
<1>1. call \in [Slots -> Calls \cup {Idle}]
  BY DEF IInv
<1>2. \A d \in Slots : call'[d].phase = "sent" => call'[d].tokens = 0
  BY <1>1 DEF CeilingInv
<1>3. ASSUME NEW s \in Sessions
      PROVE  spent'[s] = tally'[s] + torn'[s] + Cardinality(OwedIn(call', s))
  <2>1. /\ Part(call[c], s) \in 0..MaxTurn /\ Part(k, s) \in 0..MaxTurn
        /\ Cardinality(OwedIn(call', s)) =
             Cardinality(OwedIn(call, s)) - Part(call[c], s) + Part(k, s)
    BY <1>1, OneConnection
  <2>2. Cardinality(OwedIn(call, s)) \in Nat /\ Cardinality(OwedIn(call', s)) \in Nat
    BY OwedFinite
  <2>3. /\ spent[s] \in Nat /\ tally[s] \in Nat /\ torn[s] \in Nat
        /\ spent'[s] \in Nat /\ tally'[s] \in Nat /\ torn'[s] \in Nat
    BY DEF IInv, Counters
  <2>4. spent[s] = tally[s] + torn[s] + Cardinality(OwedIn(call, s))
    BY DEF CeilingInv, Owed
  <2>5. spent'[s] = spent[s] + (tally'[s] - tally[s]) + (torn'[s] - torn[s])
                      - Part(call[c], s) + Part(k, s)
    OBVIOUS
  <2> QED BY <2>1, <2>2, <2>3, <2>4, <2>5, BoundsAssumption
<1> QED BY <1>2, <1>3, OfIsOfInNext DEF CeilingInv, Owed

\* The same for a step after which the session has no more calls than before.
LEMMA NoNewCallCeiling ==
  ASSUME IInv, CeilingInv, IInv', NEW c \in Slots, Busy(c), NEW k \in Calls \cup {Idle},
         call' = [call EXCEPT ![c] = k], k.phase = "sent" => k.tokens = 0,
         k = Idle \/ k.req = call[c].req, UNCHANGED tally,
         \A s \in Sessions :
           spent'[s] = spent[s] + (torn'[s] - torn[s]) - Part(call[c], s) + Part(k, s)
  PROVE  CeilingInv'
<1>1. call \in [Slots -> Calls \cup {Idle}] /\ \A s \in Sessions : tally[s] \in Nat
  BY DEF IInv, Counters
<1>2. ASSUME NEW s \in Sessions
      PROVE  tally'[s] <= Cap - 1 + MaxTurn * (Cardinality(Slots) - Cardinality(OfIn(call', s)))
  <2>1. OfIn(call', s) \subseteq OfIn(call, s)
    BY <1>1 DEF OfIn, Busy, Idle
  <2>2. tally[s] <= Cap - 1 + MaxTurn * (Cardinality(Slots) - Cardinality(OfIn(call, s)))
    BY OfIsOfIn DEF CeilingInv
  <2> QED BY <1>1, <2>1, <2>2, RoomKept
<1>3. \A s \in Sessions :
        /\ spent[s] \in Nat /\ tally[s] \in Nat /\ torn[s] \in Nat /\ torn'[s] \in Nat
        /\ Part(call[c], s) \in 0..MaxTurn /\ Part(k, s) \in 0..MaxTurn
  BY <1>1, OneConnection DEF IInv, Counters
<1>4. \A s \in Sessions :
        spent'[s] = spent[s] + (tally'[s] - tally[s]) + (torn'[s] - torn[s])
                      - Part(call[c], s) + Part(k, s)
  BY <1>3, BoundsAssumption
<1> QED BY <1>2, <1>4, OneConnectionCeiling

\* Every step keeps the account.
LEMMA CeilingNext == IInv /\ IInv' /\ CeilingInv /\ [Next]_vars => CeilingInv'
<1> SUFFICES ASSUME IInv, IInv', CeilingInv, [Next]_vars PROVE CeilingInv'
  OBVIOUS
<1>0. /\ call \in [Slots -> Calls \cup {Idle}] /\ Counters
      /\ tally \in [Sessions -> Nat] /\ spent \in [Sessions -> Nat] /\ torn \in [Sessions -> Nat]
  BY DEF IInv, Counters
<1>1. ASSUME NEW c \in Slots, Arrive(c) PROVE CeilingInv'
  <2>1. PICK r \in Requests : \E m \in Served(r) :
          /\ ~Breached(r.session)
          /\ call' = [call EXCEPT ![c] = Attempt(r, m, 0, FALSE)]
    BY <1>1 DEF Arrive
  <2>2. PICK m \in Served(r) : call' = [call EXCEPT ![c] = Attempt(r, m, 0, FALSE)]
    BY <2>1
  <2> DEFINE k == Attempt(r, m, 0, FALSE)
  <2>3. k \in Calls /\ k.req = r /\ k.phase = "sent" /\ k.tokens = 0
    BY ServedSound DEF Sound, Attempt
  <2>4. call[c].phase = "idle"
    BY <1>1 DEF Arrive, Busy
  <2>5. ASSUME NEW s \in Sessions PROVE Part(call[c], s) = 0 /\ Part(k, s) = 0
    BY <2>3, <2>4 DEF Part
  <2>6. UNCHANGED <<tally, spent, torn>>
    BY <1>1 DEF Arrive, spending
  <2> HIDE DEF k
  <2>7. ASSUME NEW s \in Sessions
        PROVE  tally'[s] <= Cap - 1 + MaxTurn * (Cardinality(Slots) - Cardinality(OfIn(call', s)))
    <3>1. CASE r.session = s
      <4>1. tally[s] \in Nat /\ tally[s] <= Cap - 1
        BY <1>0, <2>1, <3>1, BoundsAssumption DEF Breached
      <4> DEFINE n == Cardinality(Slots) - Cardinality(OfIn(call', s))
      <4>2. n \in Int /\ 0 <= n
        BY OfFinite
      <4> HIDE DEF n
      <4>3. MaxTurn * n \in Int /\ 0 <= MaxTurn * n
        BY <4>2, TimesMonotone, BoundsAssumption
      <4>4. tally[s] <= Cap - 1 + MaxTurn * n
        BY <4>1, <4>3, BoundsAssumption
      <4> QED BY <2>6, <4>4 DEF n
    <3>2. CASE r.session # s
      <4>1. OfIn(call', s) \subseteq OfIn(call, s)
        BY <1>0, <2>2, <2>3, <3>2 DEF OfIn, k
      <4>2. tally[s] <= Cap - 1 + MaxTurn * (Cardinality(Slots) - Cardinality(OfIn(call, s)))
        BY OfIsOfIn DEF CeilingInv
      <4> QED BY <1>0, <2>6, <4>1, <4>2, RoomKept
    <3> QED BY <3>1, <3>2
  <2>8. \A s \in Sessions :
          spent'[s] = spent[s] + (tally'[s] - tally[s]) + (torn'[s] - torn[s])
                        - Part(call[c], s) + Part(k, s)
    BY <1>0, <2>5, <2>6
  <2>9. call' = [call EXCEPT ![c] = k]
    BY <2>2 DEF k
  <2> QED BY <2>3, <2>7, <2>8, <2>9, OneConnectionCeiling
<1>2. ASSUME NEW c \in Slots, Fails(c) PROVE CeilingInv'
  <2>1. /\ Busy(c) /\ call[c].phase = "sent" /\ UNCHANGED <<tally, spent, torn>>
        /\ \E o \in Outcomes \ {"ok"} : Retry(c, o) \/ Revert(c, o) \/ Shed(c, o) \/ Surface(c, o)
    BY <1>2 DEF Fails, spending
  <2>2. \E k : /\ call' = [call EXCEPT ![c] = k]
               /\ k = Idle \/ \E m, n, b : k = Attempt(call[c].req, m, n, b)
    <3>1. call[c] \in Calls /\ Sound(call[c]) /\ call[c].model \in Models /\ call[c].attempt \in Nat
            /\ call[c].reverted \in BOOLEAN /\ call[c].req.model \in Models
      BY <2>1, BusyCall
    <3>2. PICK o \in Outcomes \ {"ok"} : Retry(c, o) \/ Revert(c, o) \/ Shed(c, o) \/ Surface(c, o)
      BY <2>1
    <3>3. CASE Retry(c, o)
      <4> DEFINE n == call[c].attempt + 1
      <4>1. call' = [call EXCEPT ![c] = Attempt(call[c].req, call[c].model, n, call[c].reverted)]
        BY <1>0, <3>3 DEF Retry
      <4> HIDE DEF n
      <4> QED BY <4>1
    <3>4. CASE Revert(c, o)
      <4>1. call' = [call EXCEPT ![c] = Attempt(call[c].req, call[c].req.model, 0, TRUE)]
        BY <1>0, <3>4 DEF Revert
      <4> QED BY <4>1
    <3>5. CASE Shed(c, o)
      <4>1. PICK m \in ShedTarget(c, cooling') :
              call' = [call EXCEPT ![c] = Attempt(@.req, m, 0, @.reverted)]
        BY <3>5 DEF Shed
      <4>2. Sound(Attempt(call[c].req, m, 0, call[c].reverted))
        BY <3>1, <4>1, ShedSound
      <4>3. m \in Models
        BY <4>2 DEF Sound, Calls, Attempt
      <4> QED BY <1>0, <3>1, <4>1, <4>3
    <3>6. CASE Surface(c, o)
      BY <3>6 DEF Surface
    <3> QED BY <3>2, <3>3, <3>4, <3>5, <3>6
  <2>3. PICK k : /\ call' = [call EXCEPT ![c] = k]
                 /\ k = Idle \/ \E m, n, b : k = Attempt(call[c].req, m, n, b)
    BY <2>2
  <2>4. k \in Calls \cup {Idle} /\ call'[c] = k
    BY <1>0, <2>3 DEF IInv
  <2>5. (k.phase = "sent" => k.tokens = 0) /\ (k = Idle \/ k.req = call[c].req)
    BY <2>3 DEF Attempt, Idle
  <2>6. \A s \in Sessions : Part(call[c], s) = 0 /\ Part(k, s) = 0
    BY <2>1, <2>3 DEF CeilingInv, Part, Attempt, Idle
  <2>7. \A s \in Sessions :
           spent'[s] = spent[s] + (torn'[s] - torn[s]) - Part(call[c], s) + Part(k, s)
    BY <1>0, <2>1, <2>6
  <2> QED BY <2>1, <2>3, <2>4, <2>5, <2>7, NoNewCallCeiling
<1>3. ASSUME NEW c \in Slots, Succeeds(c) PROVE CeilingInv'
  <2>1. PICK t \in Usage[call[c].req.session] :
          /\ call' = [call EXCEPT ![c] =
                        Committed(@, IF @.req.stream THEN "streaming" ELSE "logging", t)]
          /\ spent' = [spent EXCEPT ![call[c].req.session] = @ + t]
    BY <1>3 DEF Succeeds
  <2>2. Busy(c) /\ call[c].phase = "sent" /\ call[c].req.session \in Sessions /\ UNCHANGED <<tally, torn>>
    BY <1>3, BusyCall DEF Succeeds
  <2>3. t \in Nat
    BY <2>2, RequestsAssumption, BoundsAssumption
  <2> DEFINE k == Committed(call[c], IF call[c].req.stream THEN "streaming" ELSE "logging", t)
  <2>4. call' = [call EXCEPT ![c] = k] /\ call'[c] = k
    BY <1>0, <2>1
  <2>5. k.phase # "sent" /\ k.phase # "idle" /\ k.req = call[c].req /\ k.tokens = t
    BY DEF Committed
  <2>6. k \in Calls \cup {Idle}
    BY <2>4 DEF IInv
  <2> HIDE DEF k
  <2>7. \A s \in Sessions : /\ Part(call[c], s) = 0
                            /\ Part(k, s) = IF s = call[c].req.session THEN t ELSE 0
    BY <2>2, <2>5 DEF CeilingInv, Part
  <2>8. \A s \in Sessions :
           spent'[s] = spent[s] + (torn'[s] - torn[s]) - Part(call[c], s) + Part(k, s)
    BY <1>0, <2>1, <2>2, <2>3, <2>7
  <2> QED BY <2>2, <2>4, <2>5, <2>6, <2>8, NoNewCallCeiling
<1>4. ASSUME NEW c \in Slots, StreamEnds(c) PROVE CeilingInv'
  <2> DEFINE k == Committed(call[c], "logging", call[c].tokens)
  <2>1. /\ Busy(c) /\ call' = [call EXCEPT ![c] = k] /\ call'[c] = k /\ UNCHANGED <<tally, spent, torn>>
    BY <1>0, <1>4 DEF StreamEnds, spending
  <2>2. k.phase = "logging" /\ k.req = call[c].req /\ k.tokens = call[c].tokens
    BY DEF Committed
  <2>3. k \in Calls \cup {Idle}
    BY <2>1 DEF IInv
  <2> HIDE DEF k
  <2>4. \A s \in Sessions : Part(k, s) = Part(call[c], s) /\ Part(k, s) \in 0..MaxTurn
    BY <1>0, <2>1, <2>2, <2>3, OneConnection DEF Part, Busy
  <2>5. \A s \in Sessions :
           spent'[s] = spent[s] + (torn'[s] - torn[s]) - Part(call[c], s) + Part(k, s)
    BY <1>0, <2>1, <2>4, BoundsAssumption
  <2> QED BY <2>1, <2>2, <2>3, <2>5, NoNewCallCeiling
<1>5. ASSUME NEW c \in Slots, StreamTorn(c) PROVE CeilingInv'
  <2>1. /\ Busy(c) /\ call' = [call EXCEPT ![c] = Idle] /\ UNCHANGED <<tally, spent>>
        /\ torn' = [torn EXCEPT ![call[c].req.session] = @ + call[c].tokens]
    BY <1>5 DEF StreamTorn
  <2>2. call[c].req.session \in Sessions /\ call[c].tokens \in Nat
    BY <2>1, BusyCall, BoundsAssumption
  <2>3. \A s \in Sessions : /\ Part(Idle, s) = 0
                            /\ Part(call[c], s) =
                                 IF s = call[c].req.session THEN call[c].tokens ELSE 0
    BY <2>1 DEF Part, Idle, Busy
  <2>4. \A s \in Sessions :
           spent'[s] = spent[s] + (torn'[s] - torn[s]) - Part(call[c], s) + Part(Idle, s)
    BY <1>0, <2>1, <2>2, <2>3
  <2>5. Idle.phase # "sent"
    BY DEF Idle
  <2> QED BY <2>1, <2>4, <2>5, NoNewCallCeiling
<1>6. ASSUME NEW c \in Slots, LogGeneration(c) \/ LogStream(c) PROVE CeilingInv'
  <2> DEFINE o == call[c].req.session
  <2>1. /\ Busy(c) /\ call' = [call EXCEPT ![c] = Idle] /\ UNCHANGED <<spent, torn>>
        /\ tally' = [tally EXCEPT ![o] = @ + call[c].tokens]
    BY <1>6 DEF LogGeneration, LogStream, AccountUsage
  <2>2. o \in Sessions /\ call[c].tokens \in 0..MaxTurn
    BY <2>1, BusyCall
  <2> HIDE DEF o
  <2>3. \A s \in Sessions : /\ Part(Idle, s) = 0
                            /\ Part(call[c], s) = IF s = o THEN call[c].tokens ELSE 0
    BY <2>1 DEF Part, Idle, Busy, o
  <2>4. \A s \in Sessions :
          spent'[s] = spent[s] + (tally'[s] - tally[s]) + (torn'[s] - torn[s])
                        - Part(call[c], s) + Part(Idle, s)
    BY <1>0, <2>1, <2>2, <2>3, BoundsAssumption
  <2>5. ASSUME NEW s \in Sessions
        PROVE  tally'[s] <= Cap - 1 + MaxTurn * (Cardinality(Slots) - Cardinality(OfIn(call', s)))
    <3>1. tally[s] <= Cap - 1 + MaxTurn * (Cardinality(Slots) - Cardinality(OfIn(call, s)))
      BY OfIsOfIn DEF CeilingInv
    <3>2. OfIn(call', s) = OfIn(call, s) \ {c}
      BY <1>0, <2>1 DEF OfIn, Idle
    <3>3. CASE s # o
      <4>1. OfIn(call', s) \subseteq OfIn(call, s) /\ tally'[s] = tally[s]
        BY <1>0, <2>1, <3>2, <3>3
      <4> QED BY <1>0, <3>1, <4>1, RoomKept
    <3>4. CASE s = o
      <4> DEFINE n == Cardinality(Slots) - Cardinality(OfIn(call, s))
                 m == Cardinality(Slots) - Cardinality(OfIn(call', s))
      <4>1. c \in OfIn(call, s)
        BY <2>1, <3>4 DEF OfIn, Busy, o
      <4>2. Cardinality(OfIn(call', s)) = Cardinality(OfIn(call, s)) - 1
        BY <3>2, <4>1, OfFinite, FS_RemoveElement
      <4>3. n \in Int /\ m = n + 1
        BY <4>2, OfFinite
      <4>4. tally'[s] = tally[s] + call[c].tokens /\ tally[s] \in Nat
        BY <1>0, <2>1, <3>4
      <4> HIDE DEF n, m
      <4>5. MaxTurn * m = MaxTurn * n + MaxTurn /\ MaxTurn * n \in Int
        BY <4>3, TimesMonotone, BoundsAssumption
      <4>6. tally[s] <= Cap - 1 + MaxTurn * n
        BY <3>1 DEF n
      <4>7. tally'[s] <= Cap - 1 + MaxTurn * m
        BY <2>2, <4>4, <4>5, <4>6, BoundsAssumption
      <4> QED BY <4>7 DEF m
    <3> QED BY <3>3, <3>4
  <2>6. Idle.phase # "sent"
    BY DEF Idle
  <2> QED BY <2>1, <2>4, <2>5, <2>6, OneConnectionCeiling
<1>7. CASE Restart
  <2>1. \A d \in Slots : call'[d] = Idle
    BY <1>7 DEF Restart
  <2>2. \A s : OwedIn(call', s) = {} /\ OfIn(call', s) = {}
    BY <2>1, BoundsAssumption DEF OwedIn, OfIn, Part, Idle
  <2>3. \A s : Cardinality(OwedIn(call', s)) = 0 /\ Cardinality(OfIn(call', s)) = 0
    BY <2>2, FS_EmptySet
  <2>4. Cardinality(Slots) \in Nat /\ 0 <= MaxTurn * Cardinality(Slots)
    BY OfFinite, TimesMonotone, BoundsAssumption
  <2>5. \A s \in Sessions : tally'[s] = 0 /\ spent'[s] = 0 /\ torn'[s] = 0
    BY <1>7 DEF Restart
  <2>6. MaxTurn * Cardinality(Slots) \in Int /\ Cardinality(Slots) - 0 = Cardinality(Slots)
    BY <2>4, BoundsAssumption
  <2>7. \A s \in Sessions :
          /\ spent'[s] = tally'[s] + torn'[s] + Cardinality(OwedIn(call', s))
          /\ tally'[s] <= Cap - 1 + MaxTurn * (Cardinality(Slots) - Cardinality(OfIn(call', s)))
    BY <2>3, <2>4, <2>5, <2>6, BoundsAssumption
  <2> QED BY <2>1, <2>7, OfIsOfInNext DEF CeilingInv, Owed, Idle
<1>8. CASE UNCHANGED <<call, tally, spent, torn>>
  BY <1>8, OfIsOfIn, OfIsOfInNext DEF CeilingInv, Owed
<1> QED BY <1>1, <1>2, <1>3, <1>4, <1>5, <1>6, <1>7, <1>8
      DEF Next, Answer, CoolsOff, SetRouteConfig, vars, spending

LEMMA CeilingInit == Init => CeilingInv
<1> SUFFICES ASSUME Init PROVE CeilingInv
  OBVIOUS
<1>1. \A d \in Slots : call[d] = Idle
  BY DEF Init
<1>2. \A s : OwedIn(call, s) = {} /\ Of(s) = {}
  BY <1>1, BoundsAssumption DEF OwedIn, Of, Busy, Part, Idle
<1>3. \A s : Cardinality(Owed(s)) = 0 /\ Cardinality(Of(s)) = 0
  BY <1>2, FS_EmptySet DEF Owed
<1>4. Cardinality(Slots) \in Nat /\ 0 <= MaxTurn * Cardinality(Slots)
  BY OfFinite, TimesMonotone, BoundsAssumption
<1>5. MaxTurn * Cardinality(Slots) \in Int /\ Cardinality(Slots) - 0 = Cardinality(Slots)
  BY <1>4, BoundsAssumption
<1> QED BY <1>1, <1>3, <1>4, <1>5, BoundsAssumption DEF Init, CeilingInv, Idle

\* The ceiling stops a session at its next turn: what it is charged beyond the
\* cap is a turn of each connection, and nothing is owed when none is busy.
THEOREM CeilingHolds == Spec => []CeilingStops
<1>1. ASSUME IInv, CeilingInv, NEW s \in Sessions
      PROVE  /\ spent[s] - torn[s] <= Cap - 1 + MaxTurn * Cardinality(Slots)
             /\ Of(s) = {} => tally[s] = spent[s] - torn[s]
  <2> DEFINE N == Cardinality(Slots)
             n == Cardinality(Of(s))
             owed == Cardinality(Owed(s))
  <2>1. /\ spent[s] = tally[s] + torn[s] + owed /\ tally[s] <= Cap - 1 + MaxTurn * (N - n)
        /\ spent[s] \in Nat /\ tally[s] \in Nat /\ torn[s] \in Nat
    BY <1>1 DEF CeilingInv, IInv, Counters
  <2>2. N \in Nat /\ n \in Nat /\ owed \in Nat /\ owed <= MaxTurn * n
    BY OfFinite, OwedFinite, OfIsOfIn DEF Owed
  <2>3. Of(s) = {} => n = 0
    BY FS_EmptySet
  <2> HIDE DEF N, n, owed
  <2>4. MaxTurn * (N - n) = MaxTurn * N - MaxTurn * n /\ MaxTurn * N \in Int /\ MaxTurn * n \in Int
    BY <2>2, BoundsAssumption
  <2>5. n = 0 => MaxTurn * n = 0
    BY BoundsAssumption
  <2>6. spent[s] - torn[s] <= Cap - 1 + MaxTurn * N /\ (n = 0 => tally[s] = spent[s] - torn[s])
    BY <2>1, <2>2, <2>4, <2>5, BoundsAssumption
  <2> QED BY <2>3, <2>6 DEF N
<1>2. IInv /\ CeilingInv => CeilingStops
  BY <1>1 DEF CeilingStops
<1> QED BY <1>2, CeilingInit, CeilingNext, Invariant, PTL DEF Spec
=============================================================================
