-------------------------------- MODULE Proxy --------------------------------
(***************************************************************************)
(* The nexus-proxy (proxy/main.py, proxy/routing.py): every agent's calls  *)
(* of /v1/messages go through it.  It refuses a session over its ceiling,  *)
(* decides which model serves a call, sends it to the one upstream of the  *)
(* session's class, retries and sheds down the size ladder, and adds what  *)
(* a completed turn used to the session's tally.                           *)
(*                                                                         *)
(* A call is a member of Requests: its session, whether it carries the     *)
(* marker of a permission classification, whether it streams, the model it *)
(* asks for, the size of its transcript and its difficulty.  What          *)
(* classify_difficulty and is_classifier_request compute from the bytes is *)
(* part of the request; the dollar ceiling (only with a price table, which *)
(* the image does not have) and the Langfuse trace are left out.  The      *)
(* upstream, the clients and the clock of the cooldowns are the            *)
(* environment.                                                            *)
(***************************************************************************)
EXTENDS Integers, FiniteSets

CONSTANTS
  Slots,             \* the connections of the clients: one call at a time on each
  Sessions, ClassOf, \* "work", "deepseek" (ds-, when enabled), "bg" or "personal"
  Requests,          \* the calls the clients make
  Models,            \* the names of models: the pool's and those requested
  Pool,              \* the candidates of routing.load_pool
  Tier, Cost,        \* of a candidate: TIER_RANK 0..2 and the relative price
  Resolve,           \* the tier keyword of any other name, as a pool entry
  NoModel,
  Window,            \* TIER_CONTEXT
  Floor,             \* ROUTE_CLASSIFIER_TIER
  DeepSeekModel, BgModel,  \* DEEPSEEK_MODEL, BG_CEILING_MODEL
  ClassifierWork,    \* ROUTE_CLASSIFIER_WORK
  MaxRetries, ClassifierMaxRetries,
  Threshold,         \* ROUTE_429_SHED_THRESHOLD
  Configs,           \* what an operator sets ROUTE_DOWNGRADE_TIERS to
  Cap,               \* NEXUS_SESSION_CEILING_TOKENS
  Usage,             \* the tokens a turn of a session may use
  MaxTurn,           \* the most of them
  MaxTorn            \* bound: the tokens of a session's streams that break off

Classes == {"work", "deepseek", "bg", "personal"}
MinTier == [trivial |-> 0, normal |-> 1, hard |-> 2]
Difficulties == DOMAIN MinTier

ASSUME SlotsAssumption == IsFiniteSet(Slots)
ASSUME BoundsAssumption ==
  /\ MaxRetries \in Nat /\ ClassifierMaxRetries \in Nat /\ Threshold \in Nat \ {0}
  /\ Configs \subseteq SUBSET Difficulties
  /\ Cap \in Nat \ {0} /\ MaxTurn \in Nat \ {0} /\ MaxTorn \in Nat
ASSUME PoolAssumption ==
  /\ Pool \subseteq Models /\ NoModel \notin Models /\ DeepSeekModel \in Models \ Pool
  /\ Tier \in [Pool -> 0..2] /\ Cost \in [Pool -> Nat]
  /\ Resolve \in [Models -> Pool \cup {NoModel}]
  /\ Window \in [0..2 -> Nat] /\ Floor \in 0..2 /\ BgModel \in Models
  /\ ClassifierWork \in BOOLEAN
ASSUME RequestsAssumption ==
  /\ ClassOf \in [Sessions -> Classes] /\ Usage \in [Sessions -> SUBSET (0..MaxTurn)]
  /\ Requests \subseteq [session : Sessions, marker : BOOLEAN, stream : BOOLEAN,
                         model : Models, size : Nat, difficulty : Difficulties]

VARIABLES
  call,     \* what each connection's request has come to
  hits,     \* Cooldowns._hits: the transient failures of a model
  cooling,  \* the models Cooldowns.active returns
  routing,  \* ROUTE_DOWNGRADE_TIERS while ROUTE_ENABLED, else nothing
  tally,    \* _SESSION_SPEND
  spent,    \* history: what the upstream charged since the proxy started
  torn      \* history: the part of it in streams that broke off

cooldowns == <<hits, cooling>>
spending == <<tally, spent, torn>>
vars == <<call, cooldowns, routing, spending>>

Phases == {"sent", "streaming", "logging"}
Outcomes == {"ok", "bad", "throttled", "overloaded", "unreachable"}
Idle == [phase |-> "idle"]
Calls ==
  [phase : Phases, req : Requests, model : Models, attempt : Nat, reverted : BOOLEAN,
   tokens : 0..MaxTurn]

\* A call that waits for the upstream's answer to its next attempt.
Attempt(r, m, n, rev) ==
  [phase |-> "sent", req |-> r, model |-> m, attempt |-> n, reverted |-> rev, tokens |-> 0]
\* A call committed to the attempt that a 200 answered.
Committed(k, phase, t) ==
  [phase |-> phase, req |-> k.req, model |-> k.model, attempt |-> k.attempt,
   reverted |-> k.reverted, tokens |-> t]

Busy(c) == call[c].phase # "idle"
Class(r) == ClassOf[r.session]

-----------------------------------------------------------------------------
(* routing.py: which model.                                                *)

\* _find: the exact entry, else the one of the tier the name mentions.
Find(m) == IF m \in Pool THEN m ELSE Resolve[m]

\* The first of the pool among equals: which one that is, is left open.
Cheapest(S) ==
  {m \in S : \A n \in S : Cost[m] < Cost[n] \/ (Cost[m] = Cost[n] /\ Tier[m] <= Tier[n])}
Dearest(S) == {m \in S : \A n \in S : Cost[n] <= Cost[m]}

\* (bug: the price of what was asked for is not looked at)
NotDearer_AnyPrice(req) == Pool
\* The candidates no dearer than what was asked for.
NotDearer(req) == {m \in Pool : Cost[m] <= Cost[req]}

\* select_model: only a turn of the tiers set is moved, and only down.
SelectModel(m, difficulty, active) ==
  LET candidates == {n \in NotDearer(Find(m)) \ active : Tier[n] >= MinTier[difficulty]} IN
  IF Find(m) = NoModel \/ difficulty \notin routing \/ candidates = {}
  THEN {m} ELSE Cheapest(candidates)

\* select_bg_ceiling.
SelectBgCeiling(m) ==
  IF NoModel \in {Find(m), Find(BgModel)} \/ Cost[Find(m)] <= Cost[Find(BgModel)]
  THEN {m} ELSE {Find(BgModel)}

\* select_classifier_model: at or above the floor, and wide enough.
SelectClassifier(m, size, active) ==
  LET candidates == {n \in NotDearer(Find(m)) \ active :
                       Tier[n] >= Floor /\ size <= Window[Tier[n]]} IN
  IF Find(m) = NoModel \/ candidates = {} THEN {m} ELSE Cheapest(candidates)

\* (bug: a model as cheap counts as cheaper, the model itself among them)
ShedModel_Same(m, active) ==
  IF Find(m) = NoModel THEN {}
  ELSE Dearest({n \in Pool \ active : Cost[n] <= Cost[Find(m)]})

\* shed_model: the next cheaper model, when there is one.
ShedModel(m, active) ==
  IF Find(m) = NoModel THEN {}
  ELSE Dearest({n \in Pool \ active : Cost[n] < Cost[Find(m)]})

\* _is_classifier_call.
IsClassifier(r) ==
  r.marker /\ Class(r) # "deepseek" /\ (Class(r) = "work" => ClassifierWork)

\* _decide_served.
Served(r) ==
  IF Class(r) = "deepseek" THEN {DeepSeekModel}
  ELSE IF IsClassifier(r) THEN SelectClassifier(r.model, r.size, cooling)
  ELSE IF Class(r) = "bg" THEN SelectBgCeiling(r.model)
  ELSE IF Class(r) = "work" THEN {r.model}
  ELSE SelectModel(r.model, r.difficulty, cooling)

-----------------------------------------------------------------------------
(* A call arrives, is refused or is sent.                                  *)

\* (bug: the last turn of the allowance is let through once more)
Breached_Above(s) == tally[s] > Cap
\* _ceiling_breach.
Breached(s) == tally[s] >= Cap

\* A call over the ceiling is answered with a 403 and changes nothing.
Arrive(c) ==
  /\ ~Busy(c)
  /\ \E r \in Requests : \E m \in Served(r) :
       /\ ~Breached(r.session)
       /\ call' = [call EXCEPT ![c] = Attempt(r, m, 0, FALSE)]
  /\ UNCHANGED <<cooldowns, routing, spending>>

-----------------------------------------------------------------------------
(* The upstream answers an attempt.                                        *)

\* _is_retryable: a throttled main-loop turn that does not stream is the
\* client's to retry; a stream's and a classifier's are the proxy's.
Retryable(r, o) ==
  \/ o \in {"overloaded", "unreachable"}
  \/ o = "throttled" /\ (r.stream \/ IsClassifier(r))

Limit(r) == IF IsClassifier(r) THEN ClassifierMaxRetries ELSE MaxRetries

\* Cooldowns.record: a status from the upstream counts against its model,
\* with those of the earlier hits that are still inside the window.
Record(m, o) ==
  IF o \notin {"throttled", "overloaded"} \/ m \notin Pool THEN UNCHANGED cooldowns
  ELSE \E h \in 1..(hits[m] + 1) :
         IF h >= Threshold
         THEN cooling' = cooling \cup {m} /\ hits' = [hits EXCEPT ![m] = 0]
         ELSE hits' = [hits EXCEPT ![m] = h] /\ UNCHANGED cooling

\* Work and deepseek turns are never shed, a classifier's may be.
MayShed(r) == Class(r) \notin {"work", "deepseek"} \/ IsClassifier(r)

Exhausted(c) == call[c].attempt >= Limit(call[c].req)
\* A classifier refused by a smaller model goes back to the one requested,
\* once; only where the answer does not stream.
Reverts(c, o) ==
  LET k == call[c] IN
  /\ o = "bad" /\ IsClassifier(k.req) /\ ~k.req.stream
  /\ ~k.reverted /\ k.model # k.req.model

\* (bug: a reverted call is shed again)
ShedTarget_Reverted(c, active) ==
  IF MayShed(call[c].req) THEN ShedModel(call[c].model, active) ELSE {}
\* Nothing to shed to: the call is given up.
ShedTarget(c, active) ==
  IF MayShed(call[c].req) /\ ~call[c].reverted THEN ShedModel(call[c].model, active) ELSE {}

\* Back off and try the same model again.
Retry(c, o) ==
  /\ Retryable(call[c].req, o) /\ ~Exhausted(c)
  /\ Record(call[c].model, o)
  /\ call' = [call EXCEPT ![c] = Attempt(@.req, @.model, @.attempt + 1, @.reverted)]

Revert(c, o) ==
  /\ Reverts(c, o)
  /\ call' = [call EXCEPT ![c] = Attempt(@.req, @.req.model, 0, TRUE)]
  /\ UNCHANGED cooldowns

Shed(c, o) ==
  /\ Retryable(call[c].req, o) /\ Exhausted(c)
  /\ Record(call[c].model, o)
  /\ \E m \in ShedTarget(c, cooling') :
       call' = [call EXCEPT ![c] = Attempt(@.req, m, 0, @.reverted)]

\* The upstream's status, or a 502 when there is none, goes to the client.
Surface(c, o) ==
  /\ o # "ok" /\ ~Reverts(c, o)
  /\ Retryable(call[c].req, o) => Exhausted(c)
  /\ Record(call[c].model, o)
  /\ Retryable(call[c].req, o) => ShedTarget(c, cooling') = {}
  /\ call' = [call EXCEPT ![c] = Idle]

Fails(c) ==
  /\ Busy(c) /\ call[c].phase = "sent"
  /\ \E o \in Outcomes \ {"ok"} : Retry(c, o) \/ Revert(c, o) \/ Shed(c, o) \/ Surface(c, o)
  /\ UNCHANGED <<routing, spending>>

\* A 200 commits the call: its stream is passed on, its usage is logged.
Succeeds(c) ==
  /\ Busy(c) /\ call[c].phase = "sent"
  /\ \E t \in Usage[call[c].req.session] :
       /\ call' = [call EXCEPT ![c] = Committed(@, IF @.req.stream THEN "streaming" ELSE "logging", t)]
       /\ spent' = [spent EXCEPT ![call[c].req.session] = @ + t]
  /\ UNCHANGED <<cooldowns, routing, tally, torn>>

\* generate() comes to the end of the stream and logs it.
StreamEnds(c) ==
  /\ Busy(c) /\ call[c].phase = "streaming"
  /\ call' = [call EXCEPT ![c] = Committed(@, "logging", @.tokens)]
  /\ UNCHANGED <<cooldowns, routing, spending>>

\* The upstream or the client breaks off after the first byte: generate()
\* returns, or is closed, before it logs anything.
StreamTorn(c) ==
  /\ Busy(c) /\ call[c].phase = "streaming"
  /\ LET s == call[c].req.session IN
       /\ torn[s] + call[c].tokens <= MaxTorn
       /\ torn' = [torn EXCEPT ![s] = @ + call[c].tokens]
  /\ call' = [call EXCEPT ![c] = Idle]
  /\ UNCHANGED <<cooldowns, routing, tally, spent>>

AccountUsage(c) ==
  /\ tally' = [tally EXCEPT ![call[c].req.session] = @ + call[c].tokens]
  /\ call' = [call EXCEPT ![c] = Idle]
  /\ UNCHANGED <<cooldowns, routing, spent, torn>>

\* The tasks that log an answer, and the events of a whole stream.
LogGeneration(c) ==
  Busy(c) /\ call[c].phase = "logging" /\ ~call[c].req.stream /\ AccountUsage(c)
LogStream(c) ==
  Busy(c) /\ call[c].phase = "logging" /\ call[c].req.stream /\ AccountUsage(c)

-----------------------------------------------------------------------------
(* The clock, the operator, a restart.                                     *)

\* A model's cooldown runs out.
CoolsOff(m) ==
  /\ m \in cooling /\ cooling' = cooling \ {m}
  /\ UNCHANGED <<call, hits, routing, spending>>

\* POST /admin/route.
SetRouteConfig ==
  /\ routing' \in {{}} \cup Configs
  /\ UNCHANGED <<call, cooldowns, spending>>

\* Every call is cut off; tallies and cooldowns are in memory only, and
\* ROUTE_ENABLED is the environment's again.
Restart ==
  /\ call' = [c \in Slots |-> Idle]
  /\ hits' = [m \in Pool |-> 0] /\ cooling' = {}
  /\ routing' = {}
  /\ tally' = [s \in Sessions |-> 0]
  /\ spent' = [s \in Sessions |-> 0] /\ torn' = [s \in Sessions |-> 0]

Init ==
  /\ call = [c \in Slots |-> Idle]
  /\ hits = [m \in Pool |-> 0] /\ cooling = {}
  /\ routing = {}
  /\ tally = [s \in Sessions |-> 0]
  /\ spent = [s \in Sessions |-> 0] /\ torn = [s \in Sessions |-> 0]

Answer(c) == Fails(c) \/ Succeeds(c)

Next ==
  \/ \E c \in Slots : \/ Arrive(c) \/ Answer(c)
                      \/ StreamEnds(c) \/ StreamTorn(c) \/ LogGeneration(c) \/ LogStream(c)
  \/ \E m \in Pool : CoolsOff(m)
  \/ SetRouteConfig \/ Restart

Spec == Init /\ [][Next]_vars

-----------------------------------------------------------------------------
(* Properties.                                                             *)

TypeOK ==
  /\ call \in [Slots -> Calls \cup {Idle}]
  /\ hits \in [Pool -> 0..(Threshold - 1)] /\ cooling \subseteq Pool
  /\ routing \in SUBSET Difficulties
  /\ tally \in [Sessions -> Nat] /\ spent \in [Sessions -> Nat] /\ torn \in [Sessions -> Nat]

\* Whatever selection, ceiling, shed and revert a call went through, the model
\* it is sent to is the one requested, or one of the pool that is cheaper than
\* it or as cheap; deepseek sessions only ever get theirs.
ServedAsAsked(k) ==
  IF Class(k.req) = "deepseek" THEN k.model = DeepSeekModel
  ELSE \/ k.model = k.req.model
       \/ /\ Find(k.req.model) \in Pool /\ k.model \in Pool
          /\ Cost[k.model] <= Cost[Find(k.req.model)]
NeverUpgrades == \A c \in Slots : Busy(c) => ServedAsAsked(call[c])

\* A main-loop turn of a work session is answered by the model it asked for,
\* whatever fails upstream and whatever /admin/route says.
WorkKeepsItsModel ==
  \A c \in Slots : Busy(c) /\ Class(call[c].req) = "work" /\ ~IsClassifier(call[c].req)
                     => call[c].model = call[c].req.model

\* A step that hands the client a 400 for a classifier call.
Denies(c) == Busy(c) /\ IsClassifier(call[c].req) /\ Surface(c, "bad")

\* A classifier call that does not stream is never denied by a 400 of a model
\* it did not ask for, and once it is back on its own it stays there.
RefusedOnlyByItsOwn ==
  [][\A c \in Slots :
       /\ Denies(c) /\ ~call[c].req.stream => call[c].model = call[c].req.model
       /\ Busy(c) /\ Busy(c)' /\ call[c].reverted => call'[c].model = call[c].req.model]_call

Of(s) == {c \in Slots : Busy(c) /\ call[c].req.session = s}
\* The ceiling stops a session at the next turn: beyond the cap it is charged
\* for the calls that were let in before, and for the streams that broke off,
\* which the tally never sees.
CeilingStops ==
  \A s \in Sessions :
    /\ spent[s] - torn[s] <= Cap - 1 + MaxTurn * Cardinality(Slots)
    /\ Of(s) = {} => tally[s] = spent[s] - torn[s]

\* Retries, sheds and reverts come to an end: whatever cools down or off
\* meanwhile, the next attempt of a call is one of the few it has left on its
\* model, is made on a cheaper model, or is the one return to its own.
NearerItsEnd(new, old) ==
  \/ new.reverted /\ ~old.reverted
  \/ /\ new.reverted = old.reverted
     /\ \/ /\ new.model = old.model
           /\ old.attempt < new.attempt /\ new.attempt <= Limit(old.req)
        \/ Find(old.model) \in Pool /\ Cost[new.model] < Cost[Find(old.model)]
AttemptsEnd ==
  [][\A c \in Slots :
       Busy(c) /\ Busy(c)' /\ call[c].phase = "sent" /\ call'[c].phase = "sent"
         => call'[c] = call[c] \/ NearerItsEnd(call'[c], call[c])]_call
=============================================================================
