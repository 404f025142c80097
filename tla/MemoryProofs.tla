---------------------------- MODULE MemoryProofs ----------------------------
(***************************************************************************)
(* Proofs about Memory, for any facts, agents, archives, notes, flushes    *)
(* and faults.  First its types, and that the script gives a fact to one   *)
(* agent only: what a fact goes through depends on the steps of L2 alone,  *)
(* whoever takes them.  Then the graph and the clean-up, along the parts   *)
(* of MemoryInv: a step is its caller's own, so each part is kept for the  *)
(* other calls by what the step may do to the graph, and looked into for   *)
(* the caller.  At the end, the event log the hooks write beside it.       *)
(***************************************************************************)
EXTENDS MemoryInv, EventLog, FiniteSetTheorems, TLAPS

ByScript(f) == {g \in got[f] : g[2] # "fallback"}

\* A fact that was taken by the script is gone, and gone is gone.
Inv ==
  /\ TypeOK
  /\ \A f \in Facts :
       \/ ByScript(f) = {}
       \/ fact[f] = "gone" /\ \E g : ByScript(f) = {g}

-----------------------------------------------------------------------------
(* What a step does to L2, whichever call it belongs to.                   *)

\* No fact leaves "gone" and nobody is given one.
Recedes ==
  /\ fact' \in [Facts -> {"new", "unset", "live", "gone"}]
  /\ \A f \in Facts : fact[f] = "gone" => fact'[f] = "gone"
  /\ got' = got

\* The types of what writers hold.
WritersKeep ==
  /\ at' \in [Writers -> Places] /\ DOMAIN left' = Writers /\ DOMAIN names' = Writers
  /\ \A a \in Archives : left'[a] \subseteq batch'[a]
  /\ batch' \in [Archives -> SUBSET Facts]
  /\ DOMAIN dropped' = {"nodes", "links", "entities"}

LEMMA RecedesInv ==
  ASSUME Inv, Recedes, WritersKeep, script' \in BOOLEAN,
         taking' \in [Clients -> [fact : Facts \cup {0}, read : BOOLEAN]]
  PROVE  Inv'
BY DEF Inv, Recedes, WritersKeep, TypeOK, ByScript

\* Taking by script, whether the reply arrives or not: the fact was there, so
\* nobody had it by script.
LEMMA ScriptInv ==
  ASSUME Inv, NEW c \in Clients, NEW k, TakeByScript(c, k) \/ ReplyLost(c, k),
         WritersKeep, script' \in BOOLEAN
  PROVE  Inv'
<1>1. PICK f \in Matching(k), p \in {"script", "lost"} :
         /\ fact' = [fact EXCEPT ![f] = "gone"]
         /\ got' = [got EXCEPT ![f] = @ \cup {<<c, p>>}]
  BY DEF TakeByScript, ReplyLost
<1>2. f \in Facts /\ fact[f] # "gone"
  BY DEF Matching, InRedis
<1>3. ByScript(f) = {}
  BY <1>2 DEF Inv
<1>4. got[f] \in SUBSET (Clients \X Paths) /\ <<c, p>> \in Clients \X Paths
  BY <1>2 DEF Inv, TypeOK, Paths
<1>5. TypeOK'
  BY <1>1, <1>2, <1>4 DEF Inv, TypeOK, TakeByScript, ReplyLost, WritersKeep
<1>6. got'[f] = got[f] \cup {<<c, p>>} /\ fact'[f] = "gone"
  BY <1>1, <1>2 DEF Inv, TypeOK
<1>7. {g \in got'[f] : g[2] # "fallback"} = {<<c, p>>}
  BY <1>3, <1>6 DEF ByScript
<1>8. ASSUME NEW g \in Facts, g # f
      PROVE  fact'[g] = fact[g] /\ got'[g] = got[g]
  BY <1>1, <1>8 DEF Inv, TypeOK
<1> QED BY <1>5, <1>6, <1>7, <1>8 DEF Inv, ByScript

LEMMA FallbackInv ==
  ASSUME Inv, NEW c \in Clients, TakeDeletes(c), WritersKeep, script' \in BOOLEAN
  PROVE  Inv'
<1> DEFINE f == taking[c].fact
<1>1. fact' = [fact EXCEPT ![f] = "gone"] /\ got' = [got EXCEPT ![f] = @ \cup {<<c, "fallback">>}]
  BY DEF TakeDeletes
<1>2. <<c, "fallback">> \in Clients \X Paths
  BY DEF Paths
<1>3. taking' = [taking EXCEPT ![c] = [fact |-> 0, read |-> FALSE]]
  BY DEF TakeDeletes, NotTaking
<1>4. taking' \in [Clients -> [fact : Facts \cup {0}, read : BOOLEAN]]
  BY <1>3 DEF Inv, TypeOK
<1>5. fact' \in [Facts -> {"new", "unset", "live", "gone"}]
  BY <1>1 DEF Inv, TypeOK
<1>6. got' \in [Facts -> SUBSET (Clients \X Paths)]
  BY <1>1, <1>2 DEF Inv, TypeOK
<1>7. ASSUME NEW g \in Facts
      PROVE  /\ {x \in got'[g] : x[2] # "fallback"} = ByScript(g)
             /\ fact[g] = "gone" => fact'[g] = "gone"
  <2>1. CASE g = f
    <3>1. got'[g] = got[g] \cup {<<c, "fallback">>} /\ fact'[g] = "gone"
      BY <1>1, <2>1 DEF Inv, TypeOK
    <3> QED BY <3>1 DEF ByScript
  <2>2. CASE g # f
    BY <1>1, <2>2 DEF Inv, TypeOK, ByScript
  <2> QED BY <2>1, <2>2
<1> QED BY <1>4, <1>5, <1>6, <1>7 DEF Inv, TypeOK, ByScript, WritersKeep

-----------------------------------------------------------------------------

LEMMA Kinds == /\ Archives \subseteq Writers /\ Notes \subseteq Writers /\ Flushes \subseteq Writers
               /\ Archives \subseteq Clients
BY DEF Writers, Clients

LEMMA InitInv == Init => Inv
<1> SUFFICES ASSUME Init PROVE Inv
  OBVIOUS
<1>1. PICK S \in Together :
        /\ fact = [f \in Facts |-> IF f \in S THEN "new" ELSE "gone"]
        /\ at = [w \in Writers |-> IF w \in S THEN "new" ELSE "off"]
  BY DEF Init
<1>2. at \in [Writers -> Places]
  BY <1>1 DEF Places
<1>3. fact \in [Facts -> {"new", "unset", "live", "gone"}]
  BY <1>1
<1>4. left = [w \in Writers |-> {}] /\ names = [w \in Writers |-> {}] /\ batch = [a \in Archives |-> {}]
  BY DEF Init
<1>5. TypeOK
  BY <1>2, <1>3, <1>4, Kinds DEF Init, TypeOK, NotTaking, NoRows
<1> QED BY <1>5 DEF Init, Inv, ByScript

\* A call moves nobody else.
Others(w) ==
  \A v \in Writers \ {w} :
    /\ at'[v] = at[v] /\ left'[v] = left[v] /\ names'[v] = names[v]
    /\ v \in Archives => batch'[v] = batch[v]

LEMMA RaisesMoves ==
  ASSUME TypeOK, NEW w \in Writers, Raises(w), dropped' = dropped
  PROVE  WritersKeep /\ Others(w)
BY DEF WritersKeep, Others, TypeOK, Moves, Visits, Naming, Raises, Places

LEMMA ArchiveMoves ==
  ASSUME TypeOK, NEW a \in Archives,
         CreateNode(a) \/ Copied(a) \/ Follow(a) \/ Chained(a) \/ CleanUp(a)
  PROVE  WritersKeep /\ Others(a) /\ UNCHANGED script
<1>0. a \in Writers
  BY Kinds
<1>1. CASE CreateNode(a)
  BY <1>0, <1>1 DEF CreateNode, L2, L3, WritersKeep, Others, TypeOK, Moves, Visits, Naming, Places
<1>2. CASE Copied(a)
  BY <1>0, <1>2 DEF Copied, L2, L3, WritersKeep, Others, TypeOK, Moves, Visits, Naming, Places
<1>3. CASE Follow(a)
  <2>1. UNCHANGED <<script, dropped>>
    BY <1>3 DEF Follow, L2
  <2>2. PICK f, g \in left[a] :
           AddLink(a, <<NodeOf(a, f), NodeOf(a, g), "FOLLOWS">>,
             Visits(a, left[a] \ {f}) /\ UNCHANGED <<at, names, batch>>)
    BY <1>3 DEF Follow
  <2>3. Raises(a) \/ (Visits(a, left[a] \ {f}) /\ UNCHANGED <<at, names, batch>>)
    BY <2>2 DEF AddLink
  <2>4. CASE Visits(a, left[a] \ {f}) /\ UNCHANGED <<at, names, batch>>
    BY <1>0, <2>1, <2>4 DEF WritersKeep, Others, TypeOK, Moves, Visits, Naming, Places
  <2> QED BY <1>0, <2>1, <2>3, <2>4, RaisesMoves
<1>4. CASE Chained(a)
  BY <1>0, <1>4 DEF Chained, L2, L3, WritersKeep, Others, TypeOK, Moves, Visits, Naming, Places
<1>5. CASE CleanUp(a)
  <2>1. UNCHANGED <<script, dropped>>
    BY <1>5 DEF CleanUp, L3
  <2>2. UNCHANGED calls \/ \E f \in left[a] : Cleaned(a, f)
    BY <1>5 DEF CleanUp
  <2>3. CASE UNCHANGED calls
    BY <1>0, <2>1, <2>3 DEF calls, WritersKeep, Others, TypeOK, Moves, Visits, Naming, Places
  <2>4. CASE \E f \in left[a] : Cleaned(a, f)
    BY <1>0, <2>1, <2>4 DEF Cleaned, WritersKeep, Others, TypeOK, Moves, Visits, Naming, Places
  <2> QED BY <2>1, <2>2, <2>3, <2>4
<1> QED BY <1>1, <1>2, <1>3, <1>4, <1>5

LEMMA BeginArchiveMoves ==
  ASSUME TypeOK, NEW a \in Archives, BeginArchive(a)
  PROVE  WritersKeep /\ Others(a) /\ UNCHANGED <<L2, L3>>
<1>0. a \in Writers
  BY Kinds
<1>1. PICK P \in Pages : LET mine == {f \in P : JobOf[f] = ArchiveOf[a]} IN
       /\ batch' = [batch EXCEPT ![a] = mine]
       /\ Visits(a, mine)
       /\ Moves(a, IF mine = {} THEN "done" ELSE "insert")
  BY DEF BeginArchive
<1> DEFINE mine == {f \in P : JobOf[f] = ArchiveOf[a]}
<1>2. mine \in SUBSET Facts
  BY DEF Pages, InRedis
<1> HIDE DEF mine
<1>3. UNCHANGED <<names, L2, L3>>
  BY DEF BeginArchive
<1>4. batch' = [batch EXCEPT ![a] = mine] /\ left' = [left EXCEPT ![a] = mine]
  BY <1>1 DEF mine, Visits
<1>5. at' = [at EXCEPT ![a] = "done"] \/ at' = [at EXCEPT ![a] = "insert"]
  BY <1>1 DEF mine, Moves
<1> QED BY <1>0, <1>2, <1>3, <1>4, <1>5 DEF L3, WritersKeep, Others, TypeOK, Places

LEMMA NoteMoves ==
  ASSUME TypeOK, NEW n \in Notes, Note(n)
  PROVE  WritersKeep /\ Others(n) /\ UNCHANGED L2
<1>0. n \in Writers /\ n \notin Archives
  BY Kinds, CallsAssumption
<1>1. CASE CreateNote(n)
  BY <1>0, <1>1 DEF CreateNote, WritersKeep, Others, TypeOK, Moves, Visits, Naming, Places, L2, L3
<1>2. CASE LinkSiblings(n)
  BY <1>0, <1>2 DEF LinkSiblings, WritersKeep, Others, TypeOK, Moves, Visits, Naming, Places, L2, L3
<1>3. CASE LinkThere(n)
  <2>1. Raises(n) \/ (Moves(n, "back") /\ UNCHANGED <<left, names, batch>>)
    BY <1>3 DEF LinkThere, AddLink
  <2>2. CASE Moves(n, "back") /\ UNCHANGED <<left, names, batch>>
    BY <1>0, <1>3, <2>2 DEF LinkThere, L2, WritersKeep, Others, TypeOK, Moves, Visits, Naming, Places
  <2> QED BY <1>0, <1>3, <2>1, <2>2, RaisesMoves DEF LinkThere, L2
<1>4. CASE LinkBack(n)
  <2>1. \/ Raises(n)
        \/ Visits(n, left[n] \ {Pick(left[n])}) /\ Moves(n, "there") /\ UNCHANGED <<names, batch>>
    BY <1>4 DEF LinkBack, AddLink
  <2>2. CASE Visits(n, left[n] \ {Pick(left[n])}) /\ Moves(n, "there") /\ UNCHANGED <<names, batch>>
    BY <1>0, <1>4, <2>2 DEF LinkBack, L2, WritersKeep, Others, TypeOK, Moves, Visits, Naming, Places
  <2> QED BY <1>0, <1>4, <2>1, <2>2, RaisesMoves DEF LinkBack, L2
<1>5. CASE Related(n)
  BY <1>0, <1>5 DEF Related, WritersKeep, Others, TypeOK, Moves, Visits, Naming, Places, L2, L3
<1> QED BY <1>1, <1>2, <1>3, <1>4, <1>5 DEF Note

LEMMA FlushMoves ==
  ASSUME TypeOK, NEW x \in Flushes, Flush(x)
  PROVE  WritersKeep /\ Others(x) /\ UNCHANGED <<got, script, taking>>
<1>0. x \in Writers /\ x \notin Archives
  BY Kinds, CallsAssumption
<1>1. CASE BeginFlush(x)
  BY <1>0, <1>1 DEF BeginFlush, WritersKeep, Others, TypeOK, Moves, Visits, Naming, Places, L2, L3
<1>2. CASE DeleteFact(x)
  BY <1>0, <1>2 DEF DeleteFact, WritersKeep, Others, TypeOK, Moves, Visits, Naming, Places, L2, L3
<1>3. CASE DropLinks(x) \/ DropNodes(x) \/ DropEntities(x)
  <2>1. /\ \E to \in {"nodes", "entities", "commit"} : Moves(x, to)
        /\ UNCHANGED <<L2, left, names, batch>>
    BY <1>3 DEF DropLinks, DropNodes, DropEntities, Drops
  <2>2. DOMAIN dropped' = DOMAIN dropped
    BY <1>3 DEF DropLinks, DropNodes, DropEntities, Drops
  <2> QED BY <1>0, <2>1, <2>2 DEF WritersKeep, Others, TypeOK, Moves, Places, L2
<1>4. CASE CommitDrops(x)
  BY <1>0, <1>4 DEF CommitDrops, NoRows, WritersKeep, Others, TypeOK, Moves, Places, L2
<1> QED BY <1>1, <1>2, <1>3, <1>4 DEF Flush

LEMMA WriterMoves ==
  ASSUME TypeOK, NEW w \in Writers, EnsureEntity(w) \/ Mention(w) \/ Returns(w) \/ Breaks(w)
  PROVE  WritersKeep /\ Others(w) /\ UNCHANGED <<fact, got, script>>
<1>1. CASE EnsureEntity(w)
  BY <1>1 DEF EnsureEntity, WritersKeep, Others, TypeOK, Moves, Visits, Naming, Places, L2, L3
<1>2. CASE Mention(w)
  <2>1. \/ Raises(w)
        \/ Naming(w, names[w] \ {Pick(names[w])}) /\ Moves(w, "ensure") /\ UNCHANGED <<left, batch>>
    BY <1>2 DEF Mention, AddLink
  <2>2. CASE Naming(w, names[w] \ {Pick(names[w])}) /\ Moves(w, "ensure") /\ UNCHANGED <<left, batch>>
    BY <1>2, <2>2 DEF Mention, L2, WritersKeep, Others, TypeOK, Moves, Visits, Naming, Places
  <2> QED BY <1>2, <2>1, <2>2, RaisesMoves DEF Mention, L2
<1>3. CASE Returns(w)
  BY <1>3 DEF Returns, WritersKeep, Others, TypeOK, Moves, Visits, Naming, Places, L2, L3
<1>4. CASE Breaks(w)
  BY <1>4 DEF Breaks, NoRows, WritersKeep, Others, TypeOK, Moves, Visits, Naming, Places, Raises, L2
<1> QED BY <1>1, <1>2, <1>3, <1>4

\* The ways in which a client may take a step of in_.
LEMMA TakeInv ==
  ASSUME Inv, NEW c \in Clients, NEW k, WritersKeep, UNCHANGED script,
         \/ TakeByScript(c, k) \/ ReplyLost(c, k) \/ TakeFinds(c, k)
         \/ TakeGets(c) \/ TakeDeletes(c) \/ TakeFails(c)
  PROVE  Inv'
<1>0. script' \in BOOLEAN
  BY DEF Inv, TypeOK
<1>1. CASE TakeByScript(c, k) \/ ReplyLost(c, k)
  BY <1>0, <1>1, ScriptInv
<1>2. CASE TakeFinds(c, k)
  <2>1. PICK f \in Matching(k) : taking' = [taking EXCEPT ![c] = [fact |-> f, read |-> FALSE]]
    BY <1>2 DEF TakeFinds
  <2>2. f \in Facts
    BY DEF Matching, InRedis
  <2>3. taking' \in [Clients -> [fact : Facts \cup {0}, read : BOOLEAN]]
    BY <2>1, <2>2 DEF Inv, TypeOK
  <2>4. Recedes
    BY <1>2 DEF TakeFinds, Recedes, Inv, TypeOK
  <2> QED BY <1>0, <2>3, <2>4, RecedesInv
<1>3. CASE TakeGets(c)
  <2>1. taking' \in [Clients -> [fact : Facts \cup {0}, read : BOOLEAN]]
    BY <1>3 DEF TakeGets, NotTaking, Inv, TypeOK
  <2>2. Recedes
    BY <1>3 DEF TakeGets, Recedes, Inv, TypeOK
  <2> QED BY <1>0, <2>1, <2>2, RecedesInv
<1>4. CASE TakeDeletes(c)
  BY <1>0, <1>4, FallbackInv
<1>5. CASE TakeFails(c)
  <2>1. taking' \in [Clients -> [fact : Facts \cup {0}, read : BOOLEAN]]
    BY <1>5 DEF TakeFails, NotTaking, Inv, TypeOK
  <2>2. Recedes
    BY <1>5 DEF TakeFails, Recedes, Inv, TypeOK
  <2> QED BY <1>0, <2>1, <2>2, RecedesInv
<1> QED BY <1>1, <1>2, <1>3, <1>4, <1>5

-----------------------------------------------------------------------------
(* Every step of Next.                                                     *)

LEMMA L2Inv ==
  ASSUME Inv, NEW f \in Facts,
         Out(f) \/ SetExpiry(f) \/ Expires(f) \/ ScriptsFlushed \/ Connect
  PROVE  Inv'
<1>1. Recedes
  BY DEF Inv, TypeOK, Out, SetExpiry, Expires, ScriptsFlushed, Connect, Recedes
<1>2. WritersKeep /\ script' \in BOOLEAN
  BY DEF Inv, TypeOK, Out, SetExpiry, Expires, ScriptsFlushed, Connect, WritersKeep, calls, L3
<1>3. taking' = taking
  BY DEF Out, SetExpiry, Expires, ScriptsFlushed, Connect
<1> QED BY <1>1, <1>2, <1>3, RecedesInv DEF Inv, TypeOK

LEMMA ConsumeInv ==
  ASSUME Inv, NEW c \in Consumers, Consume(c)
  PROVE  Inv'
<1>1. c \in Clients /\ UNCHANGED script
  BY DEF Clients, Consume
<1>2. WritersKeep
  BY DEF Consume, calls, L3, Inv, TypeOK, WritersKeep
<1>3. CASE \E k \in Plain : TakeByScript(c, k) \/ ReplyLost(c, k) \/ TakeFinds(c, k)
  <2> PICK k \in Plain : TakeByScript(c, k) \/ ReplyLost(c, k) \/ TakeFinds(c, k)
    BY <1>3
  <2> QED BY <1>1, <1>2, TakeInv
<1>4. CASE TakeGets(c) \/ TakeDeletes(c) \/ TakeFails(c)
  BY <1>1, <1>2, <1>4, TakeInv
<1> QED BY <1>3, <1>4 DEF Consume

LEMMA CleanUpInv ==
  ASSUME Inv, NEW a \in Archives, CleanUp(a)
  PROVE  Inv'
<1>1. a \in Clients /\ script' \in BOOLEAN
  BY Kinds DEF CleanUp, Inv, TypeOK
<1>2. WritersKeep /\ UNCHANGED script
  BY ArchiveMoves DEF Inv
<1>3. ASSUME NEW k, \/ TakeByScript(a, k) \/ ReplyLost(a, k) \/ TakeFinds(a, k)
                    \/ TakeGets(a) \/ TakeDeletes(a) \/ TakeFails(a)
      PROVE  Inv'
  BY <1>1, <1>2, <1>3, TakeInv
<1>4. CASE UNCHANGED <<fact, got, taking>>
  BY <1>1, <1>2, <1>4, RecedesInv DEF Recedes, Inv, TypeOK
<1>5. \/ UNCHANGED <<fact, got, taking>>
      \/ \E k : \/ TakeByScript(a, k) \/ ReplyLost(a, k) \/ TakeFinds(a, k)
                \/ TakeGets(a) \/ TakeDeletes(a) \/ TakeFails(a)
  BY DEF CleanUp
<1> QED BY <1>3, <1>4, <1>5

LEMMA ArchiveInv ==
  ASSUME Inv, NEW a \in Archives, Archive(a)
  PROVE  Inv'
<1>1. CASE CleanUp(a)
  BY <1>1, CleanUpInv
<1>2. CASE ~CleanUp(a)
  <2>1. WritersKeep
    BY <1>2, ArchiveMoves, BeginArchiveMoves DEF Archive, Inv
  <2>2. UNCHANGED L2
    BY <1>2 DEF Archive, BeginArchive, CreateNode, Copied, Follow, Chained
  <2> QED BY <2>1, <2>2, RecedesInv DEF L2, Recedes, Inv, TypeOK
<1> QED BY <1>1, <1>2

LEMMA FlushInv ==
  ASSUME Inv, NEW x \in Flushes, Flush(x)
  PROVE  Inv'
<1>1. WritersKeep /\ UNCHANGED <<got, script, taking>>
  BY FlushMoves DEF Inv
<1>2. fact' = fact \/ \E f : fact' = [fact EXCEPT ![f] = "gone"]
  BY DEF Flush, BeginFlush, DeleteFact, DropLinks, DropNodes, DropEntities, Drops, CommitDrops, L2
<1>3. Recedes
  BY <1>1, <1>2 DEF Recedes, Inv, TypeOK
<1> QED BY <1>1, <1>3, RecedesInv DEF Inv, TypeOK

LEMMA WriterInv ==
  ASSUME Inv, NEW w \in Writers, EnsureEntity(w) \/ Mention(w) \/ Returns(w) \/ Breaks(w)
  PROVE  Inv'
<1>1. WritersKeep /\ UNCHANGED <<fact, got, script>>
  BY WriterMoves DEF Inv
<1>2. taking' \in [Clients -> [fact : Facts \cup {0}, read : BOOLEAN]]
  <2>1. CASE taking' = taking
    BY <2>1 DEF Inv, TypeOK
  <2>2. CASE Breaks(w)
    <3>1. \A c \in Clients : (IF c = w THEN NotTaking ELSE taking[c]) \in [fact : Facts \cup {0}, read : BOOLEAN]
      BY DEF NotTaking, Inv, TypeOK
    <3> QED BY <2>2, <3>1 DEF Breaks
  <2> QED BY <2>1, <2>2 DEF EnsureEntity, Mention, Returns, L2
<1> QED BY <1>1, <1>2, RecedesInv DEF Recedes, Inv, TypeOK

LEMMA StepInv == Inv /\ [Next]_vars => Inv'
<1> SUFFICES ASSUME Inv, [Next]_vars PROVE Inv'
  OBVIOUS
<1>1. CASE \E f \in Facts : Out(f) \/ SetExpiry(f) \/ Expires(f)
  BY <1>1, L2Inv
<1>2. CASE ScriptsFlushed \/ Connect
  BY <1>2 DEF ScriptsFlushed, Connect, Inv, TypeOK, ByScript, L3, calls
<1>3. CASE \E c \in Consumers : Consume(c)
  BY <1>3, ConsumeInv
<1>4. CASE \E a \in Archives : Archive(a)
  BY <1>4, ArchiveInv
<1>5. CASE \E n \in Notes : Note(n)
  <2>1. WritersKeep /\ UNCHANGED L2
    BY <1>5, NoteMoves DEF Inv
  <2> QED BY <2>1, RecedesInv DEF L2, Recedes, Inv, TypeOK
<1>6. CASE \E x \in Flushes : Flush(x)
  BY <1>6, FlushInv
<1>7. CASE \E w \in Writers : EnsureEntity(w) \/ Mention(w) \/ Returns(w) \/ Breaks(w)
  BY <1>7, WriterInv
<1>8. CASE UNCHANGED vars
  BY <1>8 DEF vars, L2, L3, calls, Inv, TypeOK, ByScript
<1> QED BY <1>1, <1>2, <1>3, <1>4, <1>5, <1>6, <1>7, <1>8 DEF Next

LEMMA Invariance == Spec => []Inv
BY InitInv, StepInv, PTL DEF Spec

\* The variables of the memory keep their types.
THEOREM TypeCorrect == Spec => []TypeOK
<1>1. Inv => TypeOK
  BY DEF Inv
<1> QED BY <1>1, Invariance, PTL

\* atomic_pop's script (redis.py 8-18): whatever else happens to a fact, by
\* expiry, flush or the fallback, the script removes it at most once, and gives it
\* to one agent at most; to none, when its reply is lost.
THEOREM ScriptTakesOnce == Spec => []TakenOnce
<1>1. Inv => TakenOnce
  <2> SUFFICES ASSUME Inv, NEW f \in Facts PROVE Cardinality(ByScript(f)) <= 1
    BY DEF TakenOnce, ByScript
  <2>1. CASE ByScript(f) = {}
    BY <2>1, FS_EmptySet
  <2>2. CASE \E g : ByScript(f) = {g}
    <3> PICK g : ByScript(f) = {g}
      BY <2>2
    <3>1. Cardinality({g}) = 1
      BY FS_Singleton
    <3> QED BY <3>1
  <2> QED BY <2>1, <2>2 DEF Inv
<1> QED BY <1>1, Invariance, PTL

-----------------------------------------------------------------------------
(* The graph: what a step of one call does to it, and to that call.        *)

Mine(w, m) == \/ w \in Notes /\ m = w
              \/ w \in Archives /\ \E f \in Facts : m = NodeOf(w, f)

\* The graph gains what is new and the call's own, or a flush commits.
Grows(w) ==
  /\ nodes \subseteq nodes' /\ links \subseteq links' /\ entities \subseteq entities'
  /\ amid \subseteq amid'
  /\ \A m \in nodes' \ nodes : Mine(w, m) /\ ~Used(m) /\ Used(m)'
Erases(w) ==
  /\ w \in Flushes /\ Dropping /\ at'[w] = "done" /\ amid' = amid
  /\ nodes' = nodes \ dropped.nodes /\ links' = links \ dropped.links

\* What archives and notes add keeps clear of what a flush has deleted.
KeepsClear ==
  /\ dropped' = dropped
  /\ Dropping => nodes' \ nodes \subseteq amid'
  /\ \A l \in links' \ links :
       /\ l[1] \notin dropped.nodes /\ l \notin dropped.links
       /\ l[3] = "FOLLOWS" => l[2] \notin dropped.nodes

Resolves(l) ==
  /\ l[1] \in nodes
  /\ \/ l[2] \in IF l[3] = "mentions" THEN entities ELSE nodes
     \/ l[1] \in amid /\ l[3] # "FOLLOWS"

OwnPlace(w) ==
  /\ at'[w] \notin {"off", "new"}
  /\ w \in Archives => /\ PlacedArchive(w)'
                       /\ at[w] # "new" => Pending(w)' \subseteq Pending(w)
  /\ w \in Notes => PlacedNote(w)' /\ left'[w] \subseteq left[w] \cup nodes
  /\ w \in Flushes => PlacedFlush(w)'

\* What has to be shown of a step for the call that takes it.
OwnSafe(w) ==
  /\ OwnPlace(w)
  /\ Grows(w) \/ Erases(w)
  /\ IF w \in Flushes THEN FlushIsSafe' ELSE KeepsClear
  /\ \A l \in links' \ links : Resolves(l)'
  /\ MentionIsSafe(w)'
  /\ w \in Archives => InOrder(w)' /\ ChainIsSafe(w)' /\ InOrderDropped(w)'
  /\ w \in Notes => SiblingsAreSafe(w)' /\ \A n \in Notes : LinkedOrOwed(w, n)' /\ LinkedOrOwed(n, w)'

LEMMA UsedKept ==
  ASSUME NEW w \in Writers, Others(w), OwnPlace(w), NEW m, Used(m)
  PROVE  Used(m)'
<1>1. m \in Notes => at'[m] \notin {"off", "new"}
  BY Kinds DEF Others, OwnPlace, Used
<1>2. ASSUME NEW a \in Archives, NEW f \in Facts, m = NodeOf(a, f)
      PROVE  at'[a] \notin {"off", "new"} /\ f \notin Pending(a)'
  <2>1. at[a] \notin {"off", "new"} /\ f \notin Pending(a)
    BY <1>2 DEF Used
  <2>2. CASE a = w
    BY <2>1, <2>2 DEF OwnPlace
  <2>3. CASE a # w
    BY <2>1, <2>3, Kinds DEF Others, Pending
  <2> QED BY <2>2, <2>3
<1> QED BY <1>1, <1>2 DEF Used

\* Nobody else's node is new.
LEMMA OthersNodes ==
  ASSUME NEW w \in Writers, Grows(w), NEW v \in Writers, v # w
  PROVE  /\ v \in Notes => (v \in nodes' <=> v \in nodes)
         /\ v \in Archives => \A f \in Facts : NodeOf(v, f) \in nodes' <=> NodeOf(v, f) \in nodes
BY CallsAssumption DEF Grows, Mine, NodeOf

LEMMA OthersPlaced ==
  ASSUME Sound, NEW w \in Writers, Others(w), OwnPlace(w), Grows(w) \/ Erases(w)
  PROVE  Placed' /\ OnceOnly'
<1>1. \A a \in Archives : PlacedArchive(a)'
  BY Kinds DEF Sound, Placed, PlacedArchive, Others, OwnPlace
<1>2. \A n \in Notes : PlacedNote(n)'
  <2> TAKE n \in Notes
  <2>1. CASE n = w
    BY <2>1 DEF OwnPlace
  <2>2. CASE n # w
    BY <2>2, Kinds DEF Sound, Placed, PlacedNote, Others
  <2> QED BY <2>1, <2>2
<1>3. \A x \in Flushes : PlacedFlush(x)'
  <2> TAKE x \in Flushes
  <2>1. CASE x = w
    BY <2>1 DEF OwnPlace
  <2>2. CASE x # w
    BY <2>2, Kinds DEF Sound, Placed, PlacedFlush, Others
  <2> QED BY <2>1, <2>2
<1>4. nodes' \subseteq AllNodes
  BY DEF Grows, Erases, Mine, AllNodes, NodeOf, Sound, Placed
<1>5. ASSUME NEW m \in nodes' PROVE Used(m)'
  BY <1>5, UsedKept DEF Grows, Erases, Sound, OnceOnly
<1>6. ASSUME NEW n \in Notes, NEW m \in left'[n] PROVE Used(m)'
  <2>1. m \in left[n] \/ m \in nodes
    <3>1. CASE n = w
      BY <1>6, <3>1 DEF OwnPlace
    <3>2. CASE n # w
      BY <1>6, <3>2, Kinds DEF Others
    <3> QED BY <3>1, <3>2
  <2> QED BY <2>1, UsedKept DEF Sound, OnceOnly
<1> QED BY <1>1, <1>2, <1>3, <1>4, <1>5, <1>6 DEF Placed, OnceOnly

LEMMA OthersSafe ==
  ASSUME Sound, NEW w \in Writers, Others(w), Grows(w) \/ Erases(w), NEW v \in Writers, v # w
  PROVE  /\ MentionIsSafe(v)'
         /\ v \in Archives => InOrder(v)' /\ ChainIsSafe(v)'
         /\ v \in Notes => SiblingsAreSafe(v)'
<1>0. at'[v] = at[v] /\ left'[v] = left[v] /\ names'[v] = names[v]
  BY DEF Others
<1>1. MentionIsSafe(v)'
  <2> SUFFICES ASSUME at[v] = "mention"
               PROVE  Pick(names[v]) \in entities' \/ Subject(v)' \cap (nodes' \ amid') = {}
    BY <1>0 DEF MentionIsSafe
  <2>1. Subject(v)' = Subject(v)
    BY <1>0 DEF Subject
  <2>2. Pick(names[v]) \in entities \/ Subject(v) \cap (nodes \ amid) = {}
    BY DEF Sound, MentionIsSafe
  <2>3. v \in Notes \/ v \in Archives
    BY DEF Sound, Placed, PlacedFlush, FlushPlaces, Writers
  <2>4. ASSUME NEW m \in Subject(v)
        PROVE  (v \in Notes /\ m = v) \/ (v \in Archives /\ \E f \in Facts : m = NodeOf(v, f))
    BY <2>3, <2>4 DEF Subject, Sound, TypeOK
  <2>5. CASE Grows(w)
    <3>1. entities \subseteq entities' /\ amid \subseteq amid'
      BY <2>5 DEF Grows
    <3>2. ASSUME NEW m \in Subject(v), m \in nodes' PROVE m \in nodes
      BY <2>4, <2>5, <3>2, OthersNodes
    <3> QED BY <2>1, <2>2, <3>1, <3>2
  <2>6. CASE Erases(w)
    BY <2>6 DEF Erases, Sound, FlushIsSafe
  <2> QED BY <2>5, <2>6
<1>2. ASSUME v \in Archives PROVE InOrder(v)' /\ ChainIsSafe(v)'
  <2>1. batch'[v] = batch[v] /\ batch[v] \subseteq Facts
    BY <1>2 DEF Others, Sound, TypeOK
  <2>2. InOrder(v) /\ ChainIsSafe(v)
    BY <1>2 DEF Sound
  <2>3. Pending(v)' = Pending(v)
    BY <1>0 DEF Pending
  <2>4. InOrder(v)'
    BY <1>0, <2>1, <2>2 DEF InOrder
  <2>5. CASE Grows(w)
    <3>1. \A f \in Facts : NodeOf(v, f) \in nodes' <=> NodeOf(v, f) \in nodes
      BY <1>2, <2>5, OthersNodes
    <3> QED BY <1>0, <2>1, <2>2, <2>3, <2>4, <3>1 DEF ChainIsSafe
  <2>6. CASE Erases(w)
    <3>1. InOrderDropped(v)
      BY <1>2 DEF Sound, FlushIsSafe
    <3>2. nodes' = nodes \ dropped.nodes
      BY <2>6 DEF Erases
    <3> QED BY <1>0, <2>1, <2>2, <2>3, <2>4, <3>1, <3>2 DEF ChainIsSafe, InOrderDropped
  <2> QED BY <2>5, <2>6
<1>3. ASSUME v \in Notes PROVE SiblingsAreSafe(v)'
  <2>1. SiblingsAreSafe(v)
    BY <1>3 DEF Sound
  <2>2. CASE Grows(w)
    <3>1. v \in nodes' <=> v \in nodes
      BY <1>3, <2>2, OthersNodes
    <3>2. \A m \in left[v] : m \in nodes' <=> m \in nodes
      BY <1>3, <2>2 DEF Grows, Sound, OnceOnly
    <3>3. amid \subseteq amid'
      BY <2>2 DEF Grows
    <3> QED BY <1>0, <2>1, <3>1, <3>2, <3>3 DEF SiblingsAreSafe
  <2>3. CASE Erases(w)
    BY <2>3 DEF Erases, SiblingsAreSafe, Sound, FlushIsSafe
  <2> QED BY <2>2, <2>3
<1> QED BY <1>1, <1>2, <1>3

LEMMA OthersLinked ==
  ASSUME Sound, NEW w \in Writers, Others(w), Grows(w) \/ Erases(w),
         NEW n \in Notes, NEW m \in Notes, n # w, m # w
  PROVE  LinkedOrOwed(n, m)'
<1>0. /\ at'[n] = at[n] /\ left'[n] = left[n]
      /\ at'[m] = at[m] /\ left'[m] = left[m]
  BY Kinds DEF Others
<1>1. CASE Grows(w)
  <2>1. HasLooked(n)' <=> HasLooked(n)
    BY <1>0, <1>1, OthersNodes, Kinds DEF HasLooked
  <2>2. HasLooked(m)' <=> HasLooked(m)
    BY <1>0, <1>1, OthersNodes, Kinds DEF HasLooked
  <2>3. OwesThere(n, m)' <=> OwesThere(n, m)
    BY <1>0 DEF OwesThere
  <2>4. OwesBack(m, n)' <=> OwesBack(m, n)
    BY <1>0 DEF OwesBack
  <2>5. links \subseteq links'
    BY <1>1 DEF Grows
  <2>6. LinkedOrOwed(n, m)
    BY DEF Sound
  <2> QED BY <2>1, <2>2, <2>3, <2>4, <2>5, <2>6 DEF LinkedOrOwed
<1>2. CASE Erases(w)
  <2> SUFFICES ASSUME n # m, SessionOf[n] = SessionOf[m], HasLooked(n)', HasLooked(m)'
               PROVE  <<n, m, "temporal">> \in links' \/ OwesThere(n, m)' \/ OwesBack(m, n)'
    BY DEF LinkedOrOwed
  <2>1. HasLooked(n) /\ HasLooked(m) /\ n \notin dropped.nodes
    BY <1>0, <1>2 DEF HasLooked, Erases
  <2>2. <<n, m, "temporal">> \in links \/ OwesThere(n, m) \/ OwesBack(m, n)
    BY <2>1 DEF Sound, LinkedOrOwed
  <2>3. <<n, m, "temporal">> \in links => <<n, m, "temporal">> \in links'
    BY <1>2, <2>1 DEF Erases, Sound, FlushIsSafe
  <2> QED BY <1>0, <2>2, <2>3 DEF OwesThere, OwesBack
<1> QED BY <1>1, <1>2

\* The transaction of a flush is safe from what archives and notes do meanwhile.
LEMMA FlushKept ==
  ASSUME Sound, NEW w \in Writers, w \notin Flushes, Others(w), Grows(w), KeepsClear,
         w \in Archives => InOrderDropped(w)'
  PROVE  FlushIsSafe'
<1>1. dropped' = dropped /\ \A x \in Flushes : at'[x] = at[x]
  BY Kinds DEF KeepsClear, Others
<1>2. Dropping' <=> Dropping
  BY <1>1 DEF Dropping
<1>3. \A x, y \in Flushes : at'[x] \in Idle \/ at'[y] \in Idle \/ x = y
  BY <1>1 DEF Sound, FlushIsSafe
<1>4. dropped.nodes \subseteq nodes' /\ (dropped.nodes = {} \/ Dropping)
  BY DEF Sound, FlushIsSafe, Grows
<1>5. ASSUME Dropping
      PROVE  /\ nodes' \ dropped.nodes \subseteq amid'
             /\ \A l \in links' : l \in dropped.links <=> l[1] \in dropped.nodes
  <2>1. /\ nodes \ dropped.nodes \subseteq amid
        /\ \A l \in links : l \in dropped.links <=> l[1] \in dropped.nodes
    BY <1>5 DEF Sound, FlushIsSafe
  <2>2. nodes' \ nodes \subseteq amid' /\ amid \subseteq amid'
    BY <1>5 DEF KeepsClear, Grows
  <2> QED BY <2>1, <2>2 DEF KeepsClear
<1>6. \A l \in links' : l[3] = "FOLLOWS" /\ l[2] \in dropped.nodes => l[1] \in dropped.nodes
  BY DEF Sound, FlushIsSafe, KeepsClear
<1>7. ASSUME NEW a \in Archives PROVE InOrderDropped(a)'
  <2>1. CASE a = w
    BY <2>1
  <2>2. CASE a # w
    <3>1. batch'[a] = batch[a] /\ batch[a] \subseteq Facts
      BY <2>2, Kinds DEF Others, Sound, TypeOK
    <3>2. \A f \in Facts : NodeOf(a, f) \in nodes' <=> NodeOf(a, f) \in nodes
      BY <2>2, OthersNodes, Kinds
    <3>3. InOrderDropped(a)
      BY DEF Sound, FlushIsSafe
    <3> QED BY <1>1, <3>1, <3>2, <3>3 DEF InOrderDropped
  <2> QED BY <2>1, <2>2
<1> QED BY <1>1, <1>2, <1>3, <1>4, <1>5, <1>6, <1>7 DEF FlushIsSafe

LEMMA StepSound ==
  ASSUME Sound, NEW w \in Writers, WritersKeep, TypeOK', Others(w), OwnSafe(w)
  PROVE  Sound'
<1>1. Placed' /\ OnceOnly'
  BY OthersPlaced DEF OwnSafe
<1>2. LinksResolve'
  <2> SUFFICES ASSUME NEW l \in links' PROVE Resolves(l)'
    BY DEF LinksResolve, Resolves
  <2>1. CASE l \in links
    <3>1. Resolves(l)
      BY <2>1 DEF Sound, LinksResolve, Resolves
    <3>2. CASE Grows(w)
      BY <3>1, <3>2 DEF Grows, Resolves
    <3>3. CASE Erases(w)
      <4>1. nodes' = nodes \ dropped.nodes /\ amid' = amid /\ l \notin dropped.links
        BY <3>3 DEF Erases
      <4>2. /\ nodes \ dropped.nodes \subseteq amid /\ l[1] \notin dropped.nodes
            /\ l[3] = "FOLLOWS" => l[2] \notin dropped.nodes
        BY <2>1, <3>3, <4>1 DEF Erases, Sound, FlushIsSafe
      <4> QED BY <3>1, <4>1, <4>2 DEF Resolves
    <3> QED BY <3>2, <3>3 DEF OwnSafe
  <2>2. CASE l \notin links
    BY <2>2 DEF OwnSafe
  <2> QED BY <2>1, <2>2
<1>3. \A v \in Writers : MentionIsSafe(v)'
  BY OthersSafe DEF OwnSafe
<1>4. \A a \in Archives : InOrder(a)' /\ ChainIsSafe(a)'
  BY OthersSafe, Kinds DEF OwnSafe
<1>5. \A n \in Notes : SiblingsAreSafe(n)'
  BY OthersSafe, Kinds DEF OwnSafe
<1>6. \A n, m \in Notes : LinkedOrOwed(n, m)'
  BY OthersLinked DEF OwnSafe
<1>7. FlushIsSafe'
  <2>1. CASE w \in Flushes
    BY <2>1 DEF OwnSafe
  <2>2. CASE w \notin Flushes
    BY <2>2, FlushKept DEF OwnSafe, Erases
  <2> QED BY <2>1, <2>2
<1> QED BY <1>1, <1>2, <1>3, <1>4, <1>5, <1>6, <1>7 DEF Sound

-----------------------------------------------------------------------------
(* The graph: each statement in turn.                                      *)

LEMMA SameGraph == ASSUME NEW w, UNCHANGED L3 PROVE Grows(w) /\ KeepsClear /\ links' \ links = {}
BY DEF L3, Grows, KeepsClear

\* A row that is inserted while no node is.
LEMMA NewLink ==
  ASSUME NEW w, NEW row, UNCHANGED <<nodes, entities, dropped, amid>>, links' = links \cup {row},
         row[1] \notin dropped.nodes, row \notin dropped.links,
         row[3] = "FOLLOWS" => row[2] \notin dropped.nodes, Resolves(row)
  PROVE  Grows(w) /\ KeepsClear /\ \A l \in links' \ links : Resolves(l)'
BY DEF Grows, KeepsClear, Resolves

LEMMA RaisedSafe ==
  ASSUME Sound, NEW w \in Writers, w \notin Flushes, Raises(w), UNCHANGED L3
  PROVE  OwnSafe(w)
<1>1. at'[w] = "raised" /\ left'[w] = {} /\ batch' = batch
  BY DEF Sound, TypeOK, Raises, Moves, Visits
<1>2. OwnPlace(w)
  BY <1>1 DEF OwnPlace, PlacedArchive, PlacedNote, PlacedFlush, ArchivePlaces, NotePlaces, FlushPlaces, Pending
<1>3. MentionIsSafe(w)'
  BY <1>1 DEF MentionIsSafe
<1>4. InOrder(w)' /\ ChainIsSafe(w)' /\ SiblingsAreSafe(w)'
  BY <1>1 DEF InOrder, ChainIsSafe, SiblingsAreSafe
<1>5. \A n \in Notes : LinkedOrOwed(w, n)' /\ LinkedOrOwed(n, w)'
  BY <1>1 DEF LinkedOrOwed, HasLooked
<1>6. w \in Archives => InOrderDropped(w)'
  BY <1>1 DEF Sound, FlushIsSafe, InOrderDropped, L3
<1> QED BY <1>2, <1>3, <1>4, <1>5, <1>6, SameGraph DEF OwnSafe

\* What an archive has to show.
LEMMA ArchiveSafe ==
  ASSUME NEW a \in Archives, at'[a] \in ArchivePlaces \ {"off", "new"},
         at[a] # "new" => Pending(a)' \subseteq Pending(a),
         Grows(a), KeepsClear, \A l \in links' \ links : Resolves(l)',
         MentionIsSafe(a)', InOrder(a)', ChainIsSafe(a)', InOrderDropped(a)'
  PROVE  OwnSafe(a)
BY CallsAssumption DEF OwnSafe, OwnPlace, PlacedArchive

LEMMA SameOrder ==
  ASSUME Sound, NEW a \in Archives, batch'[a] = batch[a], nodes' = nodes, dropped' = dropped
  PROVE  InOrderDropped(a)'
BY DEF Sound, FlushIsSafe, InOrderDropped

LEMMA BeginArchiveSafe ==
  ASSUME Sound, NEW a \in Archives, BeginArchive(a)
  PROVE  OwnSafe(a)
<1>1. at[a] = "new" /\ UNCHANGED L3
  BY BeginArchiveMoves DEF BeginArchive, Sound
<1>2. left'[a] = batch'[a] /\ at'[a] \in {"done", "insert"}
  <2>1. a \in Writers
    BY Kinds
  <2>2. PICK P \in Pages : LET mine == {f \in P : JobOf[f] = ArchiveOf[a]} IN
       /\ batch' = [batch EXCEPT ![a] = mine]
       /\ Visits(a, mine)
       /\ Moves(a, IF mine = {} THEN "done" ELSE "insert")
    BY DEF BeginArchive
  <2> QED BY <2>1, <2>2 DEF Sound, TypeOK, Visits, Moves
<1>3. MentionIsSafe(a)'
  BY <1>2 DEF MentionIsSafe
<1>4. InOrder(a)' /\ ChainIsSafe(a)'
  BY <1>2 DEF InOrder, ChainIsSafe, Pending
<1>5. InOrderDropped(a)'
  <2>1. ASSUME NEW f \in Facts PROVE NodeOf(a, f) \notin nodes
    BY <1>1 DEF Sound, OnceOnly, Used
  <2>2. batch'[a] \subseteq Facts
    BY BeginArchiveMoves DEF Sound, WritersKeep
  <2> QED BY <1>1, <2>1, <2>2 DEF InOrderDropped, L3
<1> QED BY <1>1, <1>2, <1>3, <1>4, <1>5, SameGraph, ArchiveSafe DEF ArchivePlaces

\* The first of a set comes before the others, and there is only one.
LEMMA FirstIsLeast ==
  ASSUME NEW S \in SUBSET Facts, NEW f, First(f, S)
  PROVE  f \in S /\ \A g \in S : (f < g \/ g = f) /\ (First(g, S) => g = f)
BY FactsAssumption DEF First

LEMMA CreateNodeSafe ==
  ASSUME Sound, NEW a \in Archives, CreateNode(a)
  PROVE  OwnSafe(a)
<1>1. PICK f \in left[a] :
         /\ First(f, left[a]) /\ nodes' = nodes \cup {NodeOf(a, f)}
         /\ amid' = IF Dropping THEN amid \cup {NodeOf(a, f)} ELSE amid
  BY DEF CreateNode, AddNode
<1>2. a \in Writers /\ left[a] \in SUBSET Facts /\ batch[a] \subseteq Facts /\ left[a] \subseteq batch[a]
  BY Kinds DEF Sound, TypeOK
<1>3. /\ at[a] = "insert" /\ at'[a] = "ensure"
      /\ left' = left /\ links' = links /\ entities' = entities /\ batch' = batch /\ dropped' = dropped
  BY <1>2 DEF CreateNode, Moves, Sound, TypeOK
<1>4. f \in Facts /\ \A g \in left[a] : (f < g \/ g = f) /\ (First(g, left[a]) => g = f)
  BY <1>1, <1>2, FirstIsLeast
<1>5. Pending(a) = left[a] /\ Pending(a)' = left[a] \ {f}
  BY <1>1, <1>3, <1>4 DEF Pending
<1>6. Grows(a)
  <2>1. ~Used(NodeOf(a, f))
    BY <1>1, <1>4, <1>5 DEF Used
  <2>2. Used(NodeOf(a, f))'
    <3>1. NodeOf(a, f) \notin Notes
      BY <1>4, CallsAssumption DEF NodeOf
    <3>2. ASSUME NEW b \in Archives, NEW g \in Facts, NodeOf(a, f) = NodeOf(b, g)
          PROVE  at'[b] \notin {"off", "new"} /\ g \notin Pending(b)'
      <4>1. b = a /\ g = f
        BY <3>2 DEF NodeOf
      <4> QED BY <1>3, <1>5, <4>1
    <3> QED BY <3>1, <3>2 DEF Used
  <2> QED BY <1>1, <1>3, <1>4, <2>1, <2>2 DEF Grows, Mine
<1>7. InOrder(a)'
  BY <1>3 DEF Sound, InOrder
<1>8. ChainIsSafe(a)'
  <2> SUFFICES ASSUME NEW g \in batch[a], NEW h \in batch[a], g < h, NodeOf(a, g) \in nodes'
               PROVE  NodeOf(a, h) \in nodes' \/ h \in Pending(a)'
    BY <1>3 DEF ChainIsSafe
  <2>1. CASE g = f
    <3>1. h \in left[a]
      <4>1. InOrder(a)
        BY DEF Sound
      <4>2. h \notin left[a] => h < f
        BY <1>3, <4>1 DEF InOrder
      <4>3. f \in Nat /\ h \in Nat
        BY <1>2, <1>4, FactsAssumption
      <4> QED BY <2>1, <4>2, <4>3
    <3>2. h # f
      BY <1>2, <1>4, <2>1, FactsAssumption
    <3> QED BY <1>5, <3>1, <3>2
  <2>2. CASE g # f
    <3>1. NodeOf(a, g) \in nodes
      BY <1>1, <2>2 DEF NodeOf
    <3>2. NodeOf(a, h) \in nodes \/ h \in Pending(a)
      BY <1>3, <3>1 DEF Sound, ChainIsSafe
    <3> QED BY <1>1, <1>5, <3>2
  <2> QED BY <2>1, <2>2
<1>9. MentionIsSafe(a)'
  BY <1>3 DEF MentionIsSafe
<1>10. KeepsClear
  BY <1>1, <1>3 DEF KeepsClear
<1>11. InOrderDropped(a)'
  <2> SUFFICES ASSUME NEW g \in batch[a], NEW h \in batch[a], g < h,
                      NodeOf(a, h) \in dropped.nodes, NodeOf(a, g) \in nodes'
               PROVE  NodeOf(a, g) \in dropped.nodes
    BY <1>3 DEF InOrderDropped
  <2>1. NodeOf(a, h) \in nodes
    BY DEF Sound, FlushIsSafe
  <2>2. h \in Facts /\ h \notin left[a]
    BY <1>2, <1>5, <2>1 DEF Sound, OnceOnly, Used
  <2>3. g # f
    <3>1. h < f
      BY <1>3, <2>2 DEF Sound, InOrder
    <3> QED BY <1>2, <1>4, <2>2, <3>1, FactsAssumption
  <2>4. NodeOf(a, g) \in nodes
    BY <1>1, <2>3 DEF NodeOf
  <2> QED BY <2>4 DEF Sound, FlushIsSafe, InOrderDropped
<1> QED BY <1>3, <1>5, <1>6, <1>7, <1>8, <1>9, <1>10, <1>11, ArchiveSafe DEF ArchivePlaces

LEMMA CopiedSafe ==
  ASSUME Sound, NEW a \in Archives, Copied(a)
  PROVE  OwnSafe(a)
<1>1. PICK f \in left[a] :
         /\ First(f, left[a])
         /\ Visits(a, IF left[a] = {f} THEN batch[a] ELSE left[a] \ {f})
         /\ Moves(a, IF left[a] = {f} THEN "chain" ELSE "insert")
  BY DEF Copied
<1>2. a \in Writers /\ left[a] \in SUBSET Facts /\ batch[a] \subseteq Facts /\ left[a] \subseteq batch[a]
  BY Kinds DEF Sound, TypeOK
<1>3. at[a] = "ensure" /\ UNCHANGED L3 /\ batch' = batch /\ InOrderDropped(a)'
  BY SameOrder DEF Copied, L3
<1>4. f \in Facts /\ \A g \in left[a] : (f < g \/ g = f) /\ (First(g, left[a]) => g = f)
  BY <1>1, <1>2, FirstIsLeast
<1>5. Pending(a) = left[a] \ {f}
  BY <1>1, <1>3, <1>4 DEF Pending
<1>6. CASE left[a] = {f}
  <2>1. at'[a] = "chain"
    BY <1>1, <1>2, <1>6 DEF Moves, Sound, TypeOK
  <2>2. Pending(a)' = {} /\ Pending(a) = {}
    BY <1>5, <1>6, <2>1 DEF Pending
  <2>3. InOrder(a)' /\ MentionIsSafe(a)'
    BY <2>1 DEF InOrder, MentionIsSafe
  <2>4. ChainIsSafe(a)'
    BY <1>3, <2>1, <2>2 DEF Sound, ChainIsSafe, L3
  <2> QED BY <1>3, <2>1, <2>2, <2>3, <2>4, SameGraph, ArchiveSafe DEF ArchivePlaces
<1>7. CASE left[a] # {f}
  <2>1. at'[a] = "insert" /\ left'[a] = left[a] \ {f}
    BY <1>1, <1>2, <1>7 DEF Moves, Visits, Sound, TypeOK
  <2>2. Pending(a)' = Pending(a)
    BY <1>5, <2>1 DEF Pending
  <2>3. MentionIsSafe(a)'
    BY <2>1 DEF MentionIsSafe
  <2>4. ChainIsSafe(a)'
    BY <1>3, <2>1, <2>2 DEF Sound, ChainIsSafe, L3
  <2>5. InOrder(a)'
    <3> SUFFICES ASSUME NEW g \in batch[a] \ (left[a] \ {f}), NEW h \in left[a] \ {f} PROVE g < h
      BY <1>3, <2>1 DEF InOrder
    <3>1. InOrder(a)
      BY DEF Sound
    <3>2. CASE g = f
      BY <1>4, <3>2
    <3>3. CASE g # f
      BY <1>3, <3>1, <3>3 DEF InOrder
    <3> QED BY <3>2, <3>3
  <2> QED BY <1>3, <2>1, <2>2, <2>3, <2>4, <2>5, SameGraph, ArchiveSafe DEF ArchivePlaces
<1> QED BY <1>6, <1>7

LEMMA FollowSafe ==
  ASSUME Sound, NEW a \in Archives, Follow(a)
  PROVE  OwnSafe(a)
<1>1. PICK f \in left[a], g \in left[a] :
         /\ First(f, left[a]) /\ First(g, left[a] \ {f})
         /\ AddLink(a, <<NodeOf(a, f), NodeOf(a, g), "FOLLOWS">>,
              Visits(a, left[a] \ {f}) /\ UNCHANGED <<at, names, batch>>)
  BY DEF Follow
<1>2. a \in Writers /\ left[a] \in SUBSET Facts /\ left[a] \subseteq batch[a]
  BY Kinds DEF Sound, TypeOK
<1>3. at[a] = "chain" /\ UNCHANGED <<nodes, entities, dropped, amid>>
  BY DEF Follow
<1>4. CASE Raises(a) /\ UNCHANGED links
  BY <1>2, <1>3, <1>4, RaisedSafe, CallsAssumption DEF L3
<1>5. CASE /\ NodeOf(a, f) \in nodes /\ NodeOf(a, f) \notin dropped.nodes
           /\ <<NodeOf(a, f), NodeOf(a, g), "FOLLOWS">> \notin dropped.links
           /\ links' = links \cup {<<NodeOf(a, f), NodeOf(a, g), "FOLLOWS">>}
           /\ UNCHANGED <<at, batch>>
  <2>1. f < g
    BY <1>1, <1>2, FirstIsLeast DEF First
  <2>2. NodeOf(a, g) \in nodes
    <3>1. Pending(a) = {}
      BY <1>3 DEF Pending
    <3>2. ChainIsSafe(a)
      BY DEF Sound
    <3> QED BY <1>2, <1>3, <1>5, <2>1, <3>1, <3>2 DEF ChainIsSafe
  <2>9. NodeOf(a, g) \notin dropped.nodes
    <3>1. InOrderDropped(a)
      BY DEF Sound, FlushIsSafe
    <3> QED BY <1>2, <1>5, <2>1, <3>1 DEF InOrderDropped
  <2>3. Grows(a) /\ KeepsClear /\ \A l \in links' \ links : Resolves(l)'
    <3> DEFINE row == <<NodeOf(a, f), NodeOf(a, g), "FOLLOWS">>
    <3>1. Resolves(row) /\ row[1] = NodeOf(a, f) /\ row[2] = NodeOf(a, g)
      BY <1>5, <2>2 DEF Resolves
    <3> HIDE DEF row
    <3>2. row[1] \notin dropped.nodes /\ row[2] \notin dropped.nodes
      BY <1>5, <2>9, <3>1
    <3>3. links' = links \cup {row} /\ row \notin dropped.links
      BY <1>5 DEF row
    <3> QED BY <1>3, <3>1, <3>2, <3>3, NewLink
  <2>4. at'[a] = "chain" /\ batch' = batch /\ nodes' = nodes
    BY <1>3, <1>5
  <2>5. Pending(a)' = {} /\ Pending(a) = {}
    BY <1>3, <2>4 DEF Pending
  <2>6. InOrder(a)' /\ MentionIsSafe(a)'
    BY <2>4 DEF InOrder, MentionIsSafe
  <2>7. ChainIsSafe(a)'
    BY <1>3, <2>4, <2>5 DEF Sound, ChainIsSafe
  <2>8. InOrderDropped(a)'
    BY <1>3, <2>4, SameOrder
  <2> QED BY <2>3, <2>4, <2>5, <2>6, <2>7, <2>8, ArchiveSafe DEF ArchivePlaces
<1> QED BY <1>1, <1>4, <1>5 DEF AddLink

LEMMA ChainedSafe ==
  ASSUME Sound, NEW a \in Archives, Chained(a) \/ CleanUp(a)
  PROVE  OwnSafe(a)
<1>1. a \in Writers
  BY Kinds
<1>2. at'[a] = "take" /\ UNCHANGED L3
  BY <1>1 DEF Chained, CleanUp, Cleaned, Moves, calls, Sound, TypeOK
<1>3. Pending(a)' = {}
  BY <1>2 DEF Pending
<1>4. MentionIsSafe(a)' /\ InOrder(a)' /\ ChainIsSafe(a)'
  BY <1>2 DEF MentionIsSafe, InOrder, ChainIsSafe
<1>5. InOrderDropped(a)'
  <2>1. batch' = batch
    BY DEF Chained, CleanUp, Cleaned, calls
  <2> QED BY <1>2, <2>1, SameOrder DEF L3
<1> QED BY <1>2, <1>3, <1>4, <1>5, SameGraph, ArchiveSafe DEF ArchivePlaces

\* What a note has to show.
LEMMA NoteSafe ==
  ASSUME NEW n \in Notes, at'[n] \in NotePlaces \ {"off", "new"},
         left'[n] \subseteq AllNodes, left'[n] \subseteq left[n] \cup nodes,
         at'[n] = "back" => left'[n] # {},
         Grows(n), KeepsClear, \A l \in links' \ links : Resolves(l)',
         MentionIsSafe(n)', SiblingsAreSafe(n)',
         \A m \in Notes : LinkedOrOwed(n, m)' /\ LinkedOrOwed(m, n)'
  PROVE  OwnSafe(n)
BY CallsAssumption DEF OwnSafe, OwnPlace, PlacedNote

LEMMA PickIn == ASSUME NEW S, S # {} PROVE Pick(S) \in S
BY DEF Pick

LEMMA CreateNoteSafe ==
  ASSUME Sound, NEW n \in Notes, CreateNote(n)
  PROVE  OwnSafe(n)
<1>1. n \in Writers /\ n \notin Archives
  BY Kinds, CallsAssumption
<1>2. /\ at[n] = "new" /\ at'[n] = "relate" /\ nodes' = nodes \cup {n}
      /\ amid' = IF Dropping THEN amid \cup {n} ELSE amid
      /\ left' = left /\ links' = links /\ entities' = entities /\ dropped' = dropped
  BY <1>1 DEF CreateNote, AddNode, Moves, Sound, TypeOK
<1>3. Grows(n)
  <2>1. ~Used(n)
    BY <1>2 DEF Used
  <2>2. Used(n)'
    <3>1. \A b \in Archives, g \in Facts : n # NodeOf(b, g)
      BY CallsAssumption DEF NodeOf
    <3> QED BY <1>2, <3>1 DEF Used
  <2> QED BY <1>2, <2>1, <2>2 DEF Grows, Mine
<1>4. left[n] \subseteq AllNodes
  BY DEF Sound, Placed, PlacedNote
<1>5. MentionIsSafe(n)' /\ SiblingsAreSafe(n)'
  BY <1>2 DEF MentionIsSafe, SiblingsAreSafe
<1>6. \A m \in Notes : LinkedOrOwed(n, m)' /\ LinkedOrOwed(m, n)'
  BY <1>2 DEF LinkedOrOwed, HasLooked
<1>7. KeepsClear
  BY <1>2 DEF KeepsClear
<1> QED BY <1>2, <1>3, <1>4, <1>5, <1>6, <1>7, NoteSafe DEF NotePlaces

LEMMA LinkSiblingsSafe ==
  ASSUME Sound, NEW n \in Notes, LinkSiblings(n)
  PROVE  OwnSafe(n)
<1>1. n \in Writers
  BY Kinds
<1>2. /\ at[n] = "relate" /\ at'[n] = "there" /\ left'[n] = Siblings(n) /\ UNCHANGED L3
      /\ \A m \in Writers \ {n} : at'[m] = at[m] /\ left'[m] = left[m]
  BY <1>1 DEF LinkSiblings, Moves, Visits, Sound, TypeOK
<1>3. left'[n] \subseteq nodes /\ nodes \subseteq AllNodes
  BY <1>2 DEF Siblings, Sound, Placed
<1>4. MentionIsSafe(n)' /\ SiblingsAreSafe(n)'
  BY <1>2, <1>3 DEF MentionIsSafe, SiblingsAreSafe, L3
<1>5. ASSUME NEW m \in Notes PROVE LinkedOrOwed(n, m)' /\ LinkedOrOwed(m, n)'
  <2> SUFFICES ASSUME n # m, SessionOf[n] = SessionOf[m], m \in nodes
               PROVE  OwesThere(n, m)' /\ OwesBack(n, m)'
    BY <1>2 DEF LinkedOrOwed, HasLooked, L3
  <2>1. m \in left'[n]
    BY <1>2 DEF Siblings, Source
  <2> QED BY <1>2, <2>1 DEF OwesThere, OwesBack
<1> QED BY <1>2, <1>3, <1>4, <1>5, SameGraph, NoteSafe DEF NotePlaces

LEMMA LinkThereSafe ==
  ASSUME Sound, NEW n \in Notes, LinkThere(n)
  PROVE  OwnSafe(n)
<1> DEFINE p == Pick(left[n])
<1>1. n \in Writers
  BY Kinds
<1>2. at[n] = "there" /\ left[n] # {} /\ UNCHANGED <<nodes, entities, dropped, amid>>
  BY DEF LinkThere
<1>3. p \in left[n]
  BY <1>2, PickIn
<1>4. CASE Raises(n) /\ UNCHANGED links
  BY <1>1, <1>2, <1>4, RaisedSafe, CallsAssumption DEF L3
<1>5. CASE /\ n \in nodes /\ n \notin dropped.nodes /\ <<n, p, "temporal">> \notin dropped.links
           /\ links' = links \cup {<<n, p, "temporal">>} /\ Moves(n, "back") /\ UNCHANGED left
  <2>1. at'[n] = "back" /\ left'[n] = left[n] /\ \A m \in Writers \ {n} : at'[m] = at[m] /\ left'[m] = left[m]
    BY <1>1, <1>5 DEF Moves, Sound, TypeOK
  <2>2. (n \in amid \/ left[n] \subseteq nodes) /\ left[n] \subseteq AllNodes
    BY <1>2, <1>5 DEF Sound, SiblingsAreSafe, Placed, PlacedNote
  <2>3. Grows(n) /\ KeepsClear /\ \A l \in links' \ links : Resolves(l)'
    <3> DEFINE row == <<n, p, "temporal">>
    <3>1. Resolves(row) /\ row[1] = n /\ row[3] # "FOLLOWS"
      BY <1>3, <1>5, <2>2 DEF Resolves
    <3> HIDE DEF row
    <3>2. row[1] \notin dropped.nodes
      BY <1>5, <3>1
    <3>3. links' = links \cup {row} /\ row \notin dropped.links
      BY <1>5 DEF row
    <3> QED BY <1>2, <3>1, <3>2, <3>3, NewLink
  <2>4. MentionIsSafe(n)' /\ SiblingsAreSafe(n)'
    BY <1>2, <1>5, <2>1, <2>2 DEF MentionIsSafe, SiblingsAreSafe
  <2>6. ASSUME NEW m \in Notes PROVE LinkedOrOwed(n, m)' /\ LinkedOrOwed(m, n)'
    <3> SUFFICES ASSUME n # m, SessionOf[n] = SessionOf[m], HasLooked(n)', HasLooked(m)'
                 PROVE  /\ <<n, m, "temporal">> \in links' \/ OwesThere(n, m)' \/ OwesBack(m, n)'
                        /\ <<m, n, "temporal">> \in links' \/ OwesThere(m, n)' \/ OwesBack(n, m)'
      BY DEF LinkedOrOwed
    <3>1. HasLooked(n) /\ HasLooked(m)
      BY <1>2, <1>5, <2>1, Kinds DEF HasLooked
    <3>2. /\ <<n, m, "temporal">> \in links \/ OwesThere(n, m) \/ OwesBack(m, n)
          /\ <<m, n, "temporal">> \in links \/ OwesThere(m, n) \/ OwesBack(n, m)
      BY <3>1 DEF Sound, LinkedOrOwed
    <3>3. OwesThere(n, m) => OwesThere(n, m)' \/ <<n, m, "temporal">> \in links'
      BY <1>2, <1>5, <2>1 DEF OwesThere
    <3>4. OwesBack(n, m) => OwesBack(n, m)'
      BY <2>1 DEF OwesBack
    <3>5. (OwesThere(m, n) => OwesThere(m, n)') /\ (OwesBack(m, n) => OwesBack(m, n)')
      BY <2>1, Kinds DEF OwesThere, OwesBack
    <3> QED BY <1>5, <3>2, <3>3, <3>4, <3>5
  <2> QED BY <1>2, <2>1, <2>2, <2>3, <2>4, <2>6, NoteSafe DEF NotePlaces
<1> QED BY <1>4, <1>5 DEF LinkThere, AddLink

LEMMA LinkBackSafe ==
  ASSUME Sound, NEW n \in Notes, LinkBack(n)
  PROVE  OwnSafe(n)
<1> DEFINE p == Pick(left[n])
<1>1. n \in Writers
  BY Kinds
<1>2. at[n] = "back" /\ left[n] # {} /\ UNCHANGED <<nodes, entities, dropped, amid>>
  BY DEF LinkBack, Sound, Placed, PlacedNote
<1>3. p \in left[n]
  BY <1>2, PickIn
<1>4. CASE Raises(n) /\ UNCHANGED links
  BY <1>1, <1>2, <1>4, RaisedSafe, CallsAssumption DEF L3
<1>5. CASE /\ p \in nodes /\ p \notin dropped.nodes /\ <<p, n, "temporal">> \notin dropped.links
           /\ links' = links \cup {<<p, n, "temporal">>}
           /\ Visits(n, left[n] \ {p}) /\ Moves(n, "there")
  <2>1. at'[n] = "there" /\ left'[n] = left[n] \ {p} /\ \A m \in Writers \ {n} : at'[m] = at[m] /\ left'[m] = left[m]
    BY <1>1, <1>5 DEF Moves, Visits, Sound, TypeOK
  <2>2. n \in nodes \/ p \in amid
    BY <1>2, <1>3, <1>5 DEF Sound, SiblingsAreSafe
  <2>3. (n \in nodes \ amid => left[n] \subseteq nodes) /\ left[n] \subseteq AllNodes
    BY <1>2 DEF Sound, SiblingsAreSafe, Placed, PlacedNote
  <2>4. Grows(n) /\ KeepsClear /\ \A l \in links' \ links : Resolves(l)'
    <3> DEFINE row == <<p, n, "temporal">>
    <3>1. Resolves(row) /\ row[1] = p /\ row[3] # "FOLLOWS"
      BY <1>5, <2>2 DEF Resolves
    <3> HIDE DEF row
    <3>2. row[1] \notin dropped.nodes
      BY <1>5, <3>1
    <3>3. links' = links \cup {row} /\ row \notin dropped.links
      BY <1>5 DEF row
    <3> QED BY <1>2, <3>1, <3>2, <3>3, NewLink
  <2>5. MentionIsSafe(n)' /\ SiblingsAreSafe(n)'
    BY <1>2, <2>1, <2>3 DEF MentionIsSafe, SiblingsAreSafe
  <2>7. ASSUME NEW m \in Notes PROVE LinkedOrOwed(n, m)' /\ LinkedOrOwed(m, n)'
    <3> SUFFICES ASSUME n # m, SessionOf[n] = SessionOf[m], HasLooked(n)', HasLooked(m)'
                 PROVE  /\ <<n, m, "temporal">> \in links' \/ OwesThere(n, m)' \/ OwesBack(m, n)'
                        /\ <<m, n, "temporal">> \in links' \/ OwesThere(m, n)' \/ OwesBack(n, m)'
      BY DEF LinkedOrOwed
    <3>1. HasLooked(n) /\ HasLooked(m)
      BY <1>2, <2>1, Kinds DEF HasLooked
    <3>2. /\ <<n, m, "temporal">> \in links \/ OwesThere(n, m) \/ OwesBack(m, n)
          /\ <<m, n, "temporal">> \in links \/ OwesThere(m, n) \/ OwesBack(n, m)
      BY <3>1 DEF Sound, LinkedOrOwed
    <3>3. OwesThere(n, m) => OwesThere(n, m)'
      BY <1>2, <2>1 DEF OwesThere
    <3>4. OwesBack(n, m) => OwesBack(n, m)' \/ <<m, n, "temporal">> \in links'
      BY <1>5, <2>1 DEF OwesBack
    <3>5. (OwesThere(m, n) => OwesThere(m, n)') /\ (OwesBack(m, n) => OwesBack(m, n)')
      BY <2>1, Kinds DEF OwesThere, OwesBack
    <3> QED BY <1>5, <3>2, <3>3, <3>4, <3>5
  <2> QED BY <2>1, <2>3, <2>4, <2>5, <2>7, NoteSafe DEF NotePlaces
<1> QED BY <1>4, <1>5 DEF LinkBack, AddLink

\* A note that owes no link goes on.
LEMMA SettledNote ==
  ASSUME Sound, NEW n \in Notes, Others(n), nodes' = nodes, links \subseteq links',
         at[n] \in {"ensure", "mention"} \/ (at[n] = "there" /\ left[n] = {}),
         at'[n] \in {"ensure", "mention", "done"}, NEW m \in Notes
  PROVE  LinkedOrOwed(n, m)' /\ LinkedOrOwed(m, n)'
<1> SUFFICES ASSUME n # m, SessionOf[n] = SessionOf[m], HasLooked(n)', HasLooked(m)'
             PROVE  /\ <<n, m, "temporal">> \in links \/ OwesBack(m, n)'
                    /\ <<m, n, "temporal">> \in links \/ OwesThere(m, n)'
  BY DEF LinkedOrOwed
<1>0. at'[m] = at[m] /\ left'[m] = left[m]
  BY Kinds DEF Others
<1>1. HasLooked(n) /\ HasLooked(m)
  BY <1>0 DEF HasLooked
<1>2. ~OwesThere(n, m) /\ ~OwesBack(n, m)
  BY DEF OwesThere, OwesBack
<1>3. /\ <<n, m, "temporal">> \in links \/ OwesBack(m, n)
      /\ <<m, n, "temporal">> \in links \/ OwesThere(m, n)
  BY <1>1, <1>2 DEF Sound, LinkedOrOwed
<1> QED BY <1>0, <1>3 DEF OwesThere, OwesBack

LEMMA RelatedSafe ==
  ASSUME Sound, NEW n \in Notes, Related(n)
  PROVE  OwnSafe(n)
<1>1. n \in Writers /\ Others(n) /\ UNCHANGED L3
  BY Kinds, NoteMoves DEF Note, Sound, Related
<1>2. at[n] = "there" /\ left[n] = {} /\ at'[n] = "ensure" /\ left'[n] = {}
  BY <1>1 DEF Related, Moves, Sound, TypeOK
<1>3. MentionIsSafe(n)' /\ SiblingsAreSafe(n)'
  BY <1>2 DEF MentionIsSafe, SiblingsAreSafe
<1>4. \A m \in Notes : LinkedOrOwed(n, m)' /\ LinkedOrOwed(m, n)'
  BY <1>1, <1>2, SettledNote DEF L3
<1> QED BY <1>1, <1>2, <1>3, <1>4, SameGraph, NoteSafe DEF NotePlaces

\* A flush outside its transaction, or before its DELETE of the nodes, is alone.
LEMMA NotDropping ==
  ASSUME Sound, NEW x \in Flushes, at[x] \notin Idle \cup {"entities", "commit"}
  PROVE  ~Dropping /\ dropped.nodes = {}
BY DEF Sound, FlushIsSafe, Dropping, Idle

\* Nothing is deleted and uncommitted.
LEMMA NothingDropped ==
  ASSUME NEW x \in Flushes, dropped'.nodes = {}, ~Dropping',
         \A y, z \in Flushes : at'[y] \in Idle \/ at'[z] \in Idle \/ y = z
  PROVE  FlushIsSafe'
BY DEF FlushIsSafe, InOrderDropped

\* A flush that is over leaves no other in its transaction.
LEMMA FlushEnds ==
  ASSUME Sound, NEW x \in Flushes, at[x] \notin Idle, Others(x), at'[x] \in {"done", "raised"},
         dropped' = NoRows
  PROVE  FlushIsSafe'
<1>1. \A y \in Flushes : y # x => at'[y] = at[y] /\ at'[y] \in Idle
  BY Kinds DEF Sound, FlushIsSafe, Others
<1>2. at'[x] \in Idle
  BY DEF Idle
<1>3. ~Dropping'
  BY <1>1, <1>2 DEF Dropping, Idle
<1>4. dropped'.nodes = {}
  BY DEF NoRows
<1> QED BY <1>1, <1>2, <1>3, <1>4, NothingDropped

LEMMA FlushSafe ==
  ASSUME Sound, NEW x \in Flushes, Flush(x)
  PROVE  OwnSafe(x)
<1>1. x \in Writers /\ x \notin Archives /\ x \notin Notes /\ Others(x)
  BY Kinds, CallsAssumption, FlushMoves DEF Sound
<1>2. \A y \in Flushes : y # x => at'[y] = at[y]
  BY <1>1, Kinds DEF Others
<1>3. ASSUME at'[x] \in {"delete", "nodes", "entities", "commit", "done"}, left'[x] \subseteq Facts
      PROVE  OwnPlace(x) /\ MentionIsSafe(x)'
  BY <1>1, <1>3 DEF OwnPlace, PlacedFlush, FlushPlaces, MentionIsSafe
<1>4. ASSUME at[x] \notin Idle
      PROVE  \A y, z \in Flushes : at'[y] \in Idle \/ at'[z] \in Idle \/ y = z
  BY <1>2, <1>4 DEF Sound, FlushIsSafe
<1>5. CASE BeginFlush(x)
  <2>1. at'[x] = "delete" /\ left'[x] \subseteq Facts /\ UNCHANGED L3
    BY <1>1, <1>5 DEF BeginFlush, Moves, Visits, InRedis, Sound, TypeOK
  <2>2. \A y \in Flushes : y # x => at'[y] \in Idle
    BY <1>2, <1>5 DEF BeginFlush, Idle
  <2>3. ~Dropping' /\ ~Dropping
    BY <1>5, <2>1, <2>2 DEF Dropping, Idle, BeginFlush
  <2>4. dropped'.nodes = {}
    BY <2>1, <2>3 DEF L3, Sound, FlushIsSafe
  <2>5. FlushIsSafe'
    BY <2>2, <2>3, <2>4, NothingDropped
  <2> QED BY <1>1, <1>3, <2>1, <2>5, SameGraph DEF OwnSafe
<1>6. CASE DeleteFact(x)
  <2>1. at[x] = "delete" /\ at'[x] = "delete" /\ left'[x] \subseteq Facts /\ UNCHANGED L3
    BY <1>1, <1>6 DEF DeleteFact, Moves, Visits, Sound, TypeOK, Placed, PlacedFlush
  <2>2. at[x] \notin Idle \cup {"entities", "commit"}
    BY <2>1 DEF Idle
  <2>3. ~Dropping /\ dropped.nodes = {}
    BY <2>2, NotDropping
  <2>4. ~Dropping'
    BY <1>2, <2>1, <2>3 DEF Dropping
  <2>5. FlushIsSafe'
    BY <1>4, <2>1, <2>2, <2>3, <2>4, NothingDropped DEF L3
  <2> QED BY <1>1, <1>3, <2>1, <2>5, SameGraph DEF OwnSafe
<1>7. ASSUME NEW taken, NEW to \in {"nodes", "entities", "commit"}, Drops(x, taken, to), FlushIsSafe'
      PROVE  OwnSafe(x)
  <2>1. at'[x] = to /\ left' = left /\ UNCHANGED <<nodes, links, entities, amid>>
    BY <1>1, <1>7 DEF Drops, Moves, Sound, TypeOK
  <2>2. left'[x] \subseteq Facts
    BY <2>1 DEF Sound, Placed, PlacedFlush
  <2>3. Grows(x) /\ links' \ links = {}
    BY <2>1 DEF Grows
  <2> QED BY <1>1, <1>3, <1>7, <2>1, <2>2, <2>3 DEF OwnSafe
<1>8. CASE DropLinks(x)
  <2>1. at[x] = "delete" /\ at'[x] = "nodes" /\ dropped'.nodes = dropped.nodes
    BY <1>1, <1>8 DEF DropLinks, Drops, Moves, Sound, TypeOK
  <2>2. at[x] \notin Idle \cup {"entities", "commit"}
    BY <2>1 DEF Idle
  <2>3. ~Dropping /\ dropped.nodes = {}
    BY <2>2, NotDropping
  <2>4. ~Dropping'
    BY <1>2, <2>1, <2>3 DEF Dropping
  <2>5. FlushIsSafe'
    BY <1>4, <2>1, <2>2, <2>3, <2>4, NothingDropped
  <2> QED BY <1>7, <1>8, <2>5 DEF DropLinks
<1>9. CASE DropNodes(x)
  <2>1. /\ at[x] = "nodes" /\ at'[x] = "entities" /\ UNCHANGED <<nodes, links, amid>>
        /\ dropped'.nodes = nodes /\ dropped'.links = {l \in links : l[1] \in nodes}
    BY <1>1, <1>9 DEF DropNodes, Drops, Moves, Sound, TypeOK
  <2>2. at[x] \notin Idle
    BY <2>1 DEF Idle
  <2>3. \A l \in links : l[1] \in nodes
    BY DEF Sound, LinksResolve
  <2>4. \A a \in Archives : InOrderDropped(a)'
    BY <2>1 DEF InOrderDropped
  <2>5. Dropping'
    BY <2>1 DEF Dropping
  <2>6. FlushIsSafe'
    BY <1>4, <2>1, <2>2, <2>3, <2>4, <2>5 DEF FlushIsSafe
  <2> QED BY <1>7, <1>9, <2>6 DEF DropNodes
<1>10. CASE DropEntities(x)
  <2>1. /\ at[x] = "entities" /\ at'[x] = "commit" /\ UNCHANGED <<nodes, links, amid, batch>>
        /\ dropped'.nodes = dropped.nodes /\ dropped'.links = dropped.links
    BY <1>1, <1>10 DEF DropEntities, Drops, Moves, Sound, TypeOK
  <2>2. at[x] \notin Idle
    BY <2>1 DEF Idle
  <2>3. Dropping' /\ Dropping
    BY <2>1 DEF Dropping
  <2>4. \A a \in Archives : InOrderDropped(a)'
    BY <2>1 DEF InOrderDropped, Sound, FlushIsSafe
  <2>5. FlushIsSafe'
    BY <1>4, <2>1, <2>2, <2>3, <2>4 DEF FlushIsSafe, Sound
  <2> QED BY <1>7, <1>10, <2>5 DEF DropEntities
<1>11. CASE CommitDrops(x)
  <2>1. at[x] = "commit" /\ at'[x] = "done" /\ left' = left /\ dropped' = NoRows
    BY <1>1, <1>11 DEF CommitDrops, Moves, Sound, TypeOK
  <2>2. FlushIsSafe'
    BY <1>1, <2>1, FlushEnds DEF Idle
  <2>3. Erases(x) /\ links' \ links = {}
    BY <1>11, <2>1 DEF Erases, CommitDrops, Dropping
  <2>4. left'[x] \subseteq Facts
    BY <2>1 DEF Sound, Placed, PlacedFlush
  <2> QED BY <1>1, <1>3, <2>1, <2>2, <2>3, <2>4 DEF OwnSafe
<1> QED BY <1>5, <1>6, <1>8, <1>9, <1>10, <1>11 DEF Flush

\* A flush that is cut short has deleted nothing.
LEMMA FlushBreaksSafe ==
  ASSUME Sound, NEW x \in Flushes, Breaks(x)
  PROVE  OwnSafe(x)
<1>1. x \in Writers /\ x \notin Archives /\ x \notin Notes /\ Others(x)
  BY Kinds, CallsAssumption, WriterMoves DEF Sound
<1>2. /\ at[x] \notin Idle /\ at'[x] = "raised" /\ left'[x] = {} /\ dropped' = NoRows
      /\ UNCHANGED <<nodes, links, entities, amid>>
  BY <1>1 DEF Breaks, Raises, Moves, Visits, Sound, TypeOK, Idle
<1>3. FlushIsSafe'
  BY <1>1, <1>2, FlushEnds
<1>4. OwnPlace(x) /\ MentionIsSafe(x)'
  BY <1>1, <1>2 DEF OwnPlace, PlacedFlush, FlushPlaces, MentionIsSafe
<1>5. Grows(x) /\ links' \ links = {}
  BY <1>2 DEF Grows
<1> QED BY <1>1, <1>3, <1>4, <1>5 DEF OwnSafe

\* The statements that archives and notes have in common leave the chain and the
\* siblings as they are.
LEMMA CommonSafe ==
  ASSUME Sound, NEW w \in Archives \cup Notes, Others(w), UNCHANGED <<nodes, left, batch>>,
         at[w] \in {"ensure", "mention"} \/ (w \in Archives /\ at[w] = "take"),
         w \in Notes => at'[w] \in {"ensure", "mention", "done"},
         w \in Archives => \/ at[w] = "take" /\ at'[w] = "done"
                           \/ at[w] # "take" /\ at'[w] \in {"ensure", "mention"},
         Grows(w), KeepsClear,
         \A l \in links' \ links : Resolves(l)', MentionIsSafe(w)'
  PROVE  OwnSafe(w)
<1>1. links \subseteq links'
  BY DEF Grows
<1>2. CASE w \in Notes
  <2>1. left'[w] \subseteq AllNodes
    BY <1>2 DEF Sound, Placed, PlacedNote
  <2>2. w \notin Archives
    BY <1>2, CallsAssumption
  <2>3. SiblingsAreSafe(w)' /\ at'[w] # "back"
    BY <1>2 DEF SiblingsAreSafe
  <2>4. \A m \in Notes : LinkedOrOwed(w, m)' /\ LinkedOrOwed(m, w)'
    <3>1. at[w] \in {"ensure", "mention"} /\ at'[w] \in {"ensure", "mention", "done"} /\ nodes' = nodes
      BY <1>2, <2>2
    <3> SUFFICES ASSUME NEW m \in Notes PROVE LinkedOrOwed(w, m)' /\ LinkedOrOwed(m, w)'
      OBVIOUS
    <3> QED BY <1>1, <1>2, <3>1, SettledNote
  <2> QED BY <1>1, <1>2, <2>1, <2>3, <2>4, NoteSafe DEF NotePlaces
<1>3. CASE w \in Archives
  <2>1. Pending(w)' = Pending(w)
    BY <1>3 DEF Pending
  <2>2. InOrder(w)'
    BY <1>3 DEF Sound, InOrder
  <2>3. ChainIsSafe(w)'
    BY <1>3, <2>1 DEF Sound, ChainIsSafe
  <2>4. InOrderDropped(w)'
    BY <1>3, SameOrder DEF KeepsClear
  <2> QED BY <1>1, <1>3, <2>1, <2>2, <2>3, <2>4, ArchiveSafe DEF ArchivePlaces
<1> QED BY <1>2, <1>3

LEMMA WriterSafe ==
  ASSUME Sound, NEW w \in Writers, EnsureEntity(w) \/ Mention(w) \/ Returns(w) \/ Breaks(w)
  PROVE  OwnSafe(w)
<1>1. Others(w)
  BY WriterMoves DEF Sound
<1>2. at[w] \in {"ensure", "mention"} => w \in Archives \cup Notes
  BY DEF Sound, Placed, PlacedFlush, FlushPlaces, Writers
<1>3. CASE EnsureEntity(w)
  <2>1. /\ at[w] = "ensure" /\ at'[w] = "mention" /\ entities' = entities \cup {Pick(names[w])}
        /\ UNCHANGED <<nodes, links, dropped, amid, left, names, batch>>
    BY <1>3 DEF EnsureEntity, Moves, Sound, TypeOK
  <2>2. MentionIsSafe(w)'
    BY <2>1 DEF MentionIsSafe
  <2>3. Grows(w) /\ KeepsClear
    BY <2>1 DEF Grows, KeepsClear
  <2> QED BY <1>1, <1>2, <2>1, <2>2, <2>3, CommonSafe
<1>4. CASE Mention(w)
  <2>1. at[w] = "mention" /\ UNCHANGED <<nodes, entities, dropped, amid>> /\ w \notin Flushes
    BY <1>2, <1>4, CallsAssumption DEF Mention
  <2>2. PICK n \in Subject(w) :
           AddLink(w, <<n, Pick(names[w]), "mentions">>,
             Naming(w, names[w] \ {Pick(names[w])}) /\ Moves(w, "ensure") /\ UNCHANGED <<left, batch>>)
    BY <1>4 DEF Mention
  <2>3. CASE Raises(w) /\ UNCHANGED links
    BY <2>1, <2>3, RaisedSafe DEF L3
  <2>4. CASE /\ n \in nodes /\ n \notin dropped.nodes
             /\ <<n, Pick(names[w]), "mentions">> \notin dropped.links
             /\ links' = links \cup {<<n, Pick(names[w]), "mentions">>}
             /\ Moves(w, "ensure") /\ UNCHANGED <<left, batch>>
    <3>1. Pick(names[w]) \in entities \/ n \in amid
      BY <2>1, <2>2, <2>4 DEF Sound, MentionIsSafe
    <3>2. Grows(w) /\ KeepsClear /\ \A l \in links' \ links : Resolves(l)'
      <4> DEFINE row == <<n, Pick(names[w]), "mentions">>
      <4>1. Resolves(row) /\ row[1] = n /\ row[3] # "FOLLOWS"
        BY <2>4, <3>1 DEF Resolves
      <4> HIDE DEF row
      <4>2. row[1] \notin dropped.nodes
        BY <2>4, <4>1
      <4>3. links' = links \cup {row} /\ row \notin dropped.links
        BY <2>4 DEF row
      <4> QED BY <2>1, <4>1, <4>2, <4>3, NewLink
    <3>3. at'[w] = "ensure"
      BY <2>4 DEF Moves, Sound, TypeOK
    <3>4. MentionIsSafe(w)'
      BY <3>3 DEF MentionIsSafe
    <3> QED BY <1>1, <1>2, <2>1, <2>4, <3>2, <3>3, <3>4, CommonSafe
  <2> QED BY <2>2, <2>3, <2>4 DEF AddLink
<1>5. CASE Returns(w)
  <2>1. at'[w] = "done" /\ UNCHANGED <<nodes, links, entities, left, batch>> /\ UNCHANGED L3
    BY <1>5 DEF Returns, Moves, L3, Sound, TypeOK
  <2>2. MentionIsSafe(w)'
    BY <2>1 DEF MentionIsSafe
  <2>3. (w \in Notes /\ at[w] = "ensure") \/ (w \in Archives /\ at[w] = "take")
    BY <1>5 DEF Returns
  <2>4. w \in Archives \cup Notes /\ ~(w \in Archives /\ w \in Notes)
    BY <2>3, CallsAssumption
  <2>5. Grows(w) /\ KeepsClear /\ links' \ links = {}
    BY <2>1, SameGraph
  <2> QED BY <1>1, <2>1, <2>2, <2>3, <2>4, <2>5, CommonSafe
<1>6. CASE Breaks(w)
  BY <1>6, RaisedSafe, FlushBreaksSafe DEF Breaks, L3
<1> QED BY <1>3, <1>4, <1>5, <1>6

-----------------------------------------------------------------------------

LEMMA SoundInit == Init => Sound
<1> SUFFICES ASSUME Init PROVE Sound
  OBVIOUS
<1>1. TypeOK
  BY InitInv DEF Inv
<1>2. /\ \A w \in Writers : at[w] \in {"off", "new"} /\ left[w] = {}
      /\ nodes = {} /\ links = {}
  BY DEF Init
<1>3. Placed
  BY <1>2, Kinds DEF Placed, PlacedArchive, PlacedNote, PlacedFlush, ArchivePlaces, NotePlaces, FlushPlaces
<1>4. OnceOnly /\ LinksResolve
  BY <1>2, Kinds DEF OnceOnly, LinksResolve
<1>8. FlushIsSafe
  <2>1. dropped.nodes = {} /\ \A x \in Flushes : at[x] \in {"off", "new"}
    BY <1>2, Kinds DEF Init, NoRows
  <2>2. ~Dropping
    BY <2>1 DEF Dropping
  <2> QED BY <1>2, <2>1, <2>2 DEF FlushIsSafe, InOrderDropped, Idle
<1>5. \A w \in Writers : MentionIsSafe(w)
  BY <1>2 DEF MentionIsSafe
<1>6. \A a \in Archives : InOrder(a) /\ ChainIsSafe(a)
  BY <1>2, Kinds DEF InOrder, ChainIsSafe
<1>7. (\A n \in Notes : SiblingsAreSafe(n)) /\ \A n, m \in Notes : LinkedOrOwed(n, m)
  BY <1>2, Kinds DEF SiblingsAreSafe, LinkedOrOwed, HasLooked
<1> QED BY <1>1, <1>3, <1>4, <1>5, <1>6, <1>7, <1>8 DEF Sound

LEMMA SoundL2 == Sound /\ TypeOK' /\ UNCHANGED <<L3, calls>> => Sound'
<1> SUFFICES ASSUME Sound, TypeOK', UNCHANGED <<L3, calls>> PROVE Sound'
  OBVIOUS
<1> USE DEF L3, calls
<1>1. Placed' /\ OnceOnly'
  BY DEF Sound, Placed, PlacedArchive, PlacedNote, PlacedFlush, OnceOnly, Used, Pending
<1>2. LinksResolve'
  BY DEF Sound, LinksResolve
<1>3. \A w \in Writers : MentionIsSafe(w)'
  BY DEF Sound, MentionIsSafe, Subject
<1>4. \A a \in Archives : InOrder(a)' /\ ChainIsSafe(a)'
  BY DEF Sound, InOrder, ChainIsSafe, Pending
<1>5. \A n \in Notes : SiblingsAreSafe(n)'
  BY DEF Sound, SiblingsAreSafe
<1>6. \A n, m \in Notes : LinkedOrOwed(n, m)'
  BY DEF Sound, LinkedOrOwed, HasLooked, OwesThere, OwesBack
<1>7. FlushIsSafe'
  BY DEF Sound, FlushIsSafe, Dropping, InOrderDropped
<1> QED BY <1>1, <1>2, <1>3, <1>4, <1>5, <1>6, <1>7 DEF Sound

LEMMA SoundStep == Sound /\ TypeOK' /\ [Next]_vars => Sound'
<1> SUFFICES ASSUME Sound, TypeOK', [Next]_vars PROVE Sound'
  OBVIOUS
<1>0. TypeOK
  BY DEF Sound
<1>1. CASE \E f \in Facts : Out(f) \/ SetExpiry(f) \/ Expires(f)
  BY <1>1, SoundL2 DEF Out, SetExpiry, Expires
<1>2. CASE ScriptsFlushed \/ Connect
  BY <1>2, SoundL2 DEF ScriptsFlushed, Connect
<1>3. CASE \E c \in Consumers : Consume(c)
  BY <1>3, SoundL2 DEF Consume
<1>4. ASSUME NEW a \in Archives, Archive(a) PROVE Sound'
  <2>1. WritersKeep /\ Others(a)
    BY <1>0, <1>4, ArchiveMoves, BeginArchiveMoves DEF Archive
  <2>2. OwnSafe(a)
    BY <1>4, BeginArchiveSafe, CreateNodeSafe, CopiedSafe, FollowSafe, ChainedSafe DEF Archive
  <2> QED BY <2>1, <2>2, StepSound, Kinds
<1>5. ASSUME NEW n \in Notes, Note(n) PROVE Sound'
  <2>1. WritersKeep /\ Others(n)
    BY <1>0, <1>5, NoteMoves
  <2>2. OwnSafe(n)
    BY <1>5, CreateNoteSafe, LinkSiblingsSafe, LinkThereSafe, LinkBackSafe, RelatedSafe DEF Note
  <2> QED BY <2>1, <2>2, StepSound, Kinds
<1>6. ASSUME NEW x \in Flushes, Flush(x) PROVE Sound'
  BY <1>0, <1>6, FlushMoves, FlushSafe, StepSound, Kinds
<1>7. ASSUME NEW w \in Writers, EnsureEntity(w) \/ Mention(w) \/ Returns(w) \/ Breaks(w) PROVE Sound'
  BY <1>0, <1>7, WriterMoves, WriterSafe, StepSound
<1>8. CASE UNCHANGED vars
  BY <1>8, SoundL2 DEF vars
<1> QED BY <1>1, <1>2, <1>3, <1>4, <1>5, <1>6, <1>7, <1>8 DEF Next

LEMMA Soundness == Spec => []Sound
<1>1. Sound /\ TypeOK' /\ [Next]_vars => Sound'
  BY SoundStep
<1> QED BY <1>1, SoundInit, TypeCorrect, PTL DEF Spec

\* create_link, create_note, archive_job and cmd_flush (postgres.py 104-119,
\* archiver.py 69-81, cli.py 432-440): only an edge at a node that was inserted in
\* the middle of a flush can dangle, and none of a chain, however the statements
\* of the calls and of the flush interleave and wherever one of them raises.
THEOREM EdgesResolve == Spec => []LinksResolve
<1>1. Sound => LinksResolve
  BY DEF Sound
<1> QED BY <1>1, Soundness, PTL

\* create_note (mcp_server.py 287-294): two notes of a session whose calls have
\* returned lead to each other, whichever looked for its siblings first.
THEOREM NotesMeet == Spec => []SiblingsLinked
<1>1. Sound => SiblingsLinked
  <2> SUFFICES ASSUME Sound, NEW n \in Notes \cap nodes, NEW m \in Notes \cap nodes,
                      n # m, SessionOf[n] = SessionOf[m], at[n] = "done", at[m] = "done"
               PROVE  <<n, m, "temporal">> \in links
    BY DEF SiblingsLinked
  <2>1. HasLooked(n) /\ HasLooked(m)
    BY DEF HasLooked
  <2>2. ~OwesThere(n, m) /\ ~OwesBack(m, n)
    BY DEF OwesThere, OwesBack
  <2> QED BY <2>1, <2>2 DEF Sound, LinkedOrOwed
<1> QED BY <1>1, Soundness, PTL

-----------------------------------------------------------------------------
(* The clean-up.                                                           *)

LEMMA NotDoneYet ==
  ASSUME NEW w \in Writers,
         \/ (w \in Archives /\ Archive(w)) \/ (w \in Notes /\ Note(w)) \/ (w \in Flushes /\ Flush(w))
         \/ EnsureEntity(w) \/ Mention(w) \/ Returns(w) \/ Breaks(w)
  PROVE  at[w] \notin {"done", "raised"}
<1>1. CASE w \in Archives /\ Archive(w)
  BY <1>1 DEF Archive, BeginArchive, CreateNode, Copied, Follow, Chained, CleanUp
<1>2. CASE w \in Notes /\ Note(w)
  BY <1>2 DEF Note, CreateNote, LinkSiblings, LinkThere, LinkBack, Related
<1>3. CASE w \in Flushes /\ Flush(w)
  BY <1>3 DEF Flush, BeginFlush, DeleteFact, DropLinks, DropNodes, DropEntities, CommitDrops
<1>4. CASE EnsureEntity(w) \/ Mention(w) \/ Returns(w) \/ Breaks(w)
  BY <1>4 DEF EnsureEntity, Mention, Returns, Breaks
<1> QED BY <1>1, <1>2, <1>3, <1>4

\* A flush that is over stays over.
LEMMA ErasedKept ==
  ASSUME NEW w \in Writers, Others(w), at[w] # "done", Erased
  PROVE  Erased'
BY Kinds DEF Others, Erased

\* What it has removed stays as it is.
SameRemovals(a) == Popped(a)' = Popped(a) /\ Returned(a)' = Returned(a)

LEMMA GotKept ==
  ASSUME NEW a, got' = got
  PROVE  SameRemovals(a)
BY DEF SameRemovals, Popped, Returned, Removed

\* A step that is neither the archive's own nor a taking of its own.
LEMMA CarefulKept ==
  ASSUME NEW a \in Archives, Careful(a), SameRemovals(a), taking'[a] = taking[a],
         at'[a] = at[a], left'[a] = left[a], batch'[a] = batch[a], batch[a] \subseteq Facts,
         Erased => Erased',
         Erased' \/ \A f \in Facts : NodeOf(a, f) \in nodes => NodeOf(a, f) \in nodes'
  PROVE  Careful(a)'
<1>1. Pending(a)' = Pending(a) /\ Asked(a)' = Asked(a)
  BY DEF Pending, Asked
<1>2. CopiedOrErased(a)'
  BY <1>1 DEF Careful, CopiedOrErased, SameRemovals
<1>3. CleansLast(a)'
  BY DEF Careful, CleansLast, SameRemovals
<1>4. CleansInProportion(a)'
  BY <1>1 DEF Careful, CleansInProportion, With, SameRemovals
<1> QED BY <1>2, <1>3, <1>4 DEF Careful

\* Before the clean-up nothing was removed and nothing is being removed.
LEMMA NotYetCleaning ==
  ASSUME NEW a \in Archives, Careful(a), at[a] \notin {"take", "done", "raised"}
  PROVE  Popped(a) = {} /\ taking[a] = NotTaking
BY DEF Careful, CleansLast

LEMMA Bounded ==
  ASSUME NEW S \in SUBSET Facts, NEW k
  PROVE  IsFiniteSet(With(S, k)) /\ Cardinality(With(S, k)) \in Nat
<1>1. With(S, k) \in SUBSET Facts
  BY DEF With
<1> QED BY <1>1, FactsAssumption, FS_Subset, FS_CardinalityType

LEMMA BeforeCleaning ==
  ASSUME NEW a \in Archives, Popped(a)' = {}, taking'[a] = NotTaking, CopiedOrErased(a)',
         batch'[a] \subseteq Facts
  PROVE  Careful(a)'
<1>1. CleansLast(a)'
  BY DEF CleansLast
<1>0. Returned(a)' = {}
  BY DEF Popped, Returned, Removed, Paths
<1>2. ASSUME NEW k PROVE Cardinality(With({}, k)) <= Cardinality(With(Asked(a)', k))
  <2>1. With({}, k) = {}
    BY DEF With
  <2>2. Asked(a)' \in SUBSET Facts
    BY DEF Asked
  <2> QED BY <2>1, <2>2, Bounded, FS_EmptySet
<1>3. CleansInProportion(a)'
  BY <1>0, <1>2 DEF CleansInProportion, With
<1> QED BY <1>1, <1>3 DEF Careful

\* An archive's own statements before the clean-up.
LEMMA CopyingCareful ==
  ASSUME Tidy, Sound', NEW a \in Archives,
         BeginArchive(a) \/ CreateNode(a) \/ Copied(a) \/ Follow(a) \/ Chained(a)
                         \/ EnsureEntity(a) \/ Mention(a)
  PROVE  Careful(a)'
<1>0. a \in Writers /\ a \in Clients
  BY Kinds
<1>1. at[a] \notin {"take", "done", "raised"}
  BY DEF BeginArchive, CreateNode, Copied, Follow, Chained, EnsureEntity, Mention
<1>2. Popped(a) = {} /\ taking[a] = NotTaking
  BY <1>1, NotYetCleaning DEF Tidy
<1>3. UNCHANGED L2
  BY BeginArchiveMoves DEF Tidy, Sound, BeginArchive, CreateNode, Copied, Follow, Chained, EnsureEntity, Mention
<1>4. Popped(a)' = {} /\ taking'[a] = NotTaking
  BY <1>2, <1>3 DEF Popped, Removed, L2
<1>5. batch'[a] \subseteq Facts /\ batch[a] \subseteq Facts /\ left[a] \subseteq batch[a]
  BY DEF Sound, TypeOK, Tidy
<1>6. CASE BeginArchive(a)
  <2>1. PICK P \in Pages : LET mine == {f \in P : JobOf[f] = ArchiveOf[a]} IN
       /\ batch' = [batch EXCEPT ![a] = mine]
       /\ Visits(a, mine)
       /\ Moves(a, IF mine = {} THEN "done" ELSE "insert")
    BY <1>6 DEF BeginArchive
  <2>2. left'[a] = batch'[a] /\ at'[a] = IF batch'[a] = {} THEN "done" ELSE "insert"
    BY <1>0, <2>1 DEF Tidy, Sound, TypeOK, Visits, Moves
  <2>3. \A f \in batch'[a] : f \in Pending(a)'
    BY <2>2 DEF Pending
  <2> QED BY <1>4, <1>5, <2>3, BeforeCleaning DEF CopiedOrErased
<1>7. CASE ~BeginArchive(a)
  <2>1. batch'[a] = batch[a] /\ nodes \subseteq nodes' /\ at[a] \in {"insert", "ensure", "mention", "chain"}
    BY <1>7 DEF CreateNode, AddNode, Copied, Follow, Chained, EnsureEntity, Mention, AddLink, Raises, L3
  <2>2. Erased => Erased'
    <3>1. Others(a)
      BY <1>0, <1>7, ArchiveMoves, WriterMoves DEF Tidy, Sound
    <3> QED BY <1>0, <1>1, <3>1, ErasedKept
  <2>3. Erased \/ \A f \in batch[a] : f \in Pending(a) \/ NodeOf(a, f) \in nodes
    BY <2>1 DEF Tidy, Careful, CopiedOrErased
  <2>4. \/ at'[a] = "raised"
        \/ \A f \in Pending(a) : f \in Pending(a)' \/ NodeOf(a, f) \in nodes'
    <3>1. CASE Raises(a)
      BY <1>0, <3>1 DEF Raises, Moves, Tidy, Sound, TypeOK
    <3>2. CASE CreateNode(a)
      <4>1. PICK f \in left[a] : First(f, left[a]) /\ nodes' = nodes \cup {NodeOf(a, f)}
        BY <3>2 DEF CreateNode, AddNode
      <4>2. at'[a] = "ensure" /\ left'[a] = left[a]
        BY <1>0, <3>2 DEF CreateNode, Moves, Tidy, Sound, TypeOK
      <4>3. \A g \in left[a] : First(g, left[a]) => g = f
        BY <1>5, <4>1, FirstIsLeast
      <4> QED BY <4>1, <4>2, <4>3 DEF Pending
    <3>3. CASE Copied(a)
      <4>1. PICK f \in left[a] :
               /\ First(f, left[a])
               /\ Visits(a, IF left[a] = {f} THEN batch[a] ELSE left[a] \ {f})
               /\ Moves(a, IF left[a] = {f} THEN "chain" ELSE "insert")
        BY <3>3 DEF Copied
      <4>2. Pending(a) \subseteq left[a] \ {f}
        BY <3>3, <4>1 DEF Pending, Copied
      <4>3. CASE left[a] = {f}
        BY <4>2, <4>3
      <4>4. CASE left[a] # {f}
        <5>1. at'[a] = "insert" /\ left'[a] = left[a] \ {f}
          BY <1>0, <4>1, <4>4 DEF Moves, Visits, Tidy, Sound, TypeOK
        <5> QED BY <4>2, <5>1 DEF Pending
      <4> QED BY <4>3, <4>4
    <3>4. CASE Follow(a) \/ Chained(a)
      BY <3>4 DEF Pending, Follow, Chained
    <3>5. CASE EnsureEntity(a)
      <4>1. at[a] = "ensure" /\ at'[a] = "mention" /\ left'[a] = left[a]
        BY <1>0, <3>5 DEF EnsureEntity, Moves, Tidy, Sound, TypeOK
      <4> QED BY <4>1 DEF Pending
    <3>6. CASE Mention(a) /\ ~Raises(a)
      <4>1. at[a] = "mention" /\ Moves(a, "ensure") /\ left' = left
        BY <3>6 DEF Mention, AddLink
      <4>2. at'[a] = "ensure"
        BY <1>0, <4>1 DEF Moves, Tidy, Sound, TypeOK
      <4> QED BY <4>1, <4>2 DEF Pending
    <3> QED BY <1>7, <3>1, <3>2, <3>3, <3>4, <3>5, <3>6
  <2>5. CopiedOrErased(a)'
    BY <1>4, <2>1, <2>2, <2>3, <2>4 DEF CopiedOrErased
  <2> QED BY <1>4, <1>5, <2>5, BeforeCleaning
<1> QED BY <1>6, <1>7

\* The end of an archive, whichever it is.
LEMMA EndingCareful ==
  ASSUME Tidy, NEW a \in Archives, Returns(a) \/ Breaks(a)
  PROVE  Careful(a)'
<1>0. a \in Writers /\ a \in Clients /\ a \notin Notes /\ Others(a)
  BY Kinds, CallsAssumption, WriterMoves DEF Tidy, Sound
<1>1. got' = got /\ nodes' = nodes /\ batch' = batch
  BY DEF Returns, Breaks, Raises, L2, L3
<1>2. Popped(a)' = Popped(a) /\ Returned(a)' = Returned(a)
  BY <1>1, GotKept DEF SameRemovals
<1>3. at'[a] \in {"done", "raised"} /\ (at'[a] = "done" => Returns(a))
  BY <1>0 DEF Returns, Breaks, Raises, Moves, Tidy, Sound, TypeOK
<1>4. taking'[a] = NotTaking
  <2>1. CASE Returns(a)
    BY <1>0, <2>1 DEF Returns, L2, Tidy, Careful, CleansLast
  <2>2. CASE Breaks(a)
    BY <1>0, <2>2 DEF Breaks
  <2> QED BY <2>1, <2>2
<1>5. Popped(a) # {} \/ Returns(a) => at[a] = "take"
  <2>1. at[a] \notin {"done", "raised"}
    BY <1>0, NotDoneYet
  <2> QED BY <1>0, <2>1 DEF Returns, Tidy, Careful, CleansLast
<1>6. CopiedOrErased(a)'
  <2>1. Erased => Erased'
    BY <1>0, NotDoneYet, ErasedKept
  <2>2. at[a] = "take" => Erased \/ \A f \in batch[a] : NodeOf(a, f) \in nodes
    BY DEF Tidy, Careful, CopiedOrErased, Pending
  <2> QED BY <1>1, <1>2, <1>3, <1>5, <2>1, <2>2 DEF CopiedOrErased
<1>7. CleansInProportion(a)'
  <2> SUFFICES ASSUME NEW f \in Facts
               PROVE  Cardinality(With(Returned(a), KeyOf[f])) <= Cardinality(With(batch[a], KeyOf[f]))
    BY <1>1, <1>2, <1>3 DEF CleansInProportion, Asked, With
  <2> DEFINE k == KeyOf[f]
  <2>1. batch[a] \in SUBSET Facts /\ Asked(a) \subseteq batch[a] /\ Returned(a) \in SUBSET Facts
    BY DEF Tidy, Sound, TypeOK, Asked, Returned, Removed
  <2>2. With(Asked(a), k) \in SUBSET With(batch[a], k)
    BY <2>1 DEF With
  <2>3. Cardinality(With(Returned(a), k)) <= Cardinality(With(Asked(a), k))
    BY DEF Tidy, Careful, CleansInProportion
  <2>4. Cardinality(With(Asked(a), k)) <= Cardinality(With(batch[a], k))
    BY <2>1, <2>2, Bounded, FS_Subset
  <2>5. /\ Cardinality(With(Returned(a), k)) \in Nat /\ Cardinality(With(Asked(a), k)) \in Nat
        /\ Cardinality(With(batch[a], k)) \in Nat
    BY <2>1, Bounded
  <2> QED BY <2>3, <2>4, <2>5
<1>8. CleansLast(a)'
  BY <1>2, <1>3, <1>4 DEF CleansLast
<1> QED BY <1>6, <1>7, <1>8 DEF Careful

\* What a taking of one client does to another archive.
LEMMA TakingMoves ==
  ASSUME TypeOK, NEW c \in Clients, NEW b \in Archives, b # c,
         \/ UNCHANGED <<got, taking>>
         \/ \E k : TakeByScript(c, k) \/ ReplyLost(c, k) \/ TakeFinds(c, k)
         \/ TakeGets(c) \/ TakeDeletes(c) \/ TakeFails(c)
  PROVE  SameRemovals(b) /\ taking'[b] = taking[b]
<1>1. taking'[b] = taking[b]
  BY Kinds DEF TakeByScript, ReplyLost, TakeFinds, TakeGets, TakeDeletes, TakeFails, TypeOK
<1>2. got' = got \/ \E g, p : got' = [got EXCEPT ![g] = @ \cup {<<c, p>>}]
  BY DEF TakeByScript, ReplyLost, TakeFinds, TakeGets, TakeDeletes, TakeFails
<1>3. CASE got' = got
  BY <1>1, <1>3, GotKept
<1>4. CASE \E g, p : got' = [got EXCEPT ![g] = @ \cup {<<c, p>>}]
  <2> PICK g, p : got' = [got EXCEPT ![g] = @ \cup {<<c, p>>}]
    BY <1>4
  <2>1. ASSUME NEW f \in Facts, NEW q PROVE <<b, q>> \in got'[f] <=> <<b, q>> \in got[f]
    BY DEF TypeOK
  <2> QED BY <1>1, <2>1 DEF SameRemovals, Popped, Returned, Removed
<1> QED BY <1>2, <1>3, <1>4

\* What a step of in_ by the clean-up comes to: it gets a fact with the key of
\* the one it is at, or none, and goes on; or it stays there, on the way, though
\* a fact may be gone by a removal it is not told of.
CleanUpTakes(a, f) ==
  /\ taking'[a] = NotTaking /\ left'[a] = left[a] \ {f}
  /\ \/ Returned(a)' = Returned(a)
     \/ \E g \in Facts : KeyOf[g] = KeyOf[f] /\ Returned(a)' = Returned(a) \cup {g}
CleanUpWaits(a, f) ==
  /\ left'[a] = left[a] /\ Returned(a)' = Returned(a)
  /\ taking'[a] # NotTaking => KeyOf[taking'[a].fact] = KeyOf[f]

LEMMA CleanUpEither ==
  ASSUME Tidy, NEW a \in Archives, CleanUp(a)
  PROVE  \E f \in left[a] : First(f, left[a]) /\ (CleanUpTakes(a, f) \/ CleanUpWaits(a, f))
<1>0. a \in Writers /\ a \in Clients /\ TypeOK /\ left[a] \in SUBSET Facts
  BY Kinds DEF Tidy, Sound, TypeOK
<1>1. PICK f \in left[a] :
         /\ First(f, left[a])
         /\ \/ TakeByScript(a, KeyOf[f]) /\ Cleaned(a, f)
            \/ ReplyLost(a, KeyOf[f]) /\ UNCHANGED calls
            \/ /\ taking[a] = NotTaking /\ (CanFail \/ Matching(KeyOf[f]) = {})
               /\ Cleaned(a, f) /\ UNCHANGED <<fact, got, taking>>
            \/ TakeFinds(a, KeyOf[f]) /\ UNCHANGED calls
            \/ TakeGets(a) /\ IF taking'[a] = NotTaking THEN Cleaned(a, f) ELSE UNCHANGED calls
            \/ (TakeDeletes(a) \/ TakeFails(a)) /\ Cleaned(a, f)
  BY DEF CleanUp
<1>2. Cleaned(a, f) => left'[a] = left[a] \ {f}
  BY <1>0 DEF Cleaned, Visits, TypeOK
<1>3. UNCHANGED calls => left'[a] = left[a]
  BY DEF calls
<1>4. taking[a] # NotTaking => KeyOf[taking[a].fact] = KeyOf[f]
  <2> SUFFICES ASSUME taking[a] # NotTaking PROVE KeyOf[taking[a].fact] = KeyOf[f]
    OBVIOUS
  <2>1. PICK g \in left[a] : First(g, left[a]) /\ KeyOf[taking[a].fact] = KeyOf[g]
    BY DEF Tidy, Careful, CleansLast
  <2>2. g = f
    BY <1>0, <1>1, <2>1, FirstIsLeast
  <2> QED BY <2>1, <2>2
<1>5. got' = got => Returned(a)' = Returned(a)
  BY DEF Returned, Removed
<1>6. ASSUME NEW g, NEW p \in Paths \ {"lost"}, got' = [got EXCEPT ![g] = @ \cup {<<a, p>>}]
      PROVE  Returned(a)' = Returned(a) \/ (g \in Facts /\ Returned(a)' = Returned(a) \cup {g})
  <2>1. CASE g \in Facts
    <3>1. ASSUME NEW h \in Facts
          PROVE  (\E q \in Paths \ {"lost"} : <<a, q>> \in got'[h])
                   <=> (\E q \in Paths \ {"lost"} : <<a, q>> \in got[h]) \/ h = g
      <4>1. CASE h = g
        BY <1>0, <1>6, <2>1, <4>1 DEF TypeOK
      <4>2. CASE h # g
        BY <1>0, <1>6, <2>1, <4>2 DEF TypeOK
      <4> QED BY <4>1, <4>2
    <3> QED BY <2>1, <3>1 DEF Returned, Removed
  <2>2. CASE g \notin Facts
    <3>1. \A h \in Facts : got'[h] = got[h]
      BY <1>0, <1>6, <2>2 DEF TypeOK
    <3> QED BY <3>1 DEF Returned, Removed
  <2> QED BY <2>1, <2>2
<1>7. CASE TakeByScript(a, KeyOf[f]) /\ Cleaned(a, f)
  <2>1. PICK g \in Matching(KeyOf[f]) : got' = [got EXCEPT ![g] = @ \cup {<<a, "script">>}]
    BY <1>7 DEF TakeByScript
  <2>2. KeyOf[g] = KeyOf[f] /\ taking'[a] = NotTaking
    BY <1>7 DEF Matching, TakeByScript
  <2>3. "script" \in Paths \ {"lost"}
    BY DEF Paths
  <2>4. Returned(a)' = Returned(a) \/ (g \in Facts /\ Returned(a)' = Returned(a) \cup {g})
    BY <1>6, <2>1, <2>3
  <2>5. CleanUpTakes(a, f)
    BY <1>2, <1>7, <2>2, <2>4 DEF CleanUpTakes
  <2> QED BY <1>1, <2>5
<1>8. CASE /\ taking[a] = NotTaking
           /\ Cleaned(a, f) /\ UNCHANGED <<got, taking>>
  <2>1. CleanUpTakes(a, f)
    BY <1>2, <1>5, <1>8 DEF CleanUpTakes
  <2> QED BY <1>1, <2>1
<1>9. CASE TakeFinds(a, KeyOf[f]) /\ UNCHANGED calls
  <2>1. PICK g \in Matching(KeyOf[f]) : taking' = [taking EXCEPT ![a] = [fact |-> g, read |-> FALSE]]
    BY <1>9 DEF TakeFinds
  <2>2. taking'[a].fact = g /\ KeyOf[g] = KeyOf[f] /\ got' = got
    BY <1>0, <1>9, <2>1 DEF Matching, TakeFinds, TypeOK
  <2>3. CleanUpWaits(a, f)
    BY <1>3, <1>5, <1>9, <2>2 DEF CleanUpWaits
  <2> QED BY <1>1, <2>3
<1>10. CASE TakeGets(a) /\ IF taking'[a] = NotTaking THEN Cleaned(a, f) ELSE UNCHANGED calls
  <2>1. got' = got
    BY <1>10 DEF TakeGets
  <2>2. taking'[a] = NotTaking \/ taking'[a].fact = taking[a].fact
    BY <1>0, <1>10 DEF TakeGets, TypeOK
  <2>3. taking[a] # NotTaking
    BY <1>10 DEF TakeGets
  <2>4. CleanUpTakes(a, f) \/ CleanUpWaits(a, f)
    BY <1>2, <1>3, <1>4, <1>5, <1>10, <2>1, <2>2, <2>3 DEF CleanUpTakes, CleanUpWaits
  <2> QED BY <1>1, <2>4
<1>11. CASE TakeDeletes(a) /\ Cleaned(a, f)
  <2> DEFINE g == taking[a].fact
  <2>1. got' = [got EXCEPT ![g] = @ \cup {<<a, "fallback">>}] /\ KeyOf[g] = KeyOf[f]
    BY <1>4, <1>11 DEF TakeDeletes
  <2>2. taking'[a] = NotTaking
    BY <1>0, <1>11 DEF TakeDeletes, TypeOK
  <2>3. "fallback" \in Paths \ {"lost"}
    BY DEF Paths
  <2>4. Returned(a)' = Returned(a) \/ (g \in Facts /\ Returned(a)' = Returned(a) \cup {g})
    BY <1>6, <2>1, <2>3
  <2>5. CleanUpTakes(a, f)
    BY <1>2, <1>11, <2>1, <2>2, <2>4 DEF CleanUpTakes
  <2> QED BY <1>1, <2>5
<1>12. CASE ReplyLost(a, KeyOf[f]) /\ UNCHANGED calls
  <2>1. PICK g \in Matching(KeyOf[f]) : got' = [got EXCEPT ![g] = @ \cup {<<a, "lost">>}]
    BY <1>12 DEF ReplyLost
  <2>2. ASSUME NEW h \in Facts, NEW q \in Paths \ {"lost"}
        PROVE  <<a, q>> \in got'[h] <=> <<a, q>> \in got[h]
    BY <1>0, <2>1 DEF TypeOK
  <2>3. Returned(a)' = Returned(a)
    BY <2>2 DEF Returned, Removed
  <2>4. CleanUpWaits(a, f)
    BY <1>3, <1>12, <2>3 DEF CleanUpWaits, ReplyLost
  <2> QED BY <1>1, <2>4
<1>13. CASE TakeFails(a) /\ Cleaned(a, f)
  <2>1. got' = got /\ taking'[a] = NotTaking
    BY <1>0, <1>13 DEF TakeFails, TypeOK
  <2>2. CleanUpTakes(a, f)
    BY <1>2, <1>5, <1>13, <2>1 DEF CleanUpTakes
  <2> QED BY <1>1, <2>2
<1> QED BY <1>1, <1>7, <1>8, <1>9, <1>10, <1>11, <1>12, <1>13

LEMMA CleanUpCareful ==
  ASSUME Tidy, NEW a \in Archives, CleanUp(a)
  PROVE  Careful(a)'
<1>0. a \in Writers /\ TypeOK /\ left[a] \in SUBSET batch[a] /\ batch[a] \in SUBSET Facts
  BY Kinds DEF Tidy, Sound, TypeOK
<1>1. at[a] = "take" /\ UNCHANGED <<at, batch, nodes>>
  BY DEF CleanUp, Cleaned, calls, L3
<1>2. PICK f \in left[a] : First(f, left[a]) /\ (CleanUpTakes(a, f) \/ CleanUpWaits(a, f))
  BY CleanUpEither
<1>3. CopiedOrErased(a)'
  <2>1. Erased \/ \A g \in batch[a] : NodeOf(a, g) \in nodes
    BY <1>1 DEF Tidy, Careful, CopiedOrErased, Pending
  <2> QED BY <1>1, <2>1 DEF CopiedOrErased, Erased
<1>4. CASE CleanUpWaits(a, f)
  <2>1. CleansLast(a)'
    BY <1>1, <1>2, <1>4 DEF CleansLast, CleanUpWaits
  <2>2. CleansInProportion(a)'
    BY <1>1, <1>4 DEF CleansInProportion, CleanUpWaits, Asked, With, Tidy, Careful
  <2> QED BY <1>3, <2>1, <2>2 DEF Careful
<1>5. CASE CleanUpTakes(a, f)
  <2>1. CleansLast(a)'
    BY <1>1, <1>5 DEF CleansLast, CleanUpTakes
  <2>2. ASSUME NEW h \in Facts
        PROVE  Cardinality(With(Returned(a)', KeyOf[h])) <= Cardinality(With(Asked(a)', KeyOf[h]))
    <3> DEFINE k == KeyOf[h]
               A == With(Asked(a), k)
               P == With(Returned(a), k)
    <3>1. Asked(a)' = Asked(a) \cup {f} /\ f \notin Asked(a) /\ f \in Facts
      BY <1>0, <1>1, <1>2, <1>5 DEF Asked, CleanUpTakes
    <3>2. Asked(a) \in SUBSET Facts /\ Returned(a) \in SUBSET Facts /\ Asked(a)' \in SUBSET Facts
      BY <1>0, <3>1 DEF Asked, Returned, Removed
    <3>3. IsFiniteSet(A) /\ Cardinality(A) \in Nat /\ IsFiniteSet(P) /\ Cardinality(P) \in Nat
      BY <3>2, Bounded
    <3>4. Cardinality(P) <= Cardinality(A)
      BY DEF Tidy, Careful, CleansInProportion
    <3>5. CASE KeyOf[f] = k
      <4>1. With(Asked(a)', k) = A \cup {f} /\ f \notin A
        BY <3>1, <3>5 DEF With
      <4>2. Cardinality(A \cup {f}) = Cardinality(A) + 1
        BY <3>3, <4>1, FS_AddElement
      <4>3. With(Returned(a)', k) = P \/ \E g : With(Returned(a)', k) = P \cup {g}
        BY <1>5, <3>5 DEF CleanUpTakes, With
      <4>4. \A g : Cardinality(P \cup {g}) = Cardinality(P) \/ Cardinality(P \cup {g}) = Cardinality(P) + 1
        BY <3>3, FS_AddElement
      <4> HIDE DEF A, P
      <4>5. Cardinality(With(Returned(a)', k)) \in {Cardinality(P), Cardinality(P) + 1}
        BY <4>3, <4>4
      <4> QED BY <3>3, <3>4, <4>1, <4>2, <4>5
    <3>6. CASE KeyOf[f] # k
      <4>1. With(Asked(a)', k) = A
        BY <3>1, <3>6 DEF With
      <4>2. With(Returned(a)', k) = P
        BY <1>5, <3>6 DEF CleanUpTakes, With
      <4> QED BY <3>4, <4>1, <4>2
    <3> QED BY <3>5, <3>6
  <2>3. CleansInProportion(a)'
    BY <2>2 DEF CleansInProportion, With
  <2> QED BY <1>3, <2>1, <2>3 DEF Careful
<1> QED BY <1>2, <1>4, <1>5

-----------------------------------------------------------------------------

LEMMA TidyInit == Init => Tidy
<1> SUFFICES ASSUME Init, NEW a \in Archives PROVE Careful(a)
  BY SoundInit DEF Tidy
<1>1. at[a] \in {"off", "new"} /\ taking[a] = NotTaking /\ batch[a] = {} /\ \A f \in Facts : got[f] = {}
  BY Kinds DEF Init
<1>2. Popped(a) = {} /\ Returned(a) = {}
  BY <1>1 DEF Popped, Returned, Removed
<1>3. CopiedOrErased(a) /\ CleansLast(a)
  BY <1>1, <1>2 DEF CopiedOrErased, CleansLast
<1>4. Asked(a) = {}
  BY <1>1 DEF Asked
<1>5. \A k : With({}, k) = {}
  BY DEF With
<1>6. CleansInProportion(a)
  BY <1>2, <1>4, <1>5, FS_EmptySet DEF CleansInProportion
<1> QED BY <1>3, <1>6 DEF Careful

\* A step of another call, or of an agent.
LEMMA CarefulOthers ==
  ASSUME Tidy, NEW w \in Writers, Others(w), at[w] # "done", Grows(w) \/ Erases(w),
         NEW a \in Archives, a # w, SameRemovals(a), taking'[a] = taking[a]
  PROVE  Careful(a)'
<1>1. at'[a] = at[a] /\ left'[a] = left[a] /\ batch'[a] = batch[a] /\ batch[a] \subseteq Facts
  BY Kinds DEF Others, Tidy, Sound, TypeOK
<1>2. Erased => Erased'
  BY ErasedKept
<1>3. Erased' \/ \A f \in Facts : NodeOf(a, f) \in nodes => NodeOf(a, f) \in nodes'
  BY DEF Grows, Erases, Erased
<1> QED BY <1>1, <1>2, <1>3, CarefulKept DEF Tidy

LEMMA CarefulL2 ==
  ASSUME Tidy, UNCHANGED <<L3, calls>>, NEW a \in Archives,
         SameRemovals(a), taking'[a] = taking[a]
  PROVE  Careful(a)'
<1>1. /\ at' = at /\ left'[a] = left[a] /\ batch'[a] = batch[a] /\ batch[a] \subseteq Facts /\ nodes' = nodes
  BY DEF calls, L3, Tidy, Sound, TypeOK
<1>2. Erased => Erased'
  BY <1>1 DEF Erased
<1> QED BY <1>1, <1>2, CarefulKept DEF Tidy

LEMMA TidyStep == Tidy /\ Sound' /\ [Next]_vars => Tidy'
<1> SUFFICES ASSUME Tidy, Sound', [Next]_vars, NEW a \in Archives PROVE Careful(a)'
  BY DEF Tidy
<1>0. Sound /\ TypeOK /\ a \in Writers /\ a \in Clients
  BY Kinds DEF Tidy, Sound
<1>1. CASE \/ \E f \in Facts : Out(f) \/ SetExpiry(f) \/ Expires(f)
           \/ ScriptsFlushed \/ Connect \/ UNCHANGED vars
  <2>1. UNCHANGED <<L3, calls, got, taking>>
    BY <1>1 DEF Out, SetExpiry, Expires, ScriptsFlushed, Connect, vars, L2
  <2>2. SameRemovals(a) /\ taking'[a] = taking[a]
    BY <2>1, GotKept
  <2> QED BY <2>1, <2>2, CarefulL2
<1>2. ASSUME NEW c \in Consumers, Consume(c) PROVE Careful(a)'
  <2>1. c \in Clients /\ a # c
    BY CallsAssumption DEF Clients
  <2>2. \/ \E k : TakeByScript(c, k) \/ ReplyLost(c, k) \/ TakeFinds(c, k)
        \/ TakeGets(c) \/ TakeDeletes(c) \/ TakeFails(c)
    BY <1>2 DEF Consume
  <2>3. SameRemovals(a) /\ taking'[a] = taking[a]
    BY <1>0, <2>1, <2>2, TakingMoves
  <2> QED BY <1>2, <2>3, CarefulL2 DEF Consume
<1>3. ASSUME NEW b \in Archives, Archive(b) PROVE Careful(a)'
  <2>1. CASE a = b
    BY <1>3, <2>1, CopyingCareful, CleanUpCareful DEF Archive
  <2>2. CASE a # b
    <3>1. b \in Writers /\ b \in Clients /\ b \notin Flushes
      BY Kinds, CallsAssumption
    <3>2. Others(b)
      BY <1>0, <1>3, ArchiveMoves, BeginArchiveMoves DEF Archive
    <3>3. Grows(b) \/ Erases(b)
      BY <1>0, <1>3, BeginArchiveSafe, CreateNodeSafe, CopiedSafe, FollowSafe, ChainedSafe DEF Archive, OwnSafe
    <3>4. \/ UNCHANGED <<got, taking>>
          \/ \E k : TakeByScript(b, k) \/ ReplyLost(b, k) \/ TakeFinds(b, k)
          \/ TakeGets(b) \/ TakeDeletes(b) \/ TakeFails(b)
      <4>1. CASE CleanUp(b)
        BY <4>1 DEF CleanUp
      <4>2. CASE ~CleanUp(b)
        <5>1. UNCHANGED L2
          BY <1>3, <4>2 DEF Archive, BeginArchive, CreateNode, Copied, Follow, Chained
        <5> QED BY <5>1 DEF L2
      <4> QED BY <4>1, <4>2
    <3>5. SameRemovals(a) /\ taking'[a] = taking[a]
      BY <1>0, <2>2, <3>1, <3>4, TakingMoves
    <3>6. at[b] # "done"
      BY <1>3, <3>1, NotDoneYet
    <3> QED BY <2>2, <3>1, <3>2, <3>3, <3>5, <3>6, CarefulOthers
  <2> QED BY <2>1, <2>2
<1>4. ASSUME NEW n \in Notes, Note(n) PROVE Careful(a)'
  <2>1. n \in Writers /\ a # n
    BY Kinds, CallsAssumption
  <2>2. Others(n) /\ UNCHANGED L2
    BY <1>0, <1>4, NoteMoves
  <2>3. Grows(n) \/ Erases(n)
    BY <1>0, <1>4, CreateNoteSafe, LinkSiblingsSafe, LinkThereSafe, LinkBackSafe, RelatedSafe DEF Note, OwnSafe
  <2>4. SameRemovals(a) /\ taking'[a] = taking[a]
    BY <2>2, GotKept DEF L2
  <2>5. at[n] # "done"
    BY <1>4, <2>1, NotDoneYet
  <2> QED BY <2>1, <2>2, <2>3, <2>4, <2>5, CarefulOthers
<1>5. ASSUME NEW x \in Flushes, Flush(x) PROVE Careful(a)'
  <2>1. x \in Writers /\ a # x
    BY Kinds, CallsAssumption
  <2>2. Others(x) /\ UNCHANGED <<got, taking>>
    BY <1>0, <1>5, FlushMoves
  <2>3. Grows(x) \/ Erases(x)
    BY <1>0, <1>5, FlushSafe DEF OwnSafe
  <2>4. SameRemovals(a) /\ taking'[a] = taking[a]
    BY <2>2, GotKept
  <2>5. at[x] # "done"
    BY <1>5, <2>1, NotDoneYet
  <2> QED BY <2>1, <2>2, <2>3, <2>4, <2>5, CarefulOthers
<1>6. ASSUME NEW w \in Writers, EnsureEntity(w) \/ Mention(w) \/ Returns(w) \/ Breaks(w) PROVE Careful(a)'
  <2>1. CASE w = a
    BY <1>6, <2>1, CopyingCareful, EndingCareful
  <2>2. CASE w # a
    <3>1. Others(w) /\ UNCHANGED got
      BY <1>0, <1>6, WriterMoves
    <3>2. Grows(w) \/ Erases(w)
      BY <1>0, <1>6, WriterSafe DEF OwnSafe
    <3>3. taking'[a] = taking[a]
      BY <1>0, <1>6, <2>2 DEF EnsureEntity, Mention, Returns, Breaks, L2
    <3>4. SameRemovals(a)
      BY <3>1, GotKept
    <3>5. at[w] # "done"
      BY <1>6, NotDoneYet
    <3> QED BY <2>2, <3>1, <3>2, <3>3, <3>4, <3>5, CarefulOthers
  <2> QED BY <2>1, <2>2
<1> QED BY <1>1, <1>2, <1>3, <1>4, <1>5, <1>6 DEF Next

\* archive_job's clean-up (archiver.py 83-85) asks for a category and a key: it
\* comes after every copy, and of each key it is given no more facts than it
\* copied, by either path of in_ and whoever else takes, publishes or flushes;
\* one whose removal it was not told of (the reply of the script lost, redis.py
\* 83-87) is not among them, and comes on top.
THEOREM CleanUpCovered == Spec => []CleanUpIsCovered
<1>1. Tidy /\ Sound' /\ [Next]_vars => Tidy'
  BY TidyStep
<1>2. Tidy => CleanUpIsCovered
  <2> SUFFICES ASSUME Tidy, NEW a \in Archives
               PROVE  /\ Popped(a) # {} => \/ \A f \in batch[a] : NodeOf(a, f) \in nodes
                                           \/ \E x \in Flushes : at[x] = "done"
                      /\ \A f \in Facts :
                           Cardinality(With(Returned(a), KeyOf[f])) <= Cardinality(With(batch[a], KeyOf[f]))
    BY DEF CleanUpIsCovered
  <2>1. Popped(a) # {} => Pending(a) = {}
    BY DEF Tidy, Careful, CleansLast, Pending
  <2>2. Popped(a) # {} => \/ \A f \in batch[a] : NodeOf(a, f) \in nodes
                          \/ \E x \in Flushes : at[x] = "done"
    BY <2>1 DEF Tidy, Careful, CopiedOrErased, Erased
  <2>3. ASSUME NEW f \in Facts
        PROVE  Cardinality(With(Returned(a), KeyOf[f])) <= Cardinality(With(batch[a], KeyOf[f]))
    <3> DEFINE k == KeyOf[f]
    <3>1. /\ batch[a] \in SUBSET Facts /\ Asked(a) \in SUBSET Facts /\ Returned(a) \in SUBSET Facts
          /\ Asked(a) \subseteq batch[a]
      BY DEF Tidy, Sound, TypeOK, Asked, Returned, Removed
    <3>2. With(Asked(a), k) \in SUBSET With(batch[a], k)
      BY <3>1 DEF With
    <3>3. Cardinality(With(Returned(a), k)) <= Cardinality(With(Asked(a), k))
      BY DEF Tidy, Careful, CleansInProportion
    <3>4. Cardinality(With(Asked(a), k)) <= Cardinality(With(batch[a], k))
      BY <3>1, <3>2, Bounded, FS_Subset
    <3>5. /\ Cardinality(With(Returned(a), k)) \in Nat /\ Cardinality(With(Asked(a), k)) \in Nat
          /\ Cardinality(With(batch[a], k)) \in Nat
      BY <3>1, Bounded
    <3> QED BY <3>3, <3>4, <3>5
  <2> QED BY <2>2, <2>3
<1> QED BY <1>1, <1>2, TidyInit, TidyStep, Soundness, PTL DEF Spec

-----------------------------------------------------------------------------
(* The event log, for any hooks, any file system and any number of failures *)
(* and crashes.  The invariant adds to the properties where a line can be   *)
(* while a flush runs (Underway), that no two names lead to one file        *)
(* (Apart), and that what may still be inserted has at most as many rows as *)
(* flushes have failed (Returnable).                                        *)

Apart == entries["buffer"] # NoFile => entries["buffer"] # entries["flushing"]

\* What a flush has read is inserted, waits in batch, or goes back to the
\* buffer before its file is removed.
Underway ==
  /\ pc = "insert" =>
       \A e \in Lines("flushing") \ (unsent \cup late) : rows[e] > 0
  /\ pc = "unlink" =>
       \A e \in Lines("flushing") \ late : rows[e] > 0 \/ e \in Lines("buffer")
  /\ unsent \subseteq Lines("flushing")
  /\ pc \in {"read", "insert"} => Lines("buffer") \cap Lines("flushing") = {}

\* A late line is one that has been logged, and so is an orphan; a hook that
\* has the buffer open has not.
Marked ==
  /\ late \subseteq logged /\ orphaned \subseteq logged
  /\ \A e \in logged : opened[e] = NoFile

\* What nobody has logged is in no file and has no row.
Unlogged ==
  \A e \in Events \ logged : rows[e] = 0 /\ \A f \in Files : e \notin lines[f]

\* No line the buffer holds was inserted since the last failure.
Returnable ==
  /\ \A e \in Lines("buffer") \cup unsent : rows[e] <= fails
  /\ pc \in {"read", "return", "append"} => \A e \in Lines("flushing") : rows[e] <= fails

\* Only a flush that was killed leaves its file behind.
NoLeftover == crashes = 0 /\ pc = "idle" => entries["flushing"] = NoFile

LogInv ==
  /\ LogTypeOK /\ Apart /\ Underway /\ Marked /\ Unlogged /\ Returnable
  /\ KeptUnlessLate /\ RepeatsNeedFailure /\ NoLeftover
-----------------------------------------------------------------------------
LEMMA LogStarts == LogInit => LogInv
BY FilesAssumption, FaultsAssumption
   DEF LogInit, LogInv, LogTypeOK, Apart, Underway, Marked, Unlogged, Returnable, KeptUnlessLate,
       RepeatsNeedFailure, NoLeftover, Lines, Names

\* Opening the buffer leaves every name's lines as they are.
LEMMA OpenKeeps ==
  ASSUME LogTypeOK, Apart, NEW f \in Files, OpenBuffer(f)
  PROVE  /\ entries' \in [Names -> Files \cup {NoFile}] /\ lines' \in [Files -> SUBSET Events]
         /\ entries'["buffer"] = f /\ entries'["flushing"] = entries["flushing"]
         /\ Apart'
         /\ \A n \in Names : Lines(n)' = Lines(n)
         /\ \A g \in Files : lines'[g] \subseteq lines[g]
<1>1. CASE f = entries["buffer"] /\ f # NoFile /\ UNCHANGED disk
  BY <1>1 DEF LogTypeOK, Apart, Lines, disk, Names
<1>2. CASE /\ entries["buffer"] = NoFile /\ f \in Unused
           /\ entries' = [entries EXCEPT !["buffer"] = f]
           /\ lines' = [lines EXCEPT ![f] = {}]
  <2>1. f # NoFile /\ entries["flushing"] # f
    BY <1>2, FilesAssumption DEF Unused, Names
  <2>2. /\ entries' \in [Names -> Files \cup {NoFile}] /\ lines' \in [Files -> SUBSET Events]
        /\ entries'["buffer"] = f /\ entries'["flushing"] = entries["flushing"]
    BY <1>2 DEF LogTypeOK, Names
  <2>3. Lines("buffer")' = Lines("buffer") /\ Lines("flushing")' = Lines("flushing")
    BY <1>2, <2>1, <2>2 DEF Lines, LogTypeOK, Names
  <2> QED BY <1>2, <2>1, <2>2, <2>3 DEF Apart, Names, LogTypeOK
<1> QED BY <1>1, <1>2 DEF OpenBuffer

\* Every step keeps the invariant.
LEMMA LogGoesOn == LogInv /\ [LogNext]_logVars => LogInv'
<1> SUFFICES ASSUME LogInv, [LogNext]_logVars PROVE LogInv'
  OBVIOUS
<1> USE FaultsAssumption DEF Names, hooks, flush, disk
<1>0. /\ LogTypeOK /\ Apart /\ Underway /\ Marked /\ Unlogged /\ Returnable
      /\ KeptUnlessLate /\ RepeatsNeedFailure /\ NoLeftover
  BY DEF LogInv
<1>1. ASSUME NEW e \in Events, HookOpens(e) PROVE LogInv'
  <2>1. PICK f \in Files : OpenBuffer(f) /\ opened' = [opened EXCEPT ![e] = f]
    BY <1>1 DEF HookOpens
  <2>2. /\ entries'["buffer"] = f /\ entries'["flushing"] = entries["flushing"] /\ Apart'
        /\ \A n \in Names : Lines(n)' = Lines(n)
        /\ \A g \in Files : lines'[g] \subseteq lines[g]
        /\ entries' \in [Names -> Files \cup {NoFile}] /\ lines' \in [Files -> SUBSET Events]
    BY <1>0, <2>1, OpenKeeps
  <2>3. pc # "append" \/ f = entries["buffer"]
    BY <1>0, <2>1 DEF OpenBuffer, LogTypeOK
  <2>4. LogTypeOK'
    BY <1>0, <1>1, <2>1, <2>2, <2>3 DEF HookOpens, LogTypeOK
  <2>5. Underway' /\ Returnable' /\ KeptUnlessLate' /\ RepeatsNeedFailure' /\ NoLeftover'
    BY <1>0, <1>1, <2>2
       DEF HookOpens, Underway, Returnable, KeptUnlessLate, RepeatsNeedFailure, NoLeftover
  <2>6. Marked' /\ Unlogged'
    BY <1>0, <1>1, <2>1, <2>2 DEF HookOpens, Marked, Unlogged, LogTypeOK
  <2> QED BY <2>2, <2>4, <2>5, <2>6 DEF LogInv
<1>2. ASSUME NEW e \in Events, HookWrites(e) PROVE LogInv'
  <2>1. e \notin logged /\ rows[e] = 0 /\ e \notin unsent
    BY <1>0, <1>2 DEF HookWrites, Marked, Unlogged, Underway, Lines, LogTypeOK
  <2>2. \A n \in Names : Lines(n)' = IF entries[n] = opened[e] THEN Lines(n) \cup {e} ELSE Lines(n)
    BY <1>0, <1>2 DEF HookWrites, Lines, LogTypeOK
  <2>3. Lines("flushing")' = Lines("flushing") \/ e \in late'
    <3>1. CASE opened[e] = entries["buffer"]
      <4>1. entries["flushing"] # opened[e]
        BY <1>0, <1>2, <3>1 DEF HookWrites, Apart
      <4> QED BY <2>2, <4>1
    <3>2. CASE opened[e] # entries["buffer"]
      BY <1>2, <3>2 DEF HookWrites
    <3> QED BY <3>1, <3>2
  <2>4. LogTypeOK' /\ Apart' /\ NoLeftover'
    BY <1>0, <1>2 DEF HookWrites, LogTypeOK, Apart, NoLeftover
  <2>9. \A n \in Names : e \notin Lines(n)
    BY <1>0, <2>1 DEF Unlogged, Lines, LogTypeOK
  <2>5. Underway'
    <3>1. /\ UNCHANGED <<pc, unsent, rows>> /\ late \subseteq late'
          /\ \A n \in Names : Lines(n) \subseteq Lines(n)' /\ Lines(n)' \subseteq Lines(n) \cup {e}
      BY <1>2, <2>2 DEF HookWrites
    <3>2. e \in Lines("flushing")' => e \in late' /\ e \notin Lines("buffer")'
      <4>1. CASE opened[e] = entries["buffer"]
        BY <1>0, <1>2, <2>2, <2>9, <4>1 DEF HookWrites, Apart
      <4>2. CASE opened[e] # entries["buffer"]
        BY <1>2, <2>2, <2>9, <4>2 DEF HookWrites
      <4> QED BY <4>1, <4>2
    <3> QED BY <1>0, <3>1, <3>2 DEF Underway
  <2>6. Marked' /\ Unlogged'
    BY <1>0, <1>2 DEF HookWrites, Marked, Unlogged, LogTypeOK
  <2>7. Returnable' /\ RepeatsNeedFailure'
    BY <1>0, <1>2, <2>1, <2>2 DEF HookWrites, Returnable, RepeatsNeedFailure, LogTypeOK
  <2>8. KeptUnlessLate'
    BY <1>0, <1>2, <2>2 DEF HookWrites, KeptUnlessLate, LogTypeOK
  <2> QED BY <2>4, <2>5, <2>6, <2>7, <2>8 DEF LogInv
<1>3. CASE TakesBuffer
  <2>1. entries["buffer"] # NoFile /\ unsent = {}
    BY <1>0, <1>3 DEF TakesBuffer, Lines, LogTypeOK
  <2>2. Lines("buffer")' = {} /\ Lines("flushing")' = Lines("buffer")
    BY <1>3, <2>1 DEF TakesBuffer, Lines
  <2>3. LeftBehind = Lines("flushing") \ (Lines("buffer") \cup Stored)
    BY <1>3 DEF TakesBuffer, LeftBehind
  <2>4. \A n \in Names : Lines(n) \subseteq logged
    BY <1>0 DEF Unlogged, Lines, LogTypeOK
  <2>5. LogTypeOK' /\ Apart' /\ NoLeftover'
    BY <1>0, <1>3, <2>1, <2>3, <2>4 DEF TakesBuffer, LogTypeOK, Apart, NoLeftover
  <2>6. Underway' /\ Returnable' /\ RepeatsNeedFailure'
    BY <1>0, <1>3, <2>1, <2>2 DEF TakesBuffer, Underway, Returnable, RepeatsNeedFailure
  <2>7. Marked' /\ Unlogged'
    BY <1>0, <1>3, <2>3, <2>4 DEF TakesBuffer, Marked, Unlogged
  <2>8. KeptUnlessLate'
    <3>1. ASSUME NEW e \in logged \ (late \cup orphaned')
          PROVE  rows[e] > 0 \/ e \in Lines("flushing")'
      <4>1. e \in Events /\ e \notin orphaned /\ e \notin LeftBehind
        BY <1>0, <1>3, <3>1 DEF TakesBuffer, LogTypeOK
      <4>2. rows[e] > 0 \/ \E n \in Names : e \in Lines(n)
        BY <1>0, <3>1, <4>1 DEF KeptUnlessLate
      <4> QED BY <2>2, <2>3, <4>1, <4>2 DEF Stored
    <3>2. orphaned' # {} => crashes' > 0
      BY <1>0, <1>3, <2>3 DEF TakesBuffer, KeptUnlessLate, NoLeftover, Lines, LogTypeOK
    <3> QED BY <1>3, <3>1, <3>2 DEF TakesBuffer, KeptUnlessLate
  <2> QED BY <2>5, <2>6, <2>7, <2>8 DEF LogInv
<1>4. CASE ReadsLines
  <2>1. \A n \in Names : Lines(n)' = Lines(n)
    BY <1>4 DEF ReadsLines, Lines
  <2>2. Lines("flushing") \subseteq Events
    BY <1>0 DEF LogTypeOK, Lines
  <2> QED BY <1>0, <1>4, <2>1, <2>2
        DEF ReadsLines, LogInv, LogTypeOK, Apart, Underway, Marked, Unlogged, Returnable,
            KeptUnlessLate, RepeatsNeedFailure, NoLeftover
<1>5. CASE Inserts
  <2>1. PICK e \in unsent : rows' = [rows EXCEPT ![e] = @ + 1] /\ unsent' = unsent \ {e}
    BY <1>5 DEF Inserts
  <2>2. \A n \in Names : Lines(n)' = Lines(n)
    BY <1>5 DEF Inserts, Lines
  <2>3. /\ e \in Events /\ e \in Lines("flushing") /\ e \notin Lines("buffer")
        /\ rows[e] <= fails /\ pc = "insert"
    BY <1>0, <1>5 DEF LogTypeOK, Underway, Returnable, Inserts
  <2>4. e \in logged
    BY <1>0, <2>3 DEF Unlogged, Lines, LogTypeOK
  <2>5. rows'[e] = rows[e] + 1 /\ \A d \in Events \ {e} : rows'[d] = rows[d]
    BY <1>0, <2>1, <2>3 DEF LogTypeOK
  <2>6. LogTypeOK' /\ Apart' /\ NoLeftover' /\ Marked'
    BY <1>0, <1>5, <2>1, <2>3 DEF Inserts, LogTypeOK, Apart, NoLeftover, Marked
  <2>7. Underway'
    BY <1>0, <1>5, <2>1, <2>2, <2>3, <2>5 DEF Inserts, Underway, LogTypeOK, Lines
  <2>8. Unlogged' /\ RepeatsNeedFailure'
    BY <1>0, <1>5, <2>3, <2>4, <2>5 DEF Inserts, Unlogged, RepeatsNeedFailure, LogTypeOK
  <2>9. Returnable'
    BY <1>0, <1>5, <2>1, <2>2, <2>3, <2>5 DEF Inserts, Returnable, LogTypeOK, Lines
  <2>10. KeptUnlessLate'
    BY <1>0, <1>5, <2>2, <2>3, <2>5 DEF Inserts, KeptUnlessLate, LogTypeOK
  <2> QED BY <2>6, <2>7, <2>8, <2>9, <2>10 DEF LogInv
<1>6. CASE AllInserted
  <2>1. \A n \in Names : Lines(n)' = Lines(n)
    BY <1>6 DEF AllInserted, Lines
  <2> QED BY <1>0, <1>6, <2>1
        DEF AllInserted, LogInv, LogTypeOK, Apart, Underway, Marked, Unlogged, Returnable,
            KeptUnlessLate, RepeatsNeedFailure, NoLeftover
<1>7. CASE DatabaseFails
  <2>1. \A n \in Names : Lines(n)' = Lines(n) /\ Lines(n) \subseteq Events
    BY <1>0, <1>7 DEF DatabaseFails, Lines, LogTypeOK
  <2>2. LogTypeOK' /\ Apart' /\ NoLeftover' /\ Marked' /\ Unlogged' /\ KeptUnlessLate' /\ Underway'
    BY <1>0, <1>7, <2>1
       DEF DatabaseFails, LogTypeOK, Apart, NoLeftover, Marked, Unlogged, KeptUnlessLate, Underway
  <2>3. Returnable' /\ RepeatsNeedFailure'
    BY <1>0, <1>7, <2>1 DEF DatabaseFails, Returnable, RepeatsNeedFailure, LogTypeOK
  <2> QED BY <2>2, <2>3 DEF LogInv
<1>8. CASE ReturnOpens
  <2>1. PICK f \in Files : OpenBuffer(f) /\ target' = f
    BY <1>8 DEF ReturnOpens
  <2>2. /\ entries'["buffer"] = f /\ entries'["flushing"] = entries["flushing"] /\ Apart'
        /\ \A n \in Names : Lines(n)' = Lines(n)
        /\ \A g \in Files : lines'[g] \subseteq lines[g]
        /\ entries' \in [Names -> Files \cup {NoFile}] /\ lines' \in [Files -> SUBSET Events]
    BY <1>0, <2>1, OpenKeeps
  <2>3. f # NoFile
    BY FilesAssumption
  <2>4. LogTypeOK'
    BY <1>0, <1>8, <2>1, <2>2, <2>3 DEF ReturnOpens, LogTypeOK
  <2>5. Underway' /\ Returnable' /\ KeptUnlessLate' /\ RepeatsNeedFailure' /\ NoLeftover'
    BY <1>0, <1>8, <2>2
       DEF ReturnOpens, Underway, Returnable, KeptUnlessLate, RepeatsNeedFailure, NoLeftover
  <2>6. Marked' /\ Unlogged'
    BY <1>0, <1>8, <2>2 DEF ReturnOpens, Marked, Unlogged, LogTypeOK
  <2> QED BY <2>2, <2>4, <2>5, <2>6 DEF LogInv
<1>9. CASE ReturnWrites
  <2>1. target \in Files /\ target = entries["buffer"] /\ target # NoFile /\ unsent = {}
    BY <1>0, <1>9 DEF ReturnWrites, LogTypeOK
  <2>2. /\ Lines("buffer")' = Lines("buffer") \cup Lines("flushing")
        /\ Lines("flushing")' = Lines("flushing")
    BY <1>0, <1>9, <2>1 DEF ReturnWrites, Lines, LogTypeOK, Apart
  <2>3. \A n \in Names : Lines(n) \subseteq Events /\ Lines(n) \subseteq logged
    BY <1>0 DEF Lines, LogTypeOK, Unlogged
  <2>4. LogTypeOK' /\ Apart' /\ NoLeftover' /\ Marked' /\ RepeatsNeedFailure'
    BY <1>0, <1>9, <2>1, <2>3
       DEF ReturnWrites, LogTypeOK, Apart, NoLeftover, Marked, RepeatsNeedFailure
  <2>5. Underway' /\ Returnable' /\ KeptUnlessLate'
    BY <1>0, <1>9, <2>1, <2>2 DEF ReturnWrites, Underway, Returnable, KeptUnlessLate
  <2>6. Unlogged'
    BY <1>0, <1>9, <2>1, <2>3 DEF ReturnWrites, Unlogged, LogTypeOK
  <2> QED BY <2>4, <2>5, <2>6 DEF LogInv
<1>10. CASE Unlinks
  <2>1. Lines("buffer")' = Lines("buffer") /\ Lines("flushing")' = {} /\ unsent = {}
    BY <1>0, <1>10 DEF Unlinks, Lines, LogTypeOK
  <2>2. LogTypeOK' /\ Apart' /\ NoLeftover' /\ Marked' /\ Unlogged' /\ RepeatsNeedFailure'
    BY <1>0, <1>10, <2>1
       DEF Unlinks, LogTypeOK, Apart, NoLeftover, Marked, Unlogged, RepeatsNeedFailure
  <2>3. Underway' /\ Returnable'
    BY <1>0, <1>10, <2>1 DEF Unlinks, Underway, Returnable
  <2>4. KeptUnlessLate'
    BY <1>0, <1>10, <2>1 DEF Unlinks, KeptUnlessLate, Underway
  <2> QED BY <2>2, <2>3, <2>4 DEF LogInv
<1>11. CASE Crash
  <2>1. \A n \in Names : Lines(n)' = Lines(n)
    BY <1>11 DEF Crash, Lines
  <2> QED BY <1>0, <1>11, <2>1
        DEF Crash, LogInv, LogTypeOK, Apart, Underway, Marked, Unlogged, Returnable,
            KeptUnlessLate, RepeatsNeedFailure, NoLeftover
<1>12. CASE UNCHANGED logVars
  <2>1. \A n \in Names : Lines(n)' = Lines(n)
    BY <1>12 DEF logVars, Lines
  <2> QED BY <1>0, <1>12, <2>1
        DEF logVars, LogInv, LogTypeOK, Apart, Underway, Marked, Unlogged, Returnable,
            KeptUnlessLate, RepeatsNeedFailure, NoLeftover
<1> QED BY <1>1, <1>2, <1>3, <1>4, <1>5, <1>6, <1>7, <1>8, <1>9, <1>10, <1>11, <1>12
      DEF LogNext, FlushSteps

LEMMA LogInvariant == LogSpec => []LogInv
BY LogStarts, LogGoesOn, PTL DEF LogSpec

-----------------------------------------------------------------------------
(* The theorems.                                                           *)

\* The variables keep their types, and a flush that runs has its file.
THEOREM LogTypes == LogSpec => []LogTypeOK
<1>1. LogInv => LogTypeOK
  BY DEF LogInv
<1> QED BY <1>1, LogInvariant, PTL

\* A flush killed anywhere, or refused by the database, loses no line that was
\* in the buffer when it took it.
THEOREM NothingVanishes == LogSpec => []KeptUnlessLate
<1>1. LogInv => KeptUnlessLate
  BY DEF LogInv
<1> QED BY <1>1, LogInvariant, PTL

\* Rows are repeated at most once for each flush that failed.
THEOREM RepeatsAreReturns == LogSpec => []RepeatsNeedFailure
<1>1. LogInv => RepeatsNeedFailure
  BY DEF LogInv
<1> QED BY <1>1, LogInvariant, PTL
=============================================================================
