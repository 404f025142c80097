------------------------------- MODULE Memory -------------------------------
(***************************************************************************)
(* The agents' shared memory (mnemon).  Facts live in Redis (L2): agents   *)
(* publish them (out), take them (in_), and at the end of a job            *)
(* archive_job copies those of the job to Postgres (L3) and removes them.  *)
(* Notes go to L3 directly: create_note inserts a node, links it with the  *)
(* other notes of its session and with the entities it mentions.           *)
(*                                                                         *)
(* Every call of the database commits on its own, so an archive or a note  *)
(* is a run of statements that others interleave with; any of them may     *)
(* raise, which ends the call where it stands.  Only the flush of the CLI  *)
(* has several statements in one transaction: others see the rows it has   *)
(* deleted until it commits, and wait for it before they write to them.    *)
(* Flushes are run by hand, one after the other.  Contents, embeddings and *)
(* tags are left out; a fact is its job and its key, the (category, key)   *)
(* that in_ and the archive's clean-up ask for.                            *)
(***************************************************************************)
EXTENDS Naturals, FiniteSets

CONSTANTS
  Facts,             \* numbered in the order of their timestamps
  KeyOf, JobOf,
  Plain,             \* the keys that RediSearch parses as a tag, unescaped
  Mortal,            \* the facts published with a ttl
  Page,              \* what one search returns: ten, whatever its limit says
  Consumers,         \* agents that call in_
  Archives, ArchiveOf,   \* calls of archive_job, and their job
  Notes, SessionOf,  \* calls of create_note, and their session
  Mentioned,         \* the entities a fact or a note names
  Flushes,           \* runs of `cli flush --all`
  Together,          \* the sets of facts and calls that occur in one behaviour
  CanFail            \* a call may be cut short: the database, or the process

ASSUME FactsAssumption ==
  /\ Facts \subseteq Nat \ {0} /\ IsFiniteSet(Facts) /\ Mortal \subseteq Facts /\ Page \in Nat \ {0}
  /\ DOMAIN KeyOf = Facts /\ DOMAIN JobOf = Facts /\ DOMAIN SessionOf = Notes
  /\ DOMAIN ArchiveOf = Archives /\ DOMAIN Mentioned = Facts \cup Notes
  /\ CanFail \in BOOLEAN /\ Together \subseteq SUBSET (Facts \cup Archives \cup Notes \cup Flushes)

\* Whoever makes a call makes that one only, and ids are fresh.
ASSUME CallsAssumption ==
  /\ Archives \cap Notes = {} /\ Flushes \cap (Archives \cup Notes) = {}
  /\ Consumers \cap Archives = {} /\ Notes \cap (Archives \X Facts) = {}

VARIABLES
  fact,      \* where each fact is: "unset" is in Redis, its expiry not set yet
  got,       \* history: by whom in_ removed it, and by which path
  script,    \* the Lua script is in Redis's cache
  taking,    \* a call of in_ on its way through the fallback
  nodes, links, entities,  \* agents.memory_nodes, memory_links, memory_entities
  dropped,   \* the rows a flush has deleted in the transaction it has open
  amid,      \* history: nodes inserted between its DELETE of the nodes and its end
  at,        \* each call that writes to L3, at its next statement
  left,      \* what the loop it is in has yet to visit
  names,     \* the entities it has yet to link its node with
  batch      \* the facts an archive has read

L2 == <<fact, got, script, taking>>
L3 == <<nodes, links, entities, dropped, amid>>
calls == <<at, left, names, batch>>
vars == <<L2, L3, calls>>

Writers == Archives \cup Notes \cup Flushes
Clients == Consumers \cup Archives
Paths == {"script", "lost", "fallback"}
InRedis == {f \in Facts : fact[f] \in {"unset", "live"}}
NotTaking == [fact |-> 0, read |-> FALSE]
NoRows == [nodes |-> {}, links |-> {}, entities |-> {}]

-----------------------------------------------------------------------------
(* L2: tuplespace.py, backends/redis.py.                                   *)

\* out: the document, then its expiry.
Out(f) ==
  /\ fact[f] = "new"
  /\ fact' = [fact EXCEPT ![f] = IF f \in Mortal THEN "unset" ELSE "live"]
  /\ UNCHANGED <<got, script, taking, L3, calls>>

SetExpiry(f) ==
  /\ fact[f] = "unset"
  /\ fact' = [fact EXCEPT ![f] = "live"]
  /\ UNCHANGED <<got, script, taking, L3, calls>>

Expires(f) ==
  /\ f \in Mortal /\ fact[f] = "live"
  /\ fact' = [fact EXCEPT ![f] = "gone"]
  /\ UNCHANGED <<got, script, taking, L3, calls>>

\* Redis restarts with its data and without its scripts; a client connects.
ScriptsFlushed ==
  /\ CanFail /\ script
  /\ script' = FALSE /\ UNCHANGED <<fact, got, taking, L3, calls>>
Connect ==
  /\ ~script
  /\ script' = TRUE /\ UNCHANGED <<fact, got, taking, L3, calls>>

\* A query that does not parse finds nothing, by either path.
Matching(k) == {f \in InRedis : KeyOf[f] = k /\ k \in Plain}

\* (bug: the script returns the document and leaves it in place)
TakeByScript_Kept(c, k) ==
  /\ script /\ taking[c] = NotTaking
  /\ \E f \in Matching(k) : got' = [got EXCEPT ![f] = @ \cup {<<c, "script">>}]
  /\ UNCHANGED <<fact, taking>>

\* The script finds, reads and deletes in one step.
TakeByScript(c, k) ==
  /\ script /\ taking[c] = NotTaking
  /\ \E f \in Matching(k) :
       /\ fact' = [fact EXCEPT ![f] = "gone"]
       /\ got' = [got EXCEPT ![f] = @ \cup {<<c, "script">>}]
  /\ UNCHANGED taking

\* The same, but its reply is lost on the way back: nobody gets the fact, and the
\* call goes on, with the script again when the client resends, or without it.
ReplyLost(c, k) ==
  /\ CanFail /\ script /\ taking[c] = NotTaking
  /\ \E f \in Matching(k) :
       /\ fact' = [fact EXCEPT ![f] = "gone"]
       /\ got' = [got EXCEPT ![f] = @ \cup {<<c, "lost">>}]
  /\ UNCHANGED taking

\* Whenever the script has failed, for whatever reason: search, get, delete.
TakeFinds(c, k) ==
  /\ ~script \/ CanFail
  /\ taking[c] = NotTaking
  /\ \E f \in Matching(k) : taking' = [taking EXCEPT ![c] = [fact |-> f, read |-> FALSE]]
  /\ UNCHANGED <<fact, got>>

TakeGets(c) ==
  /\ taking[c] # NotTaking /\ ~taking[c].read
  /\ taking' = [taking EXCEPT ![c] = IF @.fact \in InRedis THEN [@ EXCEPT !.read = TRUE]
                                     ELSE NotTaking]
  /\ UNCHANGED <<fact, got>>

TakeDeletes(c) ==
  /\ taking[c] # NotTaking /\ taking[c].read
  /\ fact' = [fact EXCEPT ![taking[c].fact] = "gone"]
  /\ got' = [got EXCEPT ![taking[c].fact] = @ \cup {<<c, "fallback">>}]
  /\ taking' = [taking EXCEPT ![c] = NotTaking]

\* The get or the delete raises: in_ returns nothing.
TakeFails(c) ==
  /\ CanFail /\ taking[c] # NotTaking
  /\ taking' = [taking EXCEPT ![c] = NotTaking]
  /\ UNCHANGED <<fact, got>>

\* in_ by an agent.
Consume(c) ==
  /\ \/ \E k \in Plain : TakeByScript(c, k) \/ ReplyLost(c, k) \/ TakeFinds(c, k)
     \/ TakeGets(c) \/ TakeDeletes(c) \/ TakeFails(c)
  /\ UNCHANGED <<script, L3, calls>>

-----------------------------------------------------------------------------
(* The calls that write to L3: one action for each statement.              *)

\* Facts are copied, chained and cleaned up in the order of their timestamps;
\* other loops have an order of their own.
First(f, S) == f \in S /\ \A g \in S : f <= g
Pick(S) == CHOOSE x \in S : TRUE

\* A fact's node belongs to the run that archives it: ids are fresh.
NodeOf(a, f) == <<a, f>>
Source(n) == IF n \in Notes THEN SessionOf[n] ELSE JobOf[n[2]]
Siblings(n) == {m \in nodes \ {n} : Source(m) = Source(n)}

\* The node a call is at work on.
Subject(w) == IF w \in Notes THEN {w} ELSE {NodeOf(w, f) : f \in {g \in left[w] : First(g, left[w])}}

Moves(w, to) == at' = [at EXCEPT ![w] = to]
Visits(w, S) == left' = [left EXCEPT ![w] = S]
Naming(w, S) == names' = [names EXCEPT ![w] = S]
Raises(w) == Moves(w, "raised") /\ Visits(w, {}) /\ Naming(w, {}) /\ UNCHANGED batch

\* (bug: the columns have no reference to the nodes)
AddLink_Unchecked(w, row, Then) == links' = links \cup {row} /\ Then
\* create_link, a plain INSERT: (from_node, to_entity, link_type) is the primary
\* key, and from_node refers to a node; a row that breaks either raises.
\* It waits for a flush that has deleted the node, or the row itself.
AddLink(w, row, Then) ==
  /\ row[1] \notin dropped.nodes /\ row \notin dropped.links
  /\ IF row[1] \in nodes /\ row \notin links THEN links' = links \cup {row} /\ Then
     ELSE Raises(w) /\ UNCHANGED links

\* A node that comes after the DELETE of a flush is not among those deleted.
Dropping == \E x \in Flushes : at[x] \in {"entities", "commit"}
AddNode(n) ==
  /\ nodes' = nodes \cup {n}
  /\ amid' = IF Dropping THEN amid \cup {n} ELSE amid

\* What rd returns: a page of the project's facts, whichever come first; nothing
\* when the search fails.
Pages ==
  {P \in SUBSET InRedis : \/ Cardinality(P) <= Page /\ (Cardinality(P) = Page \/ P = InRedis)
                          \/ CanFail /\ P = {}}

\* archive_job reads the facts of its job; with none it is over.
BeginArchive(a) ==
  /\ at[a] = "new"
  /\ \E P \in Pages :
       LET mine == {f \in P : JobOf[f] = ArchiveOf[a]} IN
       /\ batch' = [batch EXCEPT ![a] = mine]
       /\ Visits(a, mine)
       /\ Moves(a, IF mine = {} THEN "done" ELSE "insert")
  /\ UNCHANGED <<names, L2, L3>>

\* create_node, for the next fact of an archive.
CreateNode(a) ==
  /\ at[a] = "insert"
  /\ \E f \in left[a] :
       /\ First(f, left[a])
       /\ AddNode(NodeOf(a, f))
       /\ Naming(a, Mentioned[f])
  /\ Moves(a, "ensure")
  /\ UNCHANGED <<L2, links, entities, dropped, left, batch>>

\* Each entity that a node mentions is made sure of, then linked; an INSERT of one
\* that a flush has deleted waits for it.
EnsureEntity(w) ==
  /\ at[w] = "ensure" /\ names[w] # {} /\ Pick(names[w]) \notin dropped.entities
  /\ entities' = entities \cup {Pick(names[w])}
  /\ Moves(w, "mention")
  /\ UNCHANGED <<L2, nodes, links, dropped, amid, left, names, batch>>

Mention(w) ==
  /\ at[w] = "mention"
  /\ \E n \in Subject(w) :
       AddLink(w, <<n, Pick(names[w]), "mentions">>,
         Naming(w, names[w] \ {Pick(names[w])}) /\ Moves(w, "ensure") /\ UNCHANGED <<left, batch>>)
  /\ UNCHANGED <<L2, nodes, entities, dropped, amid>>

\* The node is there with its mentions: on to the next fact, then to the chain.
Copied(a) ==
  /\ at[a] = "ensure" /\ names[a] = {}
  /\ \E f \in left[a] :
       /\ First(f, left[a])
       /\ Visits(a, IF left[a] = {f} THEN batch[a] ELSE left[a] \ {f})
       /\ Moves(a, IF left[a] = {f} THEN "chain" ELSE "insert")
  /\ UNCHANGED <<L2, L3, names, batch>>

Follow(a) ==
  /\ at[a] = "chain"
  /\ \E f, g \in left[a] :
       /\ First(f, left[a]) /\ First(g, left[a] \ {f})
       /\ AddLink(a, <<NodeOf(a, f), NodeOf(a, g), "FOLLOWS">>,
            Visits(a, left[a] \ {f}) /\ UNCHANGED <<at, names, batch>>)
  /\ UNCHANGED <<L2, nodes, entities, dropped, amid>>

Chained(a) ==
  /\ at[a] = "chain" /\ \E f \in left[a] : left[a] = {f}
  /\ Moves(a, "take") /\ Visits(a, batch[a])
  /\ UNCHANGED <<L2, L3, names, batch>>

\* (bug: everything with the key is cleaned up)
CleanUp_All(a) ==
  /\ at[a] = "take"
  /\ \E f \in left[a] :
       /\ First(f, left[a])
       /\ \/ TakeByScript(a, KeyOf[f]) /\ UNCHANGED calls
          \/ /\ Matching(KeyOf[f]) = {} /\ Visits(a, left[a] \ {f})
             /\ UNCHANGED <<fact, got, taking, at, names, batch>>
  /\ UNCHANGED <<script, L3>>

Cleaned(a, f) == Visits(a, left[a] \ {f}) /\ UNCHANGED <<at, names, batch>>

\* in_ by an archive that cleans up; what it returns, if only that nothing was
\* found or that the searches failed, is not looked at.
CleanUp(a) ==
  /\ at[a] = "take"
  /\ \E f \in left[a] :
       /\ First(f, left[a])
       /\ \/ TakeByScript(a, KeyOf[f]) /\ Cleaned(a, f)
          \/ ReplyLost(a, KeyOf[f]) /\ UNCHANGED calls
          \/ /\ taking[a] = NotTaking /\ (CanFail \/ Matching(KeyOf[f]) = {})
             /\ Cleaned(a, f) /\ UNCHANGED <<fact, got, taking>>
          \/ TakeFinds(a, KeyOf[f]) /\ UNCHANGED calls
          \/ TakeGets(a) /\ IF taking'[a] = NotTaking THEN Cleaned(a, f) ELSE UNCHANGED calls
          \/ (TakeDeletes(a) \/ TakeFails(a)) /\ Cleaned(a, f)
  /\ UNCHANGED <<script, L3>>

\* create_note inserts its node and asks for the notes of its session.
CreateNote(n) ==
  /\ at[n] = "new"
  /\ AddNode(n)
  /\ Moves(n, "relate")
  /\ UNCHANGED <<L2, links, entities, dropped, left, names, batch>>

LinkSiblings(n) ==
  /\ at[n] = "relate"
  /\ Visits(n, Siblings(n)) /\ Moves(n, "there")
  /\ UNCHANGED <<L2, L3, names, batch>>

\* It links each of them, there and back.
LinkThere(n) ==
  /\ at[n] = "there" /\ left[n] # {}
  /\ AddLink(n, <<n, Pick(left[n]), "temporal">>, Moves(n, "back") /\ UNCHANGED <<left, names, batch>>)
  /\ UNCHANGED <<L2, nodes, entities, dropped, amid>>

\* (bug: the older note is left as it was)
LinkBack_Skipped(n) ==
  /\ at[n] = "back"
  /\ Visits(n, left[n] \ {Pick(left[n])}) /\ Moves(n, "there")
  /\ UNCHANGED <<L2, L3, names, batch>>

LinkBack(n) ==
  /\ at[n] = "back"
  /\ AddLink(n, <<Pick(left[n]), n, "temporal">>,
       Visits(n, left[n] \ {Pick(left[n])}) /\ Moves(n, "there") /\ UNCHANGED <<names, batch>>)
  /\ UNCHANGED <<L2, nodes, entities, dropped, amid>>

Related(n) ==
  /\ at[n] = "there" /\ left[n] = {}
  /\ Moves(n, "ensure") /\ Naming(n, Mentioned[n])
  /\ UNCHANGED <<L2, L3, left, batch>>

\* cli flush --all: the keys found are deleted one by one, then L3.
BeginFlush(x) ==
  /\ at[x] = "new" /\ \A y \in Flushes : at[y] \in {"off", "new", "done", "raised"}
  /\ Moves(x, "delete") /\ Visits(x, InRedis)
  /\ UNCHANGED <<L2, L3, names, batch>>

DeleteFact(x) ==
  /\ at[x] = "delete" /\ left[x] # {}
  /\ fact' = [fact EXCEPT ![Pick(left[x])] = "gone"]
  /\ Visits(x, left[x] \ {Pick(left[x])})
  /\ UNCHANGED <<got, script, taking, L3, at, names, batch>>

\* Its three DELETEs: each takes the rows there are when it runs, the second one
\* also what links lead away from the nodes by then.
Drops(x, rows, to) ==
  /\ dropped' = rows /\ Moves(x, to)
  /\ UNCHANGED <<L2, nodes, links, entities, amid, left, names, batch>>

DropLinks(x) ==
  /\ at[x] = "delete" /\ left[x] = {}
  /\ Drops(x, [dropped EXCEPT !.links = {l \in links : l[1] \in nodes}], "nodes")

DropNodes(x) ==
  /\ at[x] = "nodes"
  /\ Drops(x, [dropped EXCEPT !.nodes = nodes, !.links = {l \in links : l[1] \in nodes}], "entities")

DropEntities(x) ==
  /\ at[x] = "entities"
  /\ Drops(x, [dropped EXCEPT !.entities = entities], "commit")

CommitDrops(x) ==
  /\ at[x] = "commit"
  /\ nodes' = nodes \ dropped.nodes
  /\ links' = links \ dropped.links
  /\ entities' = entities \ dropped.entities
  /\ dropped' = NoRows
  /\ Moves(x, "done")
  /\ UNCHANGED <<L2, amid, left, names, batch>>

\* The call returns.
Returns(w) ==
  /\ \/ w \in Notes /\ at[w] = "ensure" /\ names[w] = {}
     \/ w \in Archives /\ at[w] = "take" /\ left[w] = {}
  /\ Moves(w, "done")
  /\ UNCHANGED <<L2, L3, left, names, batch>>

\* A statement fails or the process dies: the rest is not done, and what a flush
\* deleted without committing is undone.
Breaks(w) ==
  /\ CanFail /\ at[w] \notin {"off", "new", "done", "raised"}
  /\ Raises(w)
  /\ taking' = [c \in Clients |-> IF c = w THEN NotTaking ELSE taking[c]]
  /\ dropped' = IF w \in Flushes THEN NoRows ELSE dropped
  /\ UNCHANGED <<fact, got, script, nodes, links, entities, amid>>

Init ==
  /\ \E S \in Together :
       /\ fact = [f \in Facts |-> IF f \in S THEN "new" ELSE "gone"]
       /\ at = [w \in Writers |-> IF w \in S THEN "new" ELSE "off"]
  /\ got = [f \in Facts |-> {}]
  /\ script = TRUE /\ taking = [c \in Clients |-> NotTaking]
  /\ nodes = {} /\ links = {} /\ entities = {} /\ dropped = NoRows /\ amid = {}
  /\ left = [w \in Writers |-> {}] /\ names = [w \in Writers |-> {}]
  /\ batch = [a \in Archives |-> {}]

Archive(a) == BeginArchive(a) \/ CreateNode(a) \/ Copied(a) \/ Follow(a) \/ Chained(a) \/ CleanUp(a)
Note(n) == CreateNote(n) \/ LinkSiblings(n) \/ LinkThere(n) \/ LinkBack(n) \/ Related(n)
Flush(x) ==
  BeginFlush(x) \/ DeleteFact(x) \/ DropLinks(x) \/ DropNodes(x) \/ DropEntities(x) \/ CommitDrops(x)

Next ==
  \/ \E f \in Facts : Out(f) \/ SetExpiry(f) \/ Expires(f)
  \/ ScriptsFlushed \/ Connect
  \/ \E c \in Consumers : Consume(c)
  \/ \E a \in Archives : Archive(a)
  \/ \E n \in Notes : Note(n)
  \/ \E x \in Flushes : Flush(x)
  \/ \E w \in Writers : EnsureEntity(w) \/ Mention(w) \/ Returns(w) \/ Breaks(w)

Spec == Init /\ [][Next]_vars

-----------------------------------------------------------------------------
(* Properties.                                                             *)

Places == {"off", "new", "insert", "ensure", "mention", "chain", "take", "relate", "there",
           "back", "delete", "nodes", "entities", "commit", "done", "raised"}

TypeOK ==
  /\ fact \in [Facts -> {"new", "unset", "live", "gone"}]
  /\ got \in [Facts -> SUBSET (Clients \X Paths)] /\ script \in BOOLEAN
  /\ taking \in [Clients -> [fact : Facts \cup {0}, read : BOOLEAN]]
  /\ at \in [Writers -> Places] /\ DOMAIN left = Writers /\ DOMAIN names = Writers
  /\ \A a \in Archives : left[a] \subseteq batch[a]
  /\ batch \in [Archives -> SUBSET Facts] /\ DOMAIN dropped = {"nodes", "links", "entities"}

\* Linda's in: the script removes a fact once, whether its reply arrives or not.
\* It can go to a second agent when that one took the fallback, which is search,
\* get and delete.
TakenOnce ==
  \A f \in Facts : Cardinality({g \in got[f] : g[2] # "fallback"}) <= 1

\* What an edge comes from is always there, and so is what it leads to: where the
\* one end is a node inserted in the middle of a flush, between its DELETE of the
\* nodes and its commit, the other one may be missing.  The facts of a job are
\* chained without a gap even then.
LinksResolve ==
  \A l \in links :
    /\ l[1] \in nodes
    /\ \/ l[2] \in IF l[3] = "mentions" THEN entities ELSE nodes
       \/ l[1] \in amid /\ l[3] # "FOLLOWS"

\* Two notes of a session whose calls have returned lead to each other, however
\* the two calls interleaved.
SiblingsLinked ==
  \A n, m \in Notes \cap nodes :
    n # m /\ SessionOf[n] = SessionOf[m] /\ at[n] = "done" /\ at[m] = "done"
      => <<n, m, "temporal">> \in links

Removed(a, How) == {f \in Facts : \E p \in How : <<a, p>> \in got[f]}
Popped(a) == Removed(a, Paths)
Returned(a) == Removed(a, Paths \ {"lost"})
With(S, k) == {f \in S : KeyOf[f] = k}
\* The clean-up of an archive asks for keys, not for the facts it copied.  It
\* begins when all of them are in the graph, unless a flush erased that, and what
\* it removes without having copied it only takes the place of a fact with the
\* same key that it copied and somebody else removed; but for the facts whose
\* removal it was not told of, which a call that goes on after it asks for again.
CleanUpIsCovered ==
  \A a \in Archives :
    /\ Popped(a) # {} => \/ \A f \in batch[a] : NodeOf(a, f) \in nodes
                         \/ \E x \in Flushes : at[x] = "done"
    /\ \A f \in Facts :
         Cardinality(With(Returned(a), KeyOf[f])) <= Cardinality(With(batch[a], KeyOf[f]))
=============================================================================
