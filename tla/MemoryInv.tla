------------------------------ MODULE MemoryInv ------------------------------
(***************************************************************************)
(* The inductive invariant behind Memory's properties: what the calls that *)
(* write to L3 may rely on between two statements, though every statement  *)
(* commits on its own and a flush may delete the graph under them.         *)
(***************************************************************************)
EXTENDS Memory

AllNodes == Notes \cup (Archives \X Facts)

\* Where each kind of call can stand, and what its loops range over.
ArchivePlaces == {"off", "new", "insert", "ensure", "mention", "chain", "take", "done", "raised"}
NotePlaces == {"off", "new", "relate", "there", "back", "ensure", "mention", "done", "raised"}
FlushPlaces == {"off", "new", "delete", "nodes", "entities", "commit", "done", "raised"}
PlacedArchive(a) == at[a] \in ArchivePlaces
PlacedNote(n) == at[n] \in NotePlaces /\ left[n] \subseteq AllNodes /\ (at[n] = "back" => left[n] # {})
PlacedFlush(x) == at[x] \in FlushPlaces /\ left[x] \subseteq Facts
Placed ==
  /\ \A a \in Archives : PlacedArchive(a)
  /\ \A n \in Notes : PlacedNote(n)
  /\ \A x \in Flushes : PlacedFlush(x)
  /\ nodes \subseteq AllNodes

\* The facts an archive has yet to insert.
Pending(a) ==
  {f \in left[a] : \/ at[a] = "insert"
                   \/ at[a] \in {"ensure", "mention"} /\ ~First(f, left[a])}

\* A node that was inserted will not be inserted again, so one that a flush
\* erased stays away.
Used(m) ==
  /\ m \in Notes => at[m] \notin {"off", "new"}
  /\ \A a \in Archives, f \in Facts : m = NodeOf(a, f) => at[a] \notin {"off", "new"} /\ f \notin Pending(a)
OnceOnly ==
  /\ \A m \in nodes : Used(m)
  /\ \A n \in Notes : \A m \in left[n] : Used(m)

\* The transaction of a flush.  Only one runs; what is there when it has deleted
\* the nodes and is not among them came since, and of what leads away from them
\* nothing stays.  Of two nodes an archive has chained, or is to chain, the newer
\* is not deleted without the older.
Idle == {"off", "new", "done", "raised"}
InOrderDropped(a) ==
  \A f, g \in batch[a] :
    f < g /\ NodeOf(a, g) \in dropped.nodes /\ NodeOf(a, f) \in nodes => NodeOf(a, f) \in dropped.nodes
FlushIsSafe ==
  /\ \A x, y \in Flushes : at[x] \in Idle \/ at[y] \in Idle \/ x = y
  /\ dropped.nodes \subseteq nodes
  /\ dropped.nodes = {} \/ Dropping
  /\ Dropping => /\ nodes \ dropped.nodes \subseteq amid
                 /\ \A l \in links : l \in dropped.links <=> l[1] \in dropped.nodes
  /\ \A l \in links : l[3] = "FOLLOWS" /\ l[2] \in dropped.nodes => l[1] \in dropped.nodes
  /\ \A a \in Archives : InOrderDropped(a)

\* A node about to be linked with an entity: the entity is there, or a flush took
\* the node too, or the node came in the middle of one.
MentionIsSafe(w) ==
  at[w] = "mention" => Pick(names[w]) \in entities \/ Subject(w) \cap (nodes \ amid) = {}

\* Of the nodes an archive has inserted the older is never there without the newer.
InOrder(a) == at[a] \in {"insert", "ensure", "mention"} => \A f \in batch[a] \ left[a], g \in left[a] : f < g
ChainIsSafe(a) ==
  at[a] \in {"insert", "ensure", "mention", "chain"} =>
    \A f, g \in batch[a] :
      f < g /\ NodeOf(a, f) \in nodes => NodeOf(a, g) \in nodes \/ g \in Pending(a)

\* A note that relates itself and the siblings it found are there together, but
\* for those that came in the middle of a flush.
SiblingsAreSafe(n) ==
  /\ at[n] \in {"there", "back"} /\ n \in nodes \ amid => left[n] \subseteq nodes
  /\ at[n] = "back" /\ left[n] \cap (nodes \ amid) # {} => n \in nodes

\* Two notes of a session that have both looked for siblings: the link is there,
\* or one of the calls still has to make it.
HasLooked(n) == n \in nodes /\ at[n] \in {"there", "back", "ensure", "mention", "done"}
OwesThere(n, m) == m \in left[n] /\ (at[n] = "there" \/ (at[n] = "back" /\ m # Pick(left[n])))
OwesBack(m, n) == n \in left[m] /\ at[m] \in {"there", "back"}
LinkedOrOwed(n, m) ==
  n # m /\ SessionOf[n] = SessionOf[m] /\ HasLooked(n) /\ HasLooked(m) =>
    <<n, m, "temporal">> \in links \/ OwesThere(n, m) \/ OwesBack(m, n)

\* The clean-up comes after the copies, and in the fallback it keeps to its fact.
Erased == \E x \in Flushes : at[x] = "done"
CopiedOrErased(a) ==
  at[a] \in {"insert", "ensure", "mention", "chain", "take", "done"} \/ Popped(a) # {} =>
    Erased \/ \A f \in batch[a] : f \in Pending(a) \/ NodeOf(a, f) \in nodes
CleansLast(a) ==
  /\ Popped(a) # {} => at[a] \in {"take", "done", "raised"}
  /\ taking[a] # NotTaking =>
       /\ at[a] = "take"
       /\ \E f \in left[a] : First(f, left[a]) /\ KeyOf[taking[a].fact] = KeyOf[f]

\* It was given no more facts of a key than it asked for.
Asked(a) == IF at[a] = "take" THEN batch[a] \ left[a] ELSE batch[a]
CleansInProportion(a) ==
  \A f \in Facts : Cardinality(With(Returned(a), KeyOf[f])) <= Cardinality(With(Asked(a), KeyOf[f]))

Careful(a) == CopiedOrErased(a) /\ CleansLast(a) /\ CleansInProportion(a)

-----------------------------------------------------------------------------
(* The two invariants: the graph's, and with it the clean-up's.            *)

Sound ==
  /\ TypeOK /\ Placed /\ OnceOnly /\ FlushIsSafe /\ LinksResolve
  /\ \A w \in Writers : MentionIsSafe(w)
  /\ \A a \in Archives : InOrder(a) /\ ChainIsSafe(a)
  /\ \A n \in Notes : SiblingsAreSafe(n)
  /\ \A n, m \in Notes : LinkedOrOwed(n, m)

Tidy == Sound /\ \A a \in Archives : Careful(a)
=============================================================================
