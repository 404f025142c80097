------------------------------ MODULE EventLog ------------------------------
(***************************************************************************)
(* The memory event log: every hook of an agent appends one line to        *)
(* ~/.tmux/memory-events.jsonl (memory-hook.py), and every two minutes     *)
(* flush-events.py renames that buffer to .flushing, inserts its lines     *)
(* into Postgres and removes it; when the database fails it appends the    *)
(* lines to the buffer again.                                              *)
(*                                                                         *)
(* A name in the directory leads to a file, and an append goes to the file *)
(* that was opened, whatever its name has become.  One flush runs at a     *)
(* time: launchd starts no second one, and the loop of the container waits *)
(* for each.  A line is an event, decoded without loss; what an event says *)
(* is left out.                                                            *)
(***************************************************************************)
EXTENDS Naturals, FiniteSets

CONSTANTS
  Events,      \* one per call of a hook
  Files,       \* inode numbers; the lowest free one is handed out
  NoFile,
  MaxFails,    \* bound: how often the database fails a flush
  MaxCrashes   \* bound: how often a flush is killed

ASSUME FilesAssumption == Files \subseteq Nat /\ NoFile \notin Files
ASSUME FaultsAssumption == MaxFails \in Nat /\ MaxCrashes \in Nat

VARIABLES
  entries,    \* the file that "buffer" and "flushing" lead to
  lines,    \* what each file holds
  opened,   \* the file a hook has opened and not yet written to
  logged,   \* the events whose hook has written its line
  pc, unsent, target,  \* the flush: where it is, what is left to insert, where to return it
  rows,     \* agents.memory_events: how many rows an event has
  fails, crashes,
  late,     \* history: lines written to a file that was no longer the buffer
  orphaned  \* history: lines that only a leftover of a killed flush held

disk == <<entries, lines>>
hooks == <<opened, logged, late>>
flush == <<pc, unsent, target>>
logVars == <<disk, hooks, flush, rows, fails, crashes, orphaned>>

Names == {"buffer", "flushing"}
Lines(n) == IF entries[n] = NoFile THEN {} ELSE lines[entries[n]]
Stored == {e \in Events : rows[e] > 0}

\* What only the leftover of a killed flush holds: nothing ever reads it.
LeftBehind ==
  IF pc = "idle" THEN Lines("flushing") \ (Lines("buffer") \cup Stored) ELSE {}

\* Files that nobody can reach any more may be handed out again.
Unused ==
  {f \in Files : /\ \A n \in Names : entries[n] # f
                 /\ \A e \in Events : opened[e] # f
                 /\ target # f}

\* open("a") of the buffer: the file there is, or a new, empty one.
OpenBuffer(f) ==
  \/ f = entries["buffer"] /\ f # NoFile /\ UNCHANGED disk
  \/ /\ entries["buffer"] = NoFile
     /\ f \in Unused /\ \A g \in Unused : f <= g
     /\ entries' = [entries EXCEPT !["buffer"] = f]
     /\ lines' = [lines EXCEPT ![f] = {}]

-----------------------------------------------------------------------------
(* memory-hook.py *)

HookOpens(e) ==
  /\ e \notin logged /\ opened[e] = NoFile
  /\ \E f \in Files : OpenBuffer(f) /\ opened' = [opened EXCEPT ![e] = f]
  /\ UNCHANGED <<logged, late, flush, rows, fails, crashes, orphaned>>

HookWrites(e) ==
  /\ opened[e] # NoFile
  /\ lines' = [lines EXCEPT ![opened[e]] = @ \cup {e}]
  /\ opened' = [opened EXCEPT ![e] = NoFile]
  /\ logged' = logged \cup {e}
  /\ late' = IF opened[e] = entries["buffer"] THEN late ELSE late \cup {e}
  /\ UNCHANGED <<entries, flush, rows, fails, crashes, orphaned>>

-----------------------------------------------------------------------------
(* flush-events.py *)

\* (bug: a flush waits until the leftover of another is gone)
TakesBuffer_Waits ==
  /\ pc = "idle" /\ Lines("buffer") # {} /\ entries["flushing"] = NoFile
  /\ entries' = [buffer |-> NoFile, flushing |-> entries["buffer"]]
  /\ pc' = "read"
  /\ UNCHANGED <<lines, hooks, unsent, target, rows, fails, crashes, orphaned>>

\* The buffer takes the place of whatever an earlier flush left behind.
TakesBuffer ==
  /\ pc = "idle" /\ Lines("buffer") # {}
  /\ entries' = [buffer |-> NoFile, flushing |-> entries["buffer"]]
  /\ orphaned' = orphaned \cup LeftBehind
  /\ pc' = "read"
  /\ UNCHANGED <<lines, hooks, unsent, target, rows, fails, crashes>>

ReadsLines ==
  /\ pc = "read"
  /\ unsent' = Lines("flushing") /\ pc' = "insert"
  /\ UNCHANGED <<disk, hooks, target, rows, fails, crashes, orphaned>>

\* (bug: an insert whose answer is lost is made again, under another id)
Inserts_Twice ==
  /\ pc = "insert"
  /\ \E e \in unsent :
       /\ rows' = [rows EXCEPT ![e] = @ + 1]
       /\ unsent' = unsent \ {e} \/ (rows[e] = 0 /\ UNCHANGED unsent)
  /\ UNCHANGED <<disk, hooks, pc, target, fails, crashes, orphaned>>

\* Each row is committed on its own, under a fresh id.
Inserts ==
  /\ pc = "insert"
  /\ \E e \in unsent :
       /\ rows' = [rows EXCEPT ![e] = @ + 1]
       /\ unsent' = unsent \ {e}
  /\ UNCHANGED <<disk, hooks, pc, target, fails, crashes, orphaned>>

AllInserted ==
  /\ pc = "insert" /\ unsent = {}
  /\ pc' = "unlink"
  /\ UNCHANGED <<disk, hooks, unsent, target, rows, fails, crashes, orphaned>>

\* There is no DATABASE_URL, or the connection or an insert fails.
DatabaseFails ==
  /\ pc = "insert" /\ fails < MaxFails
  /\ fails' = fails + 1
  /\ unsent' = {} /\ pc' = "return"
  /\ UNCHANGED <<disk, hooks, target, rows, crashes, orphaned>>

ReturnOpens ==
  /\ pc = "return"
  /\ \E f \in Files : OpenBuffer(f) /\ target' = f
  /\ pc' = "append"
  /\ UNCHANGED <<hooks, unsent, rows, fails, crashes, orphaned>>

\* (bug: a failed flush does not return its lines)
ReturnWrites_Nothing ==
  /\ pc = "append"
  /\ target' = NoFile /\ pc' = "unlink"
  /\ UNCHANGED <<disk, hooks, unsent, rows, fails, crashes, orphaned>>

\* All lines go back, those that were inserted too.
ReturnWrites ==
  /\ pc = "append"
  /\ lines' = [lines EXCEPT ![target] = @ \cup Lines("flushing")]
  /\ target' = NoFile /\ pc' = "unlink"
  /\ UNCHANGED <<entries, hooks, unsent, rows, fails, crashes, orphaned>>

Unlinks ==
  /\ pc = "unlink"
  /\ entries' = [entries EXCEPT !["flushing"] = NoFile]
  /\ pc' = "idle"
  /\ UNCHANGED <<lines, hooks, unsent, target, rows, fails, crashes, orphaned>>

\* The flush is killed: the machine goes down, or the container is stopped.
Crash ==
  /\ pc # "idle" /\ crashes < MaxCrashes
  /\ crashes' = crashes + 1
  /\ pc' = "idle" /\ unsent' = {} /\ target' = NoFile
  /\ UNCHANGED <<disk, hooks, rows, fails, orphaned>>

FlushSteps ==
  TakesBuffer \/ ReadsLines \/ Inserts \/ AllInserted
    \/ ReturnOpens \/ ReturnWrites \/ Unlinks

LogInit ==
  /\ entries = [n \in Names |-> NoFile]
  /\ lines = [f \in Files |-> {}]
  /\ opened = [e \in Events |-> NoFile] /\ logged = {} /\ late = {}
  /\ pc = "idle" /\ unsent = {} /\ target = NoFile
  /\ rows = [e \in Events |-> 0]
  /\ fails = 0 /\ crashes = 0 /\ orphaned = {}

LogNext ==
  \/ \E e \in Events : HookOpens(e) \/ HookWrites(e)
  \/ FlushSteps \/ DatabaseFails \/ Crash

LogSpec == LogInit /\ [][LogNext]_logVars

\* launchd, or the loop of the container, keeps starting the flush.
FairLogSpec == LogSpec /\ WF_logVars(FlushSteps)

-----------------------------------------------------------------------------
(* Properties.                                                             *)

LogTypeOK ==
  /\ entries \in [Names -> Files \cup {NoFile}]
  /\ lines \in [Files -> SUBSET Events]
  /\ opened \in [Events -> Files \cup {NoFile}]
  /\ logged \subseteq Events /\ late \subseteq Events /\ orphaned \subseteq Events
  /\ pc \in {"idle", "read", "insert", "unlink", "return", "append"}
  /\ unsent \subseteq Events /\ target \in Files \cup {NoFile}
  /\ rows \in [Events -> Nat]
  /\ fails \in 0..MaxFails /\ crashes \in 0..MaxCrashes
  /\ pc # "idle" => entries["flushing"] # NoFile
  /\ pc = "append" => target # NoFile /\ target = entries["buffer"]
  /\ unsent # {} => pc = "insert"

\* What has been logged has a row, or a line in a file that a name leads to,
\* at every moment, so that a flush killed anywhere loses nothing by itself.
\* The exceptions are a line written to a buffer that was renamed after the
\* hook opened it, and what a killed flush left for the next one to overwrite.
KeptUnlessLate ==
  /\ \A e \in logged \ (late \cup orphaned) :
       rows[e] > 0 \/ \E n \in Names : e \in Lines(n)
  /\ orphaned # {} => crashes > 0

\* An event gets a second row only after a flush that failed returned it, and
\* one more for each of those.
RepeatsNeedFailure == \A e \in Events : rows[e] <= 1 + fails

\* Every event is stored in the end, whatever failed before, with the same two
\* exceptions.
LoggedIsStored ==
  \A e \in Events : e \in logged ~> e \in Stored \cup late \cup orphaned \cup LeftBehind
=============================================================================
