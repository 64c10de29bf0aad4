------------------------- MODULE DatabasePublication -------------------------
(***************************************************************************)
(* How `pinboard init` brings state.sqlite3 into being                     *)
(* (cli/work_state.py, adapters/sqlite/database.py): the database is built *)
(* under a staging name, synchronized, linked to its own name, and the     *)
(* staging name is removed.  A name is a directory entry, a file is an     *)
(* inode with two possible names.                                          *)
(*                                                                         *)
(* Failures modelled: an error of any file operation, the death of the     *)
(* process between any two operations, and a power loss, after which an    *)
(* entry changed since the last directory fsync is found at any of its     *)
(* values since then, and a file not fsynced is found incomplete.  The     *)
(* rollback journal beside each name is not modelled: it is removed just   *)
(* before the name, by the same call.                                      *)
(***************************************************************************)
EXTENDS Naturals, Sequences

CONSTANTS Initializers, \* processes running `pinboard init`
          Files,        \* inodes
          NoFile,       \* the value of a name that is not in the directory
          MaxFaults     \* bound on errors, deaths and power losses

ASSUME PublicationAssumption == NoFile \notin Files /\ MaxFaults \in Nat

VARIABLES
  entry,     \* the directory as processes see it
  onDisk,    \* for each name, where a power loss may leave it
  content,   \* what each file holds
  flushed,   \* files whose content is on disk
  pc,        \* where each initializer is
  file,      \* the file its SQLite connection has open
  todo,      \* names its current cleanup has still to remove
  removed,   \* whether that cleanup removed a name it has not synchronized
  committed, \* files in which a client committed work
  reported,  \* files whose initialization was reported as successful
  faults

directory == <<entry, onDisk>>
data == <<content, flushed>>
local == <<pc, file, todo, removed>>
history == <<committed, reported>>
vars == <<directory, data, local, history, faults>>

Names == {"destination", "staging"}
Cleaning == {"reconciling", "preparing", "finishing", "withdrawing"}
Working == {"checking", "opening", "entering", "inspecting", "creating", "filling",
            "syncing staging", "linking", "syncing destination", "resuming"} \cup Cleaning

Init ==
  /\ entry = [n \in Names |-> NoFile]
  /\ onDisk = [n \in Names |-> {NoFile}]
  /\ content = [f \in Files |-> "partial"]
  /\ flushed = {}
  /\ pc = [p \in Initializers |-> "idle"]
  /\ file = [p \in Initializers |-> NoFile]
  /\ todo = [p \in Initializers |-> <<>>]
  /\ removed = [p \in Initializers |-> FALSE]
  /\ committed = {}
  /\ reported = {}
  /\ faults = 0

Exists(n) == entry[n] # NoFile
SameFile == Exists("destination") /\ entry["staging"] = entry["destination"]

\* An inode nothing refers to any more: a new file may get it.
Free(f) ==
  /\ \A n \in Names : entry[n] # f /\ f \notin onDisk[n]
  /\ \A p \in Initializers : file[p] # f

SetEntry(n, f) ==
  /\ entry' = [entry EXCEPT ![n] = f]
  /\ onDisk' = [onDisk EXCEPT ![n] = @ \cup {f}]

\* fsync of the directory: every entry is on disk as it is now.
SyncDirectory == onDisk' = [n \in Names |-> {entry[n]}]

Goto(p, target) == pc' = [pc EXCEPT ![p] = target]

\* The connection is closed and the names are removed, one after the other.
Clean(p, phase, names) ==
  /\ Goto(p, phase)
  /\ file' = [file EXCEPT ![p] = NoFile]
  /\ todo' = [todo EXCEPT ![p] = names]
  /\ removed' = [removed EXCEPT ![p] = FALSE]

Stop(p, outcome) == Clean(p, outcome, <<>>)
-----------------------------------------------------------------------------
\* initialize_work_state: look for the database, then resume it or build it.
Start(p) ==
  /\ pc[p] \in {"idle", "ok", "failed"}
  /\ Goto(p, "checking")
  /\ UNCHANGED <<directory, data, file, todo, removed, history, faults>>

\* Mutant: the database is always built anew.
CheckForgotten(p) ==
  /\ pc[p] = "checking"
  /\ Goto(p, "entering")
  /\ UNCHANGED <<directory, data, file, todo, removed, history, faults>>

Check(p) ==
  /\ pc[p] = "checking"
  /\ Goto(p, IF Exists("destination") THEN "opening" ELSE "entering")
  /\ UNCHANGED <<directory, data, file, todo, removed, history, faults>>

\* Mutant: a resumed publication is cleaned up like a new one.
ResumeFromNothing(p) ==
  /\ pc[p] = "opening"
  /\ IF /\ Exists("destination")
        /\ content[entry["destination"]] = "complete"
        /\ Exists("staging") => SameFile
     THEN Clean(p, "reconciling", <<"destination", "staging">>)
     ELSE Stop(p, "failed")
  /\ UNCHANGED <<directory, data, history, faults>>

\* open_database verifies the schema, reconcile_database_publication then
\* looks at the staging name: absent, another name of the database, or neither.
Resume(p) ==
  /\ pc[p] = "opening"
  /\ IF /\ Exists("destination")
        /\ content[entry["destination"]] = "complete"
        /\ Exists("staging") => SameFile
     THEN Clean(p, "reconciling", <<"staging">>)
     ELSE Stop(p, "failed")
  /\ UNCHANGED <<directory, data, history, faults>>

\* Mutant: a resumption ends without synchronizing the directory.
EnsureDirectoriesUnsynced(p) ==
  /\ \/ pc[p] = "entering" /\ Goto(p, "inspecting") /\ UNCHANGED reported
     \/ /\ pc[p] = "resuming"
        /\ Goto(p, "ok")
        /\ reported' = reported \cup ({entry["destination"]} \ {NoFile})
  /\ UNCHANGED <<directory, data, file, todo, removed, committed, faults>>

\* ensure_directory_chain creates work root and artifacts directory as needed
\* and synchronizes the work root: before a publication, and at the end of a
\* resumption, whose success nothing else makes durable.
EnsureDirectories(p) ==
  /\ \/ pc[p] = "entering" /\ Goto(p, "inspecting") /\ UNCHANGED reported
     \/ /\ pc[p] = "resuming"
        /\ Goto(p, "ok")
        /\ reported' = reported \cup ({entry["destination"]} \ {NoFile})
  /\ SyncDirectory
  /\ UNCHANGED <<entry, data, file, todo, removed, committed, faults>>

\* Mutant: the residue of an interrupted build stays.
PrepareWithoutCleanup(p) ==
  /\ pc[p] = "inspecting"
  /\ IF Exists("destination") /\ ~SameFile
     THEN Stop(p, "failed")
     ELSE Clean(p, "preparing", IF SameFile THEN <<"destination", "staging">> ELSE <<>>)
  /\ UNCHANGED <<directory, data, history, faults>>

\* _prepare_database_publication: a destination that shares its file with the
\* staging name is taken for residue of an interrupted publication.
Prepare(p) ==
  /\ pc[p] = "inspecting"
  /\ IF Exists("destination") /\ ~SameFile
     THEN Stop(p, "failed")
     ELSE Clean(p, "preparing",
                IF SameFile THEN <<"destination", "staging">> ELSE <<"staging">>)
  /\ UNCHANGED <<directory, data, history, faults>>

\* sqlite3.connect opens the staging name, creating its file when there is none.
Create(p) ==
  /\ pc[p] = "creating"
  /\ Goto(p, "filling")
  /\ IF Exists("staging")
     THEN /\ file' = [file EXCEPT ![p] = entry["staging"]]
          /\ UNCHANGED <<directory, data, history>>
     ELSE \E f \in Files :
            /\ Free(f)
            /\ file' = [file EXCEPT ![p] = f]
            /\ SetEntry("staging", f)
            /\ content' = [content EXCEPT ![f] = "partial"]
            /\ flushed' = flushed \ {f}
            /\ committed' = committed \ {f}
            /\ reported' = reported \ {f}
  /\ UNCHANGED <<todo, removed, faults>>

\* The schema script, the first rows and the verification.  The script creates
\* every table: in a file that already has them it fails.
Fill(p) ==
  /\ pc[p] = "filling"
  /\ IF content[file[p]] = "complete"
     THEN Clean(p, "withdrawing", <<"staging">>) /\ UNCHANGED data
     ELSE /\ content' = [content EXCEPT ![file[p]] = "complete"]
          /\ flushed' = flushed \ {file[p]}
          /\ Goto(p, "syncing staging")
          /\ file' = [file EXCEPT ![p] = NoFile]
          /\ UNCHANGED <<todo, removed>>
  /\ UNCHANGED <<directory, history, faults>>

\* _sync_database opens the name again: fsync of its file, then of the directory.
SyncName(p, phase, name, next, names) ==
  /\ pc[p] = phase
  /\ IF Exists(name)
     THEN /\ flushed' = flushed \cup {entry[name]}
          /\ SyncDirectory
          /\ next
     ELSE /\ Clean(p, "withdrawing", names)
          /\ UNCHANGED <<flushed, onDisk>>
  /\ UNCHANGED <<entry, content, history, faults>>

\* Mutant: the staging file is linked without having been synchronized.
SyncStagingSkipped(p) ==
  /\ pc[p] = "syncing staging"
  /\ Goto(p, "linking")
  /\ UNCHANGED <<directory, data, file, todo, removed, history, faults>>

SyncStaging(p) ==
  SyncName(p, "syncing staging", "staging",
           Goto(p, "linking") /\ UNCHANGED <<file, todo, removed>>, <<"staging">>)

\* os.link refuses to replace a destination.
Link(p) ==
  /\ pc[p] = "linking"
  /\ IF Exists("destination") \/ ~Exists("staging")
     THEN Clean(p, "withdrawing", <<"staging">>) /\ UNCHANGED directory
     ELSE /\ SetEntry("destination", entry["staging"])
          /\ Goto(p, "syncing destination")
          /\ UNCHANGED <<file, todo, removed>>
  /\ UNCHANGED <<data, history, faults>>

SyncDestination(p) ==
  SyncName(p, "syncing destination", "destination",
           Clean(p, "finishing", <<"staging">>), <<"destination", "staging">>)
-----------------------------------------------------------------------------
\* _cleanup_database_files removes a name that exists, then syncs the directory.
Unlink(p) ==
  /\ pc[p] \in Cleaning /\ todo[p] # <<>> /\ ~removed[p]
  /\ IF Exists(Head(todo[p]))
     THEN /\ SetEntry(Head(todo[p]), NoFile)
          /\ removed' = [removed EXCEPT ![p] = TRUE]
          /\ UNCHANGED todo
     ELSE /\ todo' = [todo EXCEPT ![p] = Tail(todo[p])]
          /\ UNCHANGED <<directory, removed>>
  /\ UNCHANGED <<data, pc, file, history, faults>>

SyncRemoval(p) ==
  /\ pc[p] \in Cleaning /\ removed[p]
  /\ SyncDirectory
  /\ todo' = [todo EXCEPT ![p] = Tail(todo[p])]
  /\ removed' = [removed EXCEPT ![p] = FALSE]
  /\ UNCHANGED <<entry, data, pc, file, history, faults>>

Cleaned(p) ==
  /\ pc[p] \in Cleaning /\ todo[p] = <<>>
  /\ Goto(p, CASE pc[p] = "preparing" -> "creating"
               [] pc[p] = "withdrawing" -> "failed"
               [] pc[p] = "reconciling" -> "resuming"
               [] pc[p] = "finishing" -> "ok")
  /\ reported' = IF pc[p] = "finishing"
                 THEN reported \cup ({entry["destination"]} \ {NoFile})
                 ELSE reported
  /\ UNCHANGED <<directory, data, file, todo, removed, committed, faults>>
-----------------------------------------------------------------------------
\* An operation of the initializer fails.  Until the link only the staging name
\* is withdrawn, after it the destination first; a cleanup that fails gives up,
\* except the last one of a publication, which withdraws it.
Fail(p) ==
  /\ faults < MaxFaults
  /\ faults' = faults + 1
  /\ \/ /\ pc[p] \in {"creating", "filling", "syncing staging", "linking"}
        /\ Clean(p, "withdrawing", <<"staging">>)
     \/ /\ pc[p] \in {"syncing destination", "finishing"}
        /\ Clean(p, "withdrawing", <<"destination", "staging">>)
     \/ /\ pc[p] \in {"opening", "entering", "inspecting", "resuming",
                     "reconciling", "preparing", "withdrawing"}
        /\ Stop(p, "failed")
  /\ UNCHANGED <<directory, data, history>>

Die(p) ==
  /\ faults < MaxFaults
  /\ faults' = faults + 1
  /\ pc[p] \in Working
  /\ Stop(p, "idle")
  /\ UNCHANGED <<directory, data, history>>

PowerLoss ==
  /\ faults < MaxFaults
  /\ faults' = faults + 1
  /\ \E found \in [Names -> Files \cup {NoFile}] :
       /\ \A n \in Names : found[n] \in onDisk[n]
       /\ entry' = found
       /\ onDisk' = [n \in Names |-> {found[n]}]
  /\ content' = [f \in Files |-> IF f \in flushed THEN content[f] ELSE "partial"]
  /\ pc' = [p \in Initializers |-> "idle"]
  /\ file' = [p \in Initializers |-> NoFile]
  /\ todo' = [p \in Initializers |-> <<>>]
  /\ removed' = [p \in Initializers |-> FALSE]
  /\ UNCHANGED <<flushed, history>>

\* A client opens the database and commits: SQLite, at synchronous = FULL,
\* syncs the directory for its journal and the file for its pages.
Commit ==
  /\ Exists("destination")
  /\ content[entry["destination"]] = "complete"
  /\ committed' = committed \cup {entry["destination"]}
  /\ flushed' = flushed \cup {entry["destination"]}
  /\ SyncDirectory
  /\ UNCHANGED <<entry, content, local, reported, faults>>

Step(p) ==
  \/ Check(p) \/ Resume(p) \/ EnsureDirectories(p) \/ Prepare(p) \/ Create(p) \/ Fill(p)
  \/ SyncStaging(p) \/ Link(p) \/ SyncDestination(p)
  \/ Unlink(p) \/ SyncRemoval(p) \/ Cleaned(p)

Next ==
  \/ \E p \in Initializers : Start(p) \/ Step(p) \/ Fail(p) \/ Die(p)
  \/ PowerLoss
  \/ Commit

-----------------------------------------------------------------------------
Published == entry["destination"]

\* The name of the database never leads to a file whose schema and first rows
\* are not all there, also after a power loss (database.py:415): a reader
\* finds no database or a whole one.
PublishedIsComplete == Exists("destination") => content[Published] = "complete"

\* Once an initialization was reported as successful no power loss can take
\* the database away: its entry and its content are on disk (database.py:404).
ReportedIsDurable ==
  \A f \in reported : onDisk["destination"] = {f} /\ f \in flushed

\* A database that was reported keeps its name: no later initialization,
\* cleanup of residue, failure or power loss removes it (work_state.py:59).
ReportedIsKept ==
  [][\A f \in reported : Published = f => Published' = f]_vars

\* No initializer is between its link and the end of what follows from it.
NoneUndecided ==
  \A p \in Initializers : pc[p] \notin {"syncing destination", "finishing", "withdrawing"}

\* An initializer whose publication failed after the link takes the name back.
TakesBack(p) ==
  /\ pc[p] = "withdrawing"
  /\ todo[p] # <<>> /\ Head(todo[p]) = "destination"
  /\ Unlink(p)

\* A client may commit as soon as the name exists, before the initialization
\* has ended.  Such work is lost in one way only: that same initialization
\* fails and takes the name back (database.py:410).  Once it has ended, by
\* success, failure, death or power loss, the name stays for good: no later
\* initialization removes it as residue (database.py:351), fails after a link
\* that it did not make, or meets a power loss that undoes the entry.
WorkIsKept ==
  [][\A f \in committed :
       Published = f =>
         \/ Published' = f /\ f \in committed' /\ (NoneUndecided => NoneUndecided')
         \/ ~ NoneUndecided /\ \E p \in Initializers : TakesBack(p)]_vars

\* Whatever an interrupted initialization left behind, one that meets no more
\* faults publishes the database and removes the staging name (database.py:351, 372).
InterruptionIsRepaired ==
  \A p \in Initializers :
    faults = MaxFaults /\ pc[p] = "checking" ~> pc[p] = "ok" /\ ~Exists("staging")
-----------------------------------------------------------------------------
\* A process that is not killed goes on; nobody has to start one.
Spec == Init /\ [][Next]_vars /\ \A p \in Initializers : WF_vars(Step(p))
=============================================================================
