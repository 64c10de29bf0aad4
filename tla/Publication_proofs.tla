------------------------- MODULE Publication_proofs -------------------------
(***************************************************************************)
(* Proofs about `pinboard init` run by one process at a time, for any      *)
(* number of files, runs, failures, deaths and power losses.  Two          *)
(* processes that run it at once do lose a reported database: the run      *)
(* `overlap` of DatabasePublication shows it, so that the hypothesis is    *)
(* needed.                                                                 *)
(***************************************************************************)
EXTENDS DatabasePublication, TLAPS

OneInitializer == \A p, q \in Initializers : p = q

Absent == {"entering", "inspecting", "preparing", "creating", "filling", "syncing staging", "linking"}
Removals == {<<>>, <<"staging">>, <<"destination", "staging">>}
Entries == Files \cup {NoFile}

TypeOK ==
  /\ entry \in [Names -> Entries]
  /\ onDisk \in [Names -> SUBSET Entries]
  /\ content \in [Files -> {"partial", "complete"}]
  /\ flushed \subseteq Files
  /\ pc \in [Initializers -> Working \cup {"idle", "ok", "failed"}]
  /\ file \in [Initializers -> Entries]
  /\ todo \in [Initializers -> Removals]
  /\ removed \in [Initializers -> BOOLEAN]
  /\ committed \subseteq Files
  /\ reported \subseteq Files

\* What a power loss may leave under the name of the database is nothing or a whole one.
Whole ==
  /\ \A n \in Names : entry[n] \in onDisk[n]
  /\ \A f \in onDisk["destination"] \ {NoFile} : content[f] = "complete" /\ f \in flushed

\* Work is committed to a database whose name is on disk by then.
Settled == \A f \in committed : Published = f => onDisk["destination"] = {f}

\* What the initializer may rely on at each of its steps: it builds only what was not
\* there, and withdraws only what was not reported.
Phase(p) ==
  /\ pc[p] \in Absent => entry["destination"] = NoFile
  /\ pc[p] \in Absent \ {"entering"} => onDisk["destination"] = {NoFile}
  /\ pc[p] \in Absent \cup {"syncing destination", "finishing", "withdrawing"} => reported = {}
  /\ pc[p] \in {"preparing", "reconciling", "finishing"} => todo[p] \in {<<>>, <<"staging">>}
  /\ pc[p] \in Cleaning /\ removed[p] => todo[p] # <<>>
  /\ pc[p] = "preparing" /\ (todo[p] = <<>> \/ removed[p]) => entry["staging"] = NoFile
  /\ pc[p] = "creating" => entry["staging"] = NoFile
  /\ pc[p] = "filling" => file[p] = entry["staging"]
  /\ pc[p] \in {"filling", "syncing staging", "linking"} => entry["staging"] \in Files \ committed
  /\ pc[p] \in {"syncing staging", "linking"} => content[entry["staging"]] = "complete"
  /\ pc[p] = "linking" => entry["staging"] \in flushed
  /\ pc[p] = "finishing" => onDisk["destination"] = {entry["destination"]}

Inv ==
  /\ TypeOK /\ Whole /\ Settled /\ ReportedIsDurable
  /\ \A p \in Initializers : Phase(p)

LEMMA InvInitially == Init => Inv
BY PublicationAssumption
   DEF Init, Inv, TypeOK, Whole, Settled, ReportedIsDurable, Phase, Names, Entries, Removals, Absent,
       Published

\* The functions of the initializer are assigned at the process that moves.
LEMMA Here ==
  ASSUME OneInitializer, NEW p \in Initializers, TypeOK', Whole', Settled', ReportedIsDurable',
         Phase(p)'
  PROVE  Inv'
BY DEF OneInitializer, Inv

\* A step to a place that promises nothing keeps everything, when it changes local state only.
LEMMA LocalStep ==
  ASSUME Inv, UNCHANGED <<directory, data, history>>
  PROVE  Whole' /\ Settled' /\ ReportedIsDurable'
BY DEF Inv, Whole, Settled, ReportedIsDurable, Published, directory, data, history

LEMMA CleanTypes ==
  ASSUME TypeOK, NEW p \in Initializers, NEW phase \in Working \cup {"idle", "ok", "failed"},
         NEW names \in Removals, Clean(p, phase, names), UNCHANGED <<directory, data, history>>
  PROVE  /\ TypeOK'
         /\ pc'[p] = phase /\ file'[p] = NoFile /\ todo'[p] = names /\ removed'[p] = FALSE
BY DEF TypeOK, Clean, Goto, directory, data, history, Entries

LEMMA StartStep ==
  ASSUME OneInitializer, Inv, NEW p \in Initializers, Start(p) \/ Check(p)
  PROVE  Inv'
<1>1. UNCHANGED <<directory, data, history, file, todo, removed>>
  BY DEF Start, Check
<1>2. \/ pc' = [pc EXCEPT ![p] = "checking"] \/ pc' = [pc EXCEPT ![p] = "opening"]
      \/ pc' = [pc EXCEPT ![p] = "entering"] /\ entry["destination"] = NoFile
  BY DEF Start, Check, Goto, Exists
<1>3. TypeOK'
  BY <1>1, <1>2 DEF Inv, TypeOK, Working, directory, data, history
<1>4. entry["destination"] = NoFile => reported = {}
  BY PublicationAssumption DEF Inv, TypeOK, Whole, ReportedIsDurable, Names
<1>5. Phase(p)'
  BY <1>1, <1>2, <1>4 DEF Inv, TypeOK, Phase, Absent, Cleaning, directory, data, history
<1> QED BY <1>1, <1>3, <1>5, LocalStep, Here

LEMMA CleaningStep ==
  ASSUME OneInitializer, Inv, NEW p \in Initializers,
         \/ Resume(p) \/ Prepare(p)
         \/ Fail(p) \/ Die(p)
  PROVE  Inv'
<1>1. UNCHANGED <<directory, data, history>>
  BY DEF Resume, Prepare, Fail, Die
<1>2. \/ Clean(p, "reconciling", <<"staging">>)
      \/ pc[p] = "inspecting" /\ Clean(p, "preparing", <<"staging">>)
      \/ /\ pc[p] \in Absent \cup {"syncing destination", "finishing"}
         /\ \E names \in Removals : Clean(p, "withdrawing", names)
      \/ \E outcome \in {"idle", "failed"} : Clean(p, outcome, <<>>)
  BY DEF Resume, Prepare, Fail, Die, Stop, Exists, SameFile, Inv, Phase, Absent, Cleaning, Removals
<1>3. PICK phase \in {"reconciling", "preparing", "withdrawing", "idle", "failed"},
           names \in Removals : Clean(p, phase, names)
  BY <1>2 DEF Removals
<1>4. TypeOK'
  BY <1>1, <1>3, CleanTypes DEF Inv, Working, Cleaning
<1>5. ASSUME NEW place, NEW list, Clean(p, place, list)
      PROVE  pc'[p] = place /\ todo'[p] = list /\ removed'[p] = FALSE
  BY <1>5 DEF Clean, Goto, Inv, TypeOK
<1>6. Phase(p)'
  <2>1. CASE Clean(p, "reconciling", <<"staging">>)
    <3>1. pc'[p] = "reconciling" /\ todo'[p] = <<"staging">> /\ removed'[p] = FALSE
      BY <1>5, <2>1
    <3> QED BY <3>1 DEF Phase, Absent, Cleaning
  <2>2. CASE pc[p] = "inspecting" /\ Clean(p, "preparing", <<"staging">>)
    <3>1. pc'[p] = "preparing" /\ todo'[p] = <<"staging">> /\ removed'[p] = FALSE
      BY <1>5, <2>2
    <3>2. <<"staging">> # <<>>
      OBVIOUS
    <3> QED BY <1>1, <2>2, <3>1, <3>2 DEF Inv, Phase, Absent, Cleaning, directory, history
  <2>3. CASE /\ pc[p] \in Absent \cup {"syncing destination", "finishing"}
             /\ \E list \in Removals : Clean(p, "withdrawing", list)
    <3>1. pc'[p] = "withdrawing" /\ removed'[p] = FALSE
      BY <1>5, <2>3
    <3> QED BY <1>1, <2>3, <3>1 DEF Inv, Phase, Absent, Cleaning, history
  <2>4. CASE \E outcome \in {"idle", "failed"} : Clean(p, outcome, <<>>)
    <3>1. pc'[p] \in {"idle", "failed"}
      BY <1>5, <2>4
    <3> QED BY <3>1 DEF Phase, Absent, Cleaning
  <2> QED BY <1>2, <2>1, <2>2, <2>3, <2>4
<1> QED BY <1>1, <1>4, <1>6, LocalStep, Here

\* An fsync of the directory keeps what the directory shows.
LEMMA DirectorySynced ==
  ASSUME Inv, SyncDirectory, UNCHANGED <<entry, content, history>>, flushed \subseteq flushed',
         flushed' \subseteq Files
  PROVE  /\ onDisk' \in [Names -> SUBSET Entries]
         /\ Whole' /\ Settled' /\ ReportedIsDurable'
         /\ \A n \in Names : onDisk'[n] = {entry[n]}
<1>1. \A n \in Names : onDisk'[n] = {entry[n]}
  BY DEF SyncDirectory
<1>2. onDisk' \in [Names -> SUBSET Entries]
  BY DEF SyncDirectory, Inv, TypeOK
<1>3. Whole'
  BY <1>1 DEF Inv, Whole, Names
<1>4. Settled' /\ ReportedIsDurable'
  BY <1>1 DEF Inv, Whole, Settled, ReportedIsDurable, Published, Names, history
<1> QED BY <1>1, <1>2, <1>3, <1>4

LEMMA EnsureStep ==
  ASSUME OneInitializer, Inv, NEW p \in Initializers, EnsureDirectories(p)
  PROVE  Inv'
<1>1. /\ SyncDirectory /\ UNCHANGED <<entry, data, file, todo, removed, committed>>
      /\ UNCHANGED <<content, flushed>>
  BY DEF EnsureDirectories, data
<1>2. CASE pc[p] = "entering"
  <2>1. pc' = [pc EXCEPT ![p] = "inspecting"] /\ UNCHANGED history
    BY <1>2 DEF EnsureDirectories, Goto, history
  <2>2. /\ onDisk' \in [Names -> SUBSET Entries] /\ Whole' /\ Settled' /\ ReportedIsDurable'
        /\ \A n \in Names : onDisk'[n] = {entry[n]}
    BY <1>1, <2>1, DirectorySynced DEF Inv, TypeOK
  <2>3. TypeOK'
    BY <1>1, <2>1, <2>2 DEF Inv, TypeOK, Working, history
  <2>4. Phase(p)'
    BY <1>1, <1>2, <2>1, <2>2 DEF Inv, TypeOK, Phase, Absent, Cleaning, Names, history
  <2> QED BY <2>2, <2>3, <2>4, Here
<1>3. CASE pc[p] = "resuming"
  <2>1. /\ pc' = [pc EXCEPT ![p] = "ok"]
        /\ reported' = reported \cup ({entry["destination"]} \ {NoFile})
    BY <1>3 DEF EnsureDirectories, Goto
  <2>2. \A n \in Names : onDisk'[n] = {entry[n]}
    BY <1>1 DEF SyncDirectory
  <2>3. TypeOK'
    BY <1>1, <2>1 DEF SyncDirectory, Inv, TypeOK, Working, Names, Entries
  <2>4. Whole' /\ Settled'
    BY <1>1, <2>2 DEF Inv, Whole, Settled, Published, Names
  <2>5. ReportedIsDurable'
    BY <1>1, <2>1, <2>2 DEF Inv, Whole, ReportedIsDurable, Names
  <2>6. Phase(p)'
    BY <2>1 DEF Inv, TypeOK, Phase, Absent, Cleaning
  <2> QED BY <2>3, <2>4, <2>5, <2>6, Here
<1> QED BY <1>2, <1>3 DEF EnsureDirectories

LEMMA CreateStep ==
  ASSUME OneInitializer, Inv, NEW p \in Initializers, Create(p)
  PROVE  Inv'
<1>1. /\ pc[p] = "creating" /\ pc' = [pc EXCEPT ![p] = "filling"]
      /\ entry["staging"] = NoFile /\ entry["destination"] = NoFile
      /\ onDisk["destination"] = {NoFile} /\ reported = {}
      /\ UNCHANGED <<todo, removed>>
  BY DEF Create, Goto, Inv, Phase, Absent, Cleaning
<1>2. PICK f \in Files :
        /\ file' = [file EXCEPT ![p] = f]
        /\ entry' = [entry EXCEPT !["staging"] = f]
        /\ onDisk' = [onDisk EXCEPT !["staging"] = @ \cup {f}]
        /\ content' = [content EXCEPT ![f] = "partial"]
        /\ flushed' = flushed \ {f}
        /\ committed' = committed \ {f}
        /\ reported' = reported \ {f}
  BY <1>1 DEF Create, Exists, SetEntry
<1>3. TypeOK'
  BY <1>1, <1>2 DEF Inv, TypeOK, Names, Entries, Working
<1>4. /\ entry'["destination"] = NoFile /\ onDisk'["destination"] = {NoFile} /\ reported' = {}
      /\ entry'["staging"] = f /\ onDisk'["staging"] = onDisk["staging"] \cup {f}
      /\ f \notin committed' /\ file'[p] = f /\ pc'[p] = "filling"
  BY <1>1, <1>2 DEF Inv, TypeOK, Names
<1>5. Whole' /\ Settled' /\ ReportedIsDurable'
  BY <1>2, <1>4, PublicationAssumption
     DEF Inv, TypeOK, Whole, Settled, ReportedIsDurable, Published, Names
<1>6. Phase(p)'
  BY <1>4 DEF Phase, Absent, Cleaning
<1> QED BY <1>3, <1>5, <1>6, Here

LEMMA FillStep ==
  ASSUME OneInitializer, Inv, NEW p \in Initializers, Fill(p)
  PROVE  Inv'
<1>1. /\ pc[p] = "filling" /\ onDisk["destination"] = {NoFile} /\ reported = {}
      /\ entry["destination"] = NoFile
      /\ file[p] = entry["staging"] /\ entry["staging"] \in Files \ committed
  BY DEF Fill, Inv, Phase, Absent, Cleaning
<1>2. UNCHANGED <<directory, history>>
  BY DEF Fill
<1>3. CASE content[file[p]] = "complete"
  <2>1. Clean(p, "withdrawing", <<"staging">>) /\ UNCHANGED data
    BY <1>3 DEF Fill
  <2>2. TypeOK' /\ pc'[p] = "withdrawing" /\ removed'[p] = FALSE
    BY <1>2, <2>1, CleanTypes DEF Inv, Working, Cleaning, Removals
  <2>3. Phase(p)'
    BY <1>1, <1>2, <2>2 DEF Phase, Absent, Cleaning, history
  <2> QED BY <1>2, <2>1, <2>2, <2>3, LocalStep, Here
<1>4. CASE content[file[p]] # "complete"
  <2>1. /\ content' = [content EXCEPT ![file[p]] = "complete"]
        /\ flushed' = flushed \ {file[p]}
        /\ pc' = [pc EXCEPT ![p] = "syncing staging"]
        /\ file' = [file EXCEPT ![p] = NoFile]
        /\ UNCHANGED <<todo, removed>>
    BY <1>4 DEF Fill, Goto
  <2>2. TypeOK'
    BY <1>1, <1>2, <2>1 DEF Inv, TypeOK, Working, Entries, directory, history
  <2>3. Whole' /\ Settled' /\ ReportedIsDurable'
    BY <1>1, <1>2, <2>1 DEF Inv, Whole, Settled, ReportedIsDurable, Published, directory, history
  <2>4. content'[entry["staging"]] = "complete" /\ pc'[p] = "syncing staging"
    BY <1>1, <2>1 DEF Inv, TypeOK
  <2>5. Phase(p)'
    BY <1>1, <1>2, <2>4 DEF Phase, Absent, Cleaning, directory, history
  <2> QED BY <2>2, <2>3, <2>5, Here
<1> QED BY <1>3, <1>4

LEMMA SyncStagingStep ==
  ASSUME OneInitializer, Inv, NEW p \in Initializers, SyncStaging(p)
  PROVE  Inv'
<1>1. /\ pc[p] = "syncing staging" /\ onDisk["destination"] = {NoFile} /\ reported = {}
      /\ entry["destination"] = NoFile
      /\ entry["staging"] \in Files \ committed /\ content[entry["staging"]] = "complete"
  BY DEF SyncStaging, SyncName, Inv, Phase, Absent, Cleaning
<1>2. /\ flushed' = flushed \cup {entry["staging"]} /\ SyncDirectory
      /\ pc' = [pc EXCEPT ![p] = "linking"]
      /\ UNCHANGED <<entry, content, history, file, todo, removed>>
  BY <1>1, PublicationAssumption DEF SyncStaging, SyncName, Exists, Goto
<1>3. /\ onDisk' \in [Names -> SUBSET Entries] /\ Whole' /\ Settled' /\ ReportedIsDurable'
      /\ \A n \in Names : onDisk'[n] = {entry[n]}
  BY <1>1, <1>2, DirectorySynced DEF Inv, TypeOK
<1>4. TypeOK'
  BY <1>1, <1>2, <1>3 DEF Inv, TypeOK, Working, history
<1>5. onDisk'["destination"] = {NoFile} /\ pc'[p] = "linking"
  BY <1>1, <1>2, <1>3 DEF Names, Inv, TypeOK
<1>6. Phase(p)'
  BY <1>1, <1>2, <1>5 DEF Phase, Absent, Cleaning, history
<1> QED BY <1>3, <1>4, <1>6, Here

LEMMA LinkStep ==
  ASSUME OneInitializer, Inv, NEW p \in Initializers, Link(p)
  PROVE  Inv'
<1>1. /\ pc[p] = "linking" /\ onDisk["destination"] = {NoFile} /\ reported = {}
      /\ entry["destination"] = NoFile /\ entry["staging"] \in flushed
      /\ entry["staging"] \in Files \ committed /\ content[entry["staging"]] = "complete"
  BY DEF Link, Inv, Phase, Absent, Cleaning
<1>2. /\ entry' = [entry EXCEPT !["destination"] = entry["staging"]]
      /\ onDisk' = [onDisk EXCEPT !["destination"] = @ \cup {entry["staging"]}]
      /\ pc' = [pc EXCEPT ![p] = "syncing destination"]
      /\ UNCHANGED <<content, flushed, history, file, todo, removed>>
  BY <1>1, PublicationAssumption DEF Link, Exists, SetEntry, Goto, data
<1>3. TypeOK'
  BY <1>1, <1>2 DEF Inv, TypeOK, Names, Entries, Working, history
<1>4. /\ entry'["destination"] = entry["staging"] /\ entry'["staging"] = entry["staging"]
      /\ onDisk'["destination"] = {NoFile, entry["staging"]} /\ onDisk'["staging"] = onDisk["staging"]
      /\ pc'[p] = "syncing destination"
  BY <1>1, <1>2 DEF Inv, TypeOK, Names
<1>5. Whole' /\ Settled' /\ ReportedIsDurable'
  BY <1>1, <1>2, <1>4 DEF Inv, Whole, Settled, ReportedIsDurable, Published, Names, history
<1>6. Phase(p)'
  BY <1>1, <1>2, <1>4 DEF Phase, Absent, Cleaning, history
<1> QED BY <1>3, <1>5, <1>6, Here

LEMMA SyncDestinationStep ==
  ASSUME OneInitializer, Inv, NEW p \in Initializers, SyncDestination(p)
  PROVE  Inv'
<1>1. /\ pc[p] = "syncing destination" /\ reported = {}
      /\ UNCHANGED <<entry, content, history>>
  BY DEF SyncDestination, SyncName, Inv, Phase
<1>2. CASE Exists("destination")
  <2>1. /\ flushed' = flushed \cup {entry["destination"]} /\ SyncDirectory
        /\ Clean(p, "finishing", <<"staging">>)
    BY <1>2 DEF SyncDestination, SyncName
  <2>2. entry["destination"] \in Files
    BY <1>2 DEF Exists, Inv, TypeOK, Names, Entries
  <2>3. /\ onDisk' \in [Names -> SUBSET Entries] /\ Whole' /\ Settled' /\ ReportedIsDurable'
        /\ \A n \in Names : onDisk'[n] = {entry[n]}
    BY <1>1, <2>1, <2>2, DirectorySynced DEF Inv, TypeOK
  <2>4. /\ TypeOK' /\ pc'[p] = "finishing"
        /\ todo'[p] = <<"staging">> /\ removed'[p] = FALSE
    BY <1>1, <2>1, <2>2, <2>3 DEF Clean, Goto, Inv, TypeOK, Working, Cleaning, Removals, Entries,
                                  history
  <2>5. Phase(p)'
    BY <1>1, <2>3, <2>4 DEF Phase, Absent, Cleaning, Names, history
  <2> QED BY <2>3, <2>4, <2>5, Here
<1>3. CASE ~ Exists("destination")
  <2>1. Clean(p, "withdrawing", <<"destination", "staging">>) /\ UNCHANGED <<flushed, onDisk>>
    BY <1>3 DEF SyncDestination, SyncName
  <2>2. UNCHANGED <<directory, data, history>>
    BY <1>1, <2>1 DEF directory, data
  <2>3. TypeOK' /\ pc'[p] = "withdrawing" /\ removed'[p] = FALSE
    BY <2>1, <2>2, CleanTypes DEF Inv, Working, Cleaning, Removals
  <2>4. Phase(p)'
    BY <1>1, <2>3 DEF Phase, Absent, Cleaning, history
  <2> QED BY <2>2, <2>3, <2>4, LocalStep, Here
<1> QED BY <1>2, <1>3
-----------------------------------------------------------------------------
\* What a cleanup removes next, and what is left to remove.
LEMMA RemovalsLeft ==
  ASSUME NEW names \in Removals, names # <<>>
  PROVE  /\ Head(names) \in Names /\ Tail(names) \in Removals
         /\ names = <<"staging">> => Head(names) = "staging" /\ Tail(names) = <<>>
<1>1. CASE names = <<"staging">>
  <2>1. Head(names) = "staging" /\ Tail(names) = <<>>
    BY <1>1
  <2> QED BY <2>1 DEF Removals, Names
<1>2. CASE names = <<"destination", "staging">>
  <2>1. Head(names) = "destination" /\ Tail(names) = <<"staging">>
    BY <1>2
  <2>2. names # <<"staging">>
    BY <1>2
  <2> QED BY <2>1, <2>2 DEF Removals, Names
<1> QED BY <1>1, <1>2 DEF Removals

\* Only an initializer that takes back its publication removes the name of the database.
LEMMA UnlinkStep ==
  ASSUME OneInitializer, Inv, NEW p \in Initializers, Unlink(p)
  PROVE  /\ Inv'
         /\ entry'["destination"] # entry["destination"] => TakesBack(p)
<1> DEFINE n == Head(todo[p])
<1>1. /\ pc[p] \in Cleaning /\ todo[p] \in Removals /\ todo[p] # <<>> /\ ~removed[p]
      /\ UNCHANGED <<data, pc, file, history>>
  BY DEF Unlink, Inv, TypeOK
<1>2. /\ n \in Names /\ Tail(todo[p]) \in Removals
      /\ pc[p] # "withdrawing" => n = "staging" /\ Tail(todo[p]) = <<>> /\ todo[p] = <<"staging">>
  BY <1>1, RemovalsLeft DEF Inv, Phase, Cleaning
<1> HIDE DEF n
<1>3. CASE Exists(n)
  <2>1. /\ entry' = [entry EXCEPT ![n] = NoFile]
        /\ onDisk' = [onDisk EXCEPT ![n] = @ \cup {NoFile}]
        /\ removed' = [removed EXCEPT ![p] = TRUE]
        /\ UNCHANGED todo
    BY <1>3 DEF Unlink, SetEntry, n
  <2>2. TypeOK'
    BY <1>1, <1>2, <2>1 DEF Inv, TypeOK, Entries, data, history
  <2>3. /\ entry'[n] = NoFile /\ onDisk'[n] = onDisk[n] \cup {NoFile}
        /\ \A m \in Names \ {n} : entry'[m] = entry[m] /\ onDisk'[m] = onDisk[m]
    BY <1>2, <2>1 DEF Inv, TypeOK
  <2>4. Whole' /\ Settled'
    BY <1>1, <1>2, <2>3, PublicationAssumption
       DEF Inv, TypeOK, Whole, Settled, Published, Names, data, history
  <2>5. CASE pc[p] = "withdrawing"
    <3>1. ReportedIsDurable' /\ Phase(p)'
      BY <1>1, <2>1, <2>5 DEF Inv, Phase, Absent, Cleaning, ReportedIsDurable, history
    <3>2. entry'["destination"] # entry["destination"] => n = "destination"
      BY <1>2, <2>3 DEF Names
    <3>3. entry'["destination"] # entry["destination"] => TakesBack(p)
      BY <1>1, <2>5, <3>2 DEF TakesBack, n
    <3> QED BY <2>2, <2>4, <3>1, <3>3, Here
  <2>6. CASE pc[p] # "withdrawing"
    <3>1. /\ n = "staging" /\ entry'["destination"] = entry["destination"]
          /\ onDisk'["destination"] = onDisk["destination"] /\ entry'["staging"] = NoFile
      BY <1>2, <2>3, <2>6 DEF Names
    <3>2. ReportedIsDurable'
      BY <1>1, <3>1 DEF Inv, ReportedIsDurable, data, history
    <3>3. pc'[p] = pc[p] /\ pc[p] \in {"preparing", "reconciling", "finishing"}
      BY <1>1, <2>6 DEF Cleaning
    <3>4. Phase(p)'
      BY <1>1, <2>1, <3>1, <3>3 DEF Inv, Phase, Absent, Cleaning, history
    <3> QED BY <2>2, <2>4, <3>1, <3>2, <3>4, Here
  <2> QED BY <2>5, <2>6
<1>4. CASE ~ Exists(n)
  <2>1. /\ todo' = [todo EXCEPT ![p] = Tail(todo[p])]
        /\ UNCHANGED <<directory, removed>> /\ entry[n] = NoFile
    BY <1>4 DEF Unlink, Exists, n
  <2>2. TypeOK'
    BY <1>1, <1>2, <2>1 DEF Inv, TypeOK, directory, data, history
  <2>3. todo'[p] = Tail(todo[p]) /\ entry' = entry /\ pc'[p] = pc[p] /\ removed'[p] = FALSE
    BY <1>1, <2>1 DEF Inv, TypeOK, directory
  <2>4. Phase(p)'
    BY <1>1, <1>2, <2>1, <2>3 DEF Inv, Phase, Absent, Cleaning, directory, data, history
  <2> QED BY <1>1, <2>1, <2>2, <2>3, <2>4, LocalStep, Here
<1> QED BY <1>3, <1>4

LEMMA SyncRemovalStep ==
  ASSUME OneInitializer, Inv, NEW p \in Initializers, SyncRemoval(p)
  PROVE  Inv'
<1>1. /\ pc[p] \in Cleaning /\ removed[p] /\ SyncDirectory /\ todo[p] \in Removals
      /\ todo' = [todo EXCEPT ![p] = Tail(todo[p])]
      /\ removed' = [removed EXCEPT ![p] = FALSE]
      /\ UNCHANGED <<entry, data, pc, file, history>>
  BY DEF SyncRemoval, Inv, TypeOK
<1>2. /\ onDisk' \in [Names -> SUBSET Entries] /\ Whole' /\ Settled' /\ ReportedIsDurable'
      /\ \A n \in Names : onDisk'[n] = {entry[n]}
  BY <1>1, DirectorySynced DEF Inv, TypeOK, data
<1>3. /\ todo[p] # <<>>
      /\ pc[p] \in {"preparing", "reconciling", "finishing"} => todo[p] = <<"staging">>
      /\ pc[p] = "preparing" => entry["staging"] = NoFile
  BY <1>1 DEF Inv, Phase
<1>4. /\ todo'[p] \in Removals /\ pc'[p] = pc[p] /\ removed'[p] = FALSE
      /\ pc[p] \in {"preparing", "reconciling", "finishing"} => todo'[p] = <<>>
  BY <1>1, <1>3, RemovalsLeft DEF Inv, TypeOK
<1>5. TypeOK'
  <2>1. Tail(todo[p]) \in Removals
    BY <1>1, <1>3, RemovalsLeft
  <2> QED BY <1>1, <1>2, <2>1 DEF Inv, TypeOK, data, history
<1>6. Phase(p)'
  BY <1>1, <1>2, <1>3, <1>4 DEF Inv, Phase, Absent, Cleaning, Names, data, history
<1> QED BY <1>2, <1>5, <1>6, Here

LEMMA CleanedStep ==
  ASSUME OneInitializer, Inv, NEW p \in Initializers, Cleaned(p)
  PROVE  Inv'
<1>1. pc[p] \in Cleaning /\ todo[p] = <<>> /\ UNCHANGED <<directory, data, file, todo, removed, committed>>
  BY DEF Cleaned
<1>2. CASE pc[p] = "finishing"
  <2>1. /\ pc' = [pc EXCEPT ![p] = "ok"]
        /\ reported' = reported \cup ({entry["destination"]} \ {NoFile})
    BY <1>2 DEF Cleaned, Goto
  <2>2. /\ reported = {} /\ onDisk["destination"] = {entry["destination"]}
        /\ entry["destination"] \in Entries
    BY <1>2 DEF Inv, TypeOK, Phase, Absent, Cleaning, Names
  <2>3. TypeOK'
    BY <1>1, <2>1, <2>2 DEF Inv, TypeOK, Working, Entries, directory, data
  <2>4. Whole' /\ Settled' /\ ReportedIsDurable'
    BY <1>1, <2>1, <2>2 DEF Inv, Whole, Settled, ReportedIsDurable, Published, directory, data
  <2>5. Phase(p)'
    BY <2>1 DEF Inv, TypeOK, Phase, Absent, Cleaning
  <2> QED BY <2>3, <2>4, <2>5, Here
<1>3. CASE pc[p] # "finishing"
  <2>1. UNCHANGED history
    BY <1>1, <1>3 DEF Cleaned, history
  <2>2. \/ pc[p] = "preparing" /\ pc' = [pc EXCEPT ![p] = "creating"]
        \/ pc' = [pc EXCEPT ![p] = "failed"] \/ pc' = [pc EXCEPT ![p] = "resuming"]
    BY <1>1, <1>3 DEF Cleaned, Goto, Cleaning
  <2>3. TypeOK'
    BY <1>1, <2>1, <2>2 DEF Inv, TypeOK, Working, directory, data, history
  <2>4. Phase(p)'
    BY <1>1, <2>1, <2>2 DEF Inv, TypeOK, Phase, Absent, Cleaning, directory, data, history
  <2> QED BY <1>1, <2>1, <2>3, <2>4, LocalStep, Here
<1> QED BY <1>2, <1>3

\* The entry of a database that was reported or that holds work is on disk, and so is
\* the content of every file the name may lead to.
LEMMA PowerLossStep ==
  ASSUME Inv, PowerLoss
  PROVE  /\ Inv'
         /\ \A f \in committed : Published = f => Published' = f
<1>1. PICK found \in [Names -> Entries] :
        /\ \A n \in Names : found[n] \in onDisk[n]
        /\ entry' = found
        /\ onDisk' = [n \in Names |-> {found[n]}]
  BY DEF PowerLoss, Entries
<1>2. /\ content' = [f \in Files |-> IF f \in flushed THEN content[f] ELSE "partial"]
      /\ pc' = [p \in Initializers |-> "idle"]
      /\ file' = [p \in Initializers |-> NoFile]
      /\ todo' = [p \in Initializers |-> <<>>]
      /\ removed' = [p \in Initializers |-> FALSE]
      /\ UNCHANGED <<flushed, history>>
  BY DEF PowerLoss
<1>3. TypeOK'
  BY <1>1, <1>2 DEF Inv, TypeOK, Entries, Removals, history
<1>4. \A n \in Names : onDisk'[n] = {found[n]} /\ entry'[n] = found[n]
  BY <1>1
<1>5. Whole' /\ Settled'
  BY <1>1, <1>2, <1>4 DEF Inv, TypeOK, Whole, Settled, Published, Names, history, Entries
<1>6. ReportedIsDurable'
  BY <1>1, <1>2, <1>4 DEF Inv, ReportedIsDurable, Names, history
<1>7. \A p \in Initializers : Phase(p)'
  BY <1>2 DEF Phase, Absent, Cleaning
<1>8. \A f \in committed : Published = f => Published' = f
  BY <1>1 DEF Inv, Settled, Published, Names
<1> QED BY <1>3, <1>5, <1>6, <1>7, <1>8 DEF Inv

LEMMA CommitStep ==
  ASSUME Inv, Commit
  PROVE  Inv'
<1>1. /\ entry["destination"] \in Files
      /\ committed' = committed \cup {entry["destination"]}
      /\ flushed' = flushed \cup {entry["destination"]}
      /\ SyncDirectory
      /\ UNCHANGED <<entry, content, local, reported>>
  BY DEF Commit, Exists, Inv, TypeOK, Names, Entries
<1>2. \A n \in Names : onDisk'[n] = {entry[n]}
  BY <1>1 DEF SyncDirectory
<1>3. TypeOK'
  BY <1>1 DEF SyncDirectory, Inv, TypeOK, local
<1>4. Whole' /\ Settled' /\ ReportedIsDurable'
  BY <1>1, <1>2 DEF Inv, Whole, Settled, ReportedIsDurable, Published, Names
<1>5. ASSUME NEW p \in Initializers
      PROVE  Phase(p)'
  <2>1. pc[p] \notin Absent
    BY <1>1, PublicationAssumption DEF Inv, Phase
  <2> QED BY <1>1, <1>2, <2>1 DEF Inv, Phase, Absent, Cleaning, Names, local
<1> QED BY <1>3, <1>4, <1>5 DEF Inv

\* While a database is published that no initializer has still to decide on, none comes to
\* link or to withdraw: it finds the database and resumes.
LEMMA EndedForGood ==
  ASSUME Inv, Published # NoFile, NoneUndecided, Next
  PROVE  NoneUndecided'
<1> DEFINE Resting == {"idle", "ok", "failed", "checking", "opening", "resuming", "reconciling"}
<1>1. \A p \in Initializers : pc[p] \in Resting
  BY DEF Inv, TypeOK, Phase, Absent, Published, NoneUndecided, Working, Cleaning
<1>2. ASSUME NEW p \in Initializers, Start(p) \/ Step(p) \/ Fail(p) \/ Die(p)
      PROVE  \E place \in Resting \cup {"entering"} : pc' = [pc EXCEPT ![p] = place]
  <2>1. pc[p] \in Resting /\ pc = [pc EXCEPT ![p] = pc[p]]
    BY <1>1 DEF Inv, TypeOK
  <2>2. CASE Start(p) \/ Check(p) \/ EnsureDirectories(p) \/ Cleaned(p)
    BY <2>1, <2>2 DEF Start, Check, EnsureDirectories, Cleaned, Cleaning, Goto
  <2>3. CASE Resume(p) \/ Fail(p) \/ Die(p)
    BY <2>1, <2>3 DEF Resume, Fail, Die, Stop, Clean, Goto
  <2>4. CASE Unlink(p) \/ SyncRemoval(p)
    BY <2>1, <2>4 DEF Unlink, SyncRemoval
  <2>5. ~ (Prepare(p) \/ Create(p) \/ Fill(p) \/ SyncStaging(p) \/ Link(p) \/ SyncDestination(p))
    BY <2>1 DEF Prepare, Create, Fill, SyncStaging, Link, SyncDestination, SyncName
  <2> QED BY <1>2, <2>2, <2>3, <2>4, <2>5 DEF Step
<1>3. CASE \E p \in Initializers : Start(p) \/ Step(p) \/ Fail(p) \/ Die(p)
  <2>1. PICK p \in Initializers, place \in Resting \cup {"entering"} : pc' = [pc EXCEPT ![p] = place]
    BY <1>2, <1>3
  <2> QED BY <1>1, <2>1 DEF NoneUndecided, Inv, TypeOK
<1>4. CASE PowerLoss
  BY <1>4 DEF PowerLoss, NoneUndecided
<1>5. CASE Commit
  BY <1>1, <1>5 DEF Commit, local, NoneUndecided
<1> QED BY <1>3, <1>4, <1>5 DEF Next

\* Every step keeps the invariant, and no step takes the name from a database with
\* committed work but that of an initializer that takes back its publication.
LEMMA InvStep ==
  ASSUME OneInitializer, Inv, [Next]_vars
  PROVE  /\ Inv'
         /\ \A f \in committed : Published = f =>
              Published' = f \/ \E p \in Initializers : TakesBack(p)
<1>1. \A f \in committed : f # NoFile
  BY PublicationAssumption DEF Inv, TypeOK
<1>2. ASSUME NEW p \in Initializers,
             \/ Start(p) \/ Check(p) \/ Resume(p) \/ EnsureDirectories(p) \/ Prepare(p) \/ Fill(p)
             \/ SyncStaging(p) \/ SyncDestination(p) \/ SyncRemoval(p) \/ Cleaned(p)
             \/ Fail(p) \/ Die(p)
      PROVE  Inv' /\ Published' = Published
  <2>1. Inv'
    BY <1>2, StartStep, CleaningStep, EnsureStep, FillStep, SyncStagingStep, SyncDestinationStep,
       SyncRemovalStep, CleanedStep
  <2>2. UNCHANGED entry
    BY <1>2 DEF Start, Check, Resume, EnsureDirectories, Prepare, Fill, SyncStaging,
                SyncDestination, SyncName, SyncRemoval, Cleaned, Fail, Die, directory
  <2> QED BY <2>1, <2>2 DEF Published
<1>3. ASSUME NEW p \in Initializers, Create(p)
      PROVE  Inv' /\ Published' = Published
  BY <1>3, CreateStep DEF Create, SetEntry, directory, Published, Inv, TypeOK, Names
<1>4. ASSUME NEW p \in Initializers, Link(p)
      PROVE  Inv' /\ Published = NoFile
  BY <1>4, LinkStep DEF Link, Inv, Phase, Absent, Cleaning, Published
<1>5. ASSUME NEW p \in Initializers, Unlink(p)
      PROVE  Inv' /\ (Published' # Published => TakesBack(p))
  BY <1>5, UnlinkStep DEF Published
<1>6. CASE PowerLoss
  BY <1>6, PowerLossStep
<1>7. CASE Commit
  BY <1>7, CommitStep DEF Commit, Published
<1>8. CASE UNCHANGED vars
  <2>1. UNCHANGED <<entry, onDisk, content, flushed, pc, file, todo, removed, committed, reported>>
    BY <1>8 DEF vars, directory, data, local, history
  <2> QED BY <2>1 DEF Inv, TypeOK, Whole, Settled, ReportedIsDurable, Phase, Published
<1> QED BY <1>1, <1>2, <1>3, <1>4, <1>5, <1>6, <1>7, <1>8 DEF Next, Step

\* A reader finds no database or a whole one, also after any power loss (database.py:415).
THEOREM CompletePublications ==
  ASSUME OneInitializer
  PROVE  Spec => []PublishedIsComplete
<1>1. Inv => PublishedIsComplete
  BY DEF Inv, Whole, PublishedIsComplete, Exists, Published, Names
<1>2. Inv /\ [Next]_vars => Inv'
  BY InvStep
<1> QED BY <1>1, <1>2, InvInitially, PTL DEF Spec

\* Success is reported only once the entry and the content are on disk, and no later run,
\* failure or power loss changes that (database.py:404).
THEOREM DurableReports ==
  ASSUME OneInitializer
  PROVE  Spec => []ReportedIsDurable
<1>1. Inv => ReportedIsDurable
  BY DEF Inv
<1>2. Inv /\ [Next]_vars => Inv'
  BY InvStep
<1> QED BY <1>1, <1>2, InvInitially, PTL DEF Spec

\* No run, cleanup or power loss takes a reported database away (work_state.py:59).
THEOREM KeptReports ==
  ASSUME OneInitializer
  PROVE  Spec => ReportedIsKept
<1>1. Inv /\ [Next]_vars => Inv'
  BY InvStep
<1>2. Inv /\ Inv' /\ [Next]_vars =>
        [\A f \in reported : Published = f => Published' = f]_vars
  <2> SUFFICES ASSUME Inv, Inv', [Next]_vars, NEW f \in reported, Published = f
               PROVE  Published' = f
    OBVIOUS
  <2>1. f \in reported'
    <3>1. ASSUME NEW p \in Initializers, Create(p)
          PROVE  FALSE
      BY <3>1 DEF Create, Inv, Phase, Absent, Cleaning
    <3>2. \A p \in Initializers : ~ Create(p)
      BY <3>1
    <3> QED BY <3>2
            DEF Next, Step, Start, Check, Resume, EnsureDirectories, Prepare, Fill, SyncStaging, Link,
                SyncDestination, SyncName, Unlink, SyncRemoval, Cleaned, Fail, Die, PowerLoss, Commit,
                history, vars
  <2>2. onDisk'["destination"] = {f} /\ entry'["destination"] \in onDisk'["destination"]
    BY <2>1 DEF Inv, ReportedIsDurable, Whole, Names
  <2> QED BY <2>2 DEF Published
<1> QED BY <1>1, <1>2, InvInitially, PTL DEF Spec, ReportedIsKept

\* Work committed before an initialization has ended is lost in one way only: that initialization
\* fails after its link and takes the name back (database.py:410).  After its end, however it
\* came, no death, power loss, failure or later initialization removes the database.
THEOREM KeptWork ==
  ASSUME OneInitializer
  PROVE  Spec => WorkIsKept
<1>1. Inv /\ [Next]_vars => Inv'
  BY InvStep
<1>2. Inv /\ [Next]_vars =>
        [\A f \in committed :
           Published = f =>
             \/ Published' = f /\ f \in committed' /\ (NoneUndecided => NoneUndecided')
             \/ ~ NoneUndecided /\ \E p \in Initializers : TakesBack(p)]_vars
  <2> SUFFICES ASSUME Inv, Next, NEW f \in committed, Published = f
               PROVE  \/ Published' = f /\ f \in committed' /\ (NoneUndecided => NoneUndecided')
                      \/ ~ NoneUndecided /\ \E p \in Initializers : TakesBack(p)
    OBVIOUS
  <2>1. Published # NoFile
    BY PublicationAssumption DEF Inv, TypeOK
  <2>2. CASE \E p \in Initializers : TakesBack(p)
    BY <2>2 DEF TakesBack, NoneUndecided
  <2>3. CASE ~ \E p \in Initializers : TakesBack(p)
    <3>1. Published' = f
      BY <2>3, InvStep
    <3>2. f \in committed'
      <4>1. ASSUME NEW p \in Initializers
            PROVE  ~ Create(p)
        BY <2>1 DEF Create, Inv, Phase, Absent, Published
      <4> QED BY <4>1
              DEF Next, Step, Start, Check, Resume, EnsureDirectories, Prepare, Fill, SyncStaging,
                  Link, SyncDestination, SyncName, Unlink, SyncRemoval, Cleaned, Fail, Die,
                  PowerLoss, Commit, history
    <3>3. NoneUndecided => NoneUndecided'
      BY <2>1, EndedForGood
    <3> QED BY <3>1, <3>2, <3>3
  <2> QED BY <2>2, <2>3
<1> QED BY <1>1, <1>2, InvInitially, PTL DEF Spec, WorkIsKept
=============================================================================
