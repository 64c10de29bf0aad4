---------------------------- MODULE ArtifactFiles ----------------------------
(***************************************************************************)
(* Immutable artifacts: a file under its own name and a reference to it in *)
(* the database (adapters/files/file_io.py, adapters/files/artifacts.py,   *)
(* application/artifact_publication.py, adapters/sqlite/artifacts.py).     *)
(* The bytes are synchronized under a random staging name before they are  *)
(* linked, so a name is absent or complete, but the link itself is on disk *)
(* only after an fsync of its directory.                                   *)
(***************************************************************************)
EXTENDS Naturals

CONSTANTS Names,    \* selectors of artifact revisions
          Contents, \* the bytes somebody wants to publish
          NoFile

ASSUME FilesAssumption == NoFile \notin Contents

VARIABLES
  file,     \* what is linked under each name
  durable,  \* names whose link is on disk
  unsynced, \* names a publisher reused although its own fsync failed
  reference, \* the accepted references
  revision  \* project_meta.revision, which every commit advances

artifacts == <<file, durable, unsynced, reference, revision>>

FilesInit ==
  /\ file = [n \in Names |-> NoFile]
  /\ durable = {}
  /\ unsynced = {}
  /\ reference = [n \in Names |-> NoFile]
  /\ revision = 0

\* os.link of the staging file: absent, published before, or other bytes.
CanLink(n) == file[n] = NoFile
Published(n, bytes) == file[n] = bytes

LinkFile(n, bytes) ==
  /\ file' = [file EXCEPT ![n] = bytes]
  /\ UNCHANGED <<durable, unsynced, reference, revision>>

\* fsync of the artifact's directory.
SyncFile(n) ==
  /\ durable' = IF file[n] = NoFile THEN durable ELSE durable \cup {n}
  /\ UNCHANGED <<file, unsynced, reference, revision>>

\* Mutant: removing the staging name does not synchronize the directory.
CleanStagingUnsynced(n, synced) ==
  UNCHANGED artifacts

\* _cleanup_staging removes the staging name and synchronizes the directory; an
\* error there is suppressed.
CleanStaging(n, synced) ==
  IF synced
  THEN SyncFile(n)
  ELSE /\ unsynced' = IF n \in durable THEN unsynced ELSE unsynced \cup {n}
       /\ UNCHANGED <<file, durable, reference, revision>>

\* accept_artifact_reference, in one transaction: the bytes are verified, and an
\* existing reference is kept.
Acceptable(n, bytes) == file[n] = bytes /\ reference[n] \in {NoFile, bytes}

Accept(n, bytes) ==
  /\ Acceptable(n, bytes)
  /\ reference' = [reference EXCEPT ![n] = bytes]
  /\ revision' = IF reference[n] = NoFile THEN revision + 1 ELSE revision
  /\ UNCHANGED <<file, durable, unsynced>>

\* A link that is not on disk survives a power loss or does not.
FilesLost ==
  /\ \E kept \in SUBSET Names :
       /\ durable \subseteq kept
       /\ file' = [n \in Names |-> IF n \in kept THEN file[n] ELSE NoFile]
       /\ durable' = {n \in kept : file[n] # NoFile}
  /\ UNCHANGED <<unsynced, reference, revision>>
-----------------------------------------------------------------------------
\* An accepted reference names a file with its bytes, and the file is there after
\* a power loss too: a publisher that meets a file somebody else linked accepts it
\* only with the directory synchronized, unless that very fsync failed silently
\* (artifact_publication.py:79, file_io.py:263).
ReferencesAreKept ==
  \A n \in Names :
    reference[n] # NoFile => \/ n \in durable /\ file[n] = reference[n]
                             \/ n \in unsynced
=============================================================================
