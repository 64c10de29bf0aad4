----------------------------- MODULE BoardView -----------------------------
(***************************************************************************)
(* The live board file, written again after every commit by whoever        *)
(* committed (adapters/files/views.py).  It is read from the database and  *)
(* replaced under an exclusive lock that the kernel takes back from a      *)
(* process that dies.  A board is modelled by the project revision it      *)
(* shows; the HTML board and the two roadmap files are replaced by the     *)
(* same calls.                                                             *)
(***************************************************************************)
EXTENDS Naturals

CONSTANT NoWriter

VARIABLES
  board,       \* the revision the file shows
  boardOnDisk, \* the revisions a power loss may leave it at
  lock,        \* holder of the board lock
  composed     \* the revision each writer has read

view == <<board, boardOnDisk, lock, composed>>

ViewInit(writers) ==
  /\ board = 0
  /\ boardOnDisk = {0}
  /\ lock = NoWriter
  /\ composed = [c \in writers |-> 0]

\* Mutant: the lock is shared.
LockBoardShared(c) ==
  /\ lock' = c
  /\ UNCHANGED <<board, boardOnDisk, composed>>

\* _board_lock
LockBoard(c) ==
  /\ lock = NoWriter
  /\ lock' = c
  /\ UNCHANGED <<board, boardOnDisk, composed>>

ComposeBoard(c, revision) ==
  /\ composed' = [composed EXCEPT ![c] = revision]
  /\ UNCHANGED <<board, boardOnDisk, lock>>

\* atomic_replace: the rename, then an fsync of the directory.
ReplaceBoard(c) ==
  /\ board' = composed[c]
  /\ boardOnDisk' = boardOnDisk \cup {composed[c]}
  /\ UNCHANGED <<lock, composed>>

ReleaseLock(c) ==
  /\ lock' = IF lock = c THEN NoWriter ELSE lock
  /\ composed' = [composed EXCEPT ![c] = 0]

UnlockBoard(c) ==
  /\ ReleaseLock(c)
  /\ UNCHANGED <<board, boardOnDisk>>

SyncAndUnlockBoard(c) ==
  /\ boardOnDisk' = {board}
  /\ ReleaseLock(c)
  /\ UNCHANGED board

\* The kernel closes the descriptors of a process that is gone.
LocksLost ==
  /\ lock' = NoWriter
  /\ composed' = [c \in DOMAIN composed |-> 0]

BoardLost ==
  /\ \E found \in boardOnDisk : board' = found /\ boardOnDisk' = {found}
  /\ LocksLost
=============================================================================
