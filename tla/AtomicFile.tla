----------------------------- MODULE AtomicFile -----------------------------
(***************************************************************************)
(* What Store::save promises: the state file always holds one whole        *)
(* snapshot.  A save replaces it in one step by a snapshot at least as     *)
(* recent; a process that dies leaves it alone, and the next one continues *)
(* from it.  The disk follows the file when it likes: a power loss brings  *)
(* back the snapshot the disk has.                                         *)
(***************************************************************************)
EXTENDS Naturals

VARIABLES
  mem,    \* the version of Store.data; every change makes a new one
  file,   \* the version in the state file, 0 if there is no file
  disk    \* the version a power loss leaves

AInit == mem = 0 /\ file = 0 /\ disk = 0

\* The session makes progress.
Progress == mem' = mem + 1 /\ UNCHANGED <<file, disk>>

\* A save takes effect.
Replace == file' \in file..mem /\ UNCHANGED <<mem, disk>>

\* The replacement reaches the disk.
WriteBack == disk' = file /\ UNCHANGED <<mem, file>>

\* The power fails.
PowerLoss == file' = disk /\ UNCHANGED <<mem, disk>>

\* A process has died, and a new one reads the file.
Reload == mem' = file /\ UNCHANGED <<file, disk>>

ANext == Progress \/ Replace \/ WriteBack \/ PowerLoss \/ Reload

ASpec == AInit /\ [][ANext]_<<mem, file, disk>>
=============================================================================
