------------------------------ MODULE StoreSave ------------------------------
(***************************************************************************)
(* Store::save and Store::open of src/src/slackbot/user_session/state.rs,  *)
(* file operation by file operation.                                       *)
(*                                                                         *)
(* A save locks save_lock, clones the data, opens (and truncates) the      *)
(* temporary file, writes, syncs, and renames it to the state file.  Each  *)
(* of the four is a job of tokio's blocking pool that the save awaits.     *)
(* Whoever drops the future of a save, as connection() does with those of  *)
(* its tasks, releases the lock but cannot recall a job: it still runs.    *)
(*                                                                         *)
(* Two things stand between Ok and the disk.  The directory is not synced: *)
(* the file system writes it back when it likes, and a power loss finds    *)
(* the names of that time.  And tokio's write_all leaves the last buffer   *)
(* to a job whose error only a later write or flush returns: sync_all,     *)
(* which waits for the job, does not, and the save goes on.                *)
(***************************************************************************)
EXTENDS Naturals

CONSTANTS
  Tasks,       \* the tasks of a connection that save: consumer, recovery
  Main,        \* run() and run_user_sessions(), which save after them
  Nobody,      \* owner of a job whose save was dropped
  Inodes,      \* files of the file system, with or without a name
  NoInode,     \* "no such name"
  Empty, Torn, \* contents that are not a snapshot
  MaxVersion,  \* bound of the model: the last version of the data
  MaxDrops,    \* bound of the model: how many saves are dropped half-way
  MaxFaults    \* bound of the model: crashes, power losses, I/O errors

Savers == Tasks \union {Main}

ASSUME SaversAssumption ==
  Main \notin Tasks /\ Nobody \notin Savers /\ NoInode \notin Inodes
ASSUME ContentAssumption == Empty \notin Nat /\ Torn \notin Nat /\ Empty # Torn
ASSUME BoundsAssumption ==
  MaxVersion \in Nat /\ MaxDrops \in Nat /\ MaxFaults \in Nat

VARIABLES
  phase,    \* of the session, see Phases
  mem,      \* version of Store.data
  save,     \* the save() a task has in hand
  pool,     \* jobs of the blocking pool
  temp,     \* the file named *.json.tmp
  path,     \* the state file
  data,     \* what a file contains
  synced,   \* files that are on the disk as they are
  entry,    \* the two names as the disk has them
  stored,   \* the last version a save reported as stored, since a power loss
            \* brought an older file back
  unnoticed,\* a save went on after a write that failed
  overlap,  \* a save began while a job of a dropped one was still to run
  drops,    \* saves dropped half-way so far
  faults    \* faults so far

files == <<temp, path, data, synced, entry>>
vars  == <<phase, mem, save, pool, files, stored, unnoticed, overlap, drops, faults>>

Phases == {"connected", "closing", "ending", "exiting", "down", "refused"}
Stages == {"open", "write", "sync", "rename"}
Contents == Nat \union {Empty, Torn}

NoSave == [stage |-> "none", ver |-> 0, ino |-> NoInode]
Saves  == [stage : Stages \union {"none"}, ver : Nat, ino : Inodes \union {NoInode}]
Jobs   == [kind : Stages, by : Savers \union {Nobody}, ver : Nat,
           ino : Inodes \union {NoInode}]

TypeOK ==
  /\ phase \in Phases /\ mem \in Nat /\ stored \in Nat
  /\ save \in [Savers -> Saves] /\ pool \in SUBSET Jobs
  /\ temp \in Inodes \union {NoInode} /\ path \in Inodes \union {NoInode}
  /\ data \in [Inodes -> Contents] /\ synced \in SUBSET Inodes
  /\ entry \in [temp : Inodes \union {NoInode}, path : Inodes \union {NoInode}]
  /\ unnoticed \in BOOLEAN /\ overlap \in BOOLEAN /\ drops \in Nat /\ faults \in Nat

Init ==
  /\ phase = "connected" /\ mem = 0 /\ stored = 0
  /\ save = [s \in Savers |-> NoSave] /\ pool = {}
  /\ temp = NoInode /\ path = NoInode
  /\ data = [i \in Inodes |-> Empty] /\ synced = {}
  /\ entry = [temp |-> NoInode, path |-> NoInode]
  /\ unnoticed = FALSE /\ overlap = FALSE /\ drops = 0 /\ faults = 0

-----------------------------------------------------------------------------
Saving(s) == save[s].stage # "none"
Busy(s)   == \E j \in pool : j.by = s
Fault     == faults < MaxFaults /\ faults' = faults + 1

\* The job in the pool of a save that has reached a stage
Job(s, stage, ver, ino) == [kind |-> stage, by |-> s, ver |-> ver, ino |-> ino]

\* Whose turn it is to save
MaySave(s) == IF s = Main THEN phase \in {"closing", "ending"}
                          ELSE phase = "connected"

\* save_lock is free
Unlocked == \A s \in Savers : ~Saving(s)

\* The data changes: a message is processed, a barrier or recovery advances.
Change ==
  /\ phase = "connected"
  /\ mem < MaxVersion
  /\ mem' = mem + 1
  /\ UNCHANGED <<phase, save, pool, files, stored, unnoticed, overlap, drops, faults>>

\* save() up to its first await: lock, clone, open
BeginSave(s) ==
  /\ MaySave(s)
  /\ ~Saving(s)
  /\ Unlocked
  /\ save' = [save EXCEPT ![s] = [stage |-> "open", ver |-> mem, ino |-> NoInode]]
  /\ pool' = pool \union {Job(s, "open", mem, NoInode)}
  /\ overlap' = (overlap \/ pool # {})
  /\ UNCHANGED <<phase, mem, files, stored, unnoticed, drops, faults>>

\* The job of a stage is done: on to the next one.
Continue(s, stage, next) ==
  /\ save[s].stage = stage
  /\ ~Busy(s)
  /\ save' = [save EXCEPT ![s].stage = next]
  /\ pool' = pool \union {Job(s, next, save[s].ver, save[s].ino)}
  /\ UNCHANGED <<phase, mem, files, stored, unnoticed, overlap, drops, faults>>

\* Mutant of Proceed: the temporary file is not synced
ProceedUnsynced(s) ==
  \/ Continue(s, "open", "write")
  \/ Continue(s, "write", "rename")

Proceed(s) ==
  \/ Continue(s, "open", "write")
  \/ Continue(s, "write", "sync")
  \/ Continue(s, "sync", "rename")

\* Where a save that returned leads: a task goes on, run() reconnects, a
\* process that ends is done whatever the result.
AfterSave(s, ok) ==
  phase' = IF phase = "ending" THEN "exiting"
           ELSE IF s = Main THEN IF ok THEN "connected" ELSE "ending"
           ELSE IF ok THEN phase ELSE "closing"

\* The rename is done: save() returns Ok.
EndSave(s) ==
  /\ save[s].stage = "rename"
  /\ ~Busy(s)
  /\ save' = [save EXCEPT ![s] = NoSave]
  /\ stored' = save[s].ver
  /\ AfterSave(s, TRUE)
  /\ UNCHANGED <<mem, pool, files, unnoticed, overlap, drops, faults>>

-----------------------------------------------------------------------------
(***************************************************************************)
(* The jobs, run by threads of the pool in any order.                      *)
(***************************************************************************)
Done(j) == pool' = pool \ {j}

\* A file nobody knows of
Fresh(i) == /\ i \notin {temp, path, entry.temp, entry.path}
            /\ \A j \in pool : j.ino # i
            /\ \A s \in Savers : save[s].ino # i

\* Mutant of RunOpen: the state file itself is opened
RunOpenInPlace(j) ==
  /\ j.kind = "open"
  /\ \E i \in Inodes :
       /\ IF path = NoInode THEN Fresh(i) ELSE i = path
       /\ temp' = i
       /\ data' = [data EXCEPT ![i] = Empty]
       /\ synced' = synced \ {i}
       /\ save' = IF j.by = Nobody THEN save ELSE [save EXCEPT ![j.by].ino = i]
  /\ Done(j)
  /\ UNCHANGED <<phase, mem, path, entry, stored, unnoticed, overlap, drops, faults>>

RunOpen(j) ==
  /\ j.kind = "open"
  /\ \E i \in Inodes :
       /\ IF temp = NoInode THEN Fresh(i) ELSE i = temp
       /\ temp' = i
       /\ data' = [data EXCEPT ![i] = Empty]
       /\ synced' = synced \ {i}
       /\ save' = IF j.by = Nobody THEN save ELSE [save EXCEPT ![j.by].ino = i]
  /\ Done(j)
  /\ UNCHANGED <<phase, mem, path, entry, stored, unnoticed, overlap, drops, faults>>

\* What is written over other contents is whole only if it covers them.
RunWrite(j) ==
  /\ j.kind = "write"
  /\ \E c \in {j.ver, Torn} :
       /\ data[j.ino] = Empty => c = j.ver
       /\ data' = [data EXCEPT ![j.ino] = c]
  /\ synced' = synced \ {j.ino}
  /\ Done(j)
  /\ UNCHANGED <<phase, mem, save, temp, path, entry, stored, unnoticed, overlap, drops, faults>>

RunSync(j) ==
  /\ j.kind = "sync"
  /\ synced' = synced \union {j.ino}
  /\ Done(j)
  /\ UNCHANGED <<phase, mem, save, temp, path, data, entry, stored, unnoticed,
                 overlap, drops, faults>>

RunRename(j) ==
  /\ j.kind = "rename"
  /\ temp # NoInode
  /\ path' = temp
  /\ temp' = NoInode
  /\ Done(j)
  /\ UNCHANGED <<phase, mem, save, data, synced, entry, stored, unnoticed,
                 overlap, drops, faults>>

\* The save of a job gives up.
Abort(j) == IF j.by = Nobody THEN UNCHANGED <<phase, save>>
            ELSE save' = [save EXCEPT ![j.by] = NoSave] /\ AfterSave(j.by, FALSE)

\* The disk is full, or broken, after part of a write.  The save is told if it
\* has more to write; of its last buffer it is not, and it goes on.
WriteFails(j) ==
  /\ j.kind = "write"
  /\ Fault
  /\ \/ UNCHANGED data
     \/ data' = [data EXCEPT ![j.ino] = Torn]
  /\ synced' = synced \ {j.ino}
  /\ Done(j)
  /\ \/ Abort(j) /\ UNCHANGED unnoticed
     \/ UNCHANGED <<phase, save>> /\ unnoticed' = (unnoticed \/ j.by # Nobody)
  /\ UNCHANGED <<mem, temp, path, entry, stored, overlap, drops>>

\* Any other job that fails ends its save, as when the temporary file is gone
\* when it is to be renamed.
RunFails(j) ==
  /\ j.kind # "write"
  /\ \/ j.kind = "rename" /\ temp = NoInode /\ UNCHANGED faults
     \/ Fault
  /\ Done(j)
  /\ Abort(j)
  /\ UNCHANGED <<mem, files, stored, unnoticed, overlap, drops>>

Run(j) == \/ RunOpen(j) \/ RunWrite(j) \/ RunSync(j) \/ RunRename(j)
          \/ WriteFails(j) \/ RunFails(j)

-----------------------------------------------------------------------------
(***************************************************************************)
(* The session and the process.                                            *)
(***************************************************************************)

\* A future is dropped, with the save in it.
Drop ==
  /\ drops' = IF Unlocked THEN drops ELSE drops + 1
  /\ drops' <= MaxDrops
  /\ save' = [s \in Savers |-> NoSave]
  /\ pool' = {[j EXCEPT !.by = Nobody] : j \in pool}

\* connection() returns: the futures of its tasks are dropped.
Disconnect ==
  /\ phase = "connected"
  /\ phase' = "closing"
  /\ Drop
  /\ UNCHANGED <<mem, files, stored, unnoticed, overlap, faults>>

\* A signal: the futures of the sessions are dropped.
Shutdown ==
  /\ phase \in {"connected", "closing"}
  /\ phase' = "ending"
  /\ Drop
  /\ UNCHANGED <<mem, files, stored, unnoticed, overlap, faults>>

\* The runtime ends; jobs that were not begun may be discarded.
Exit ==
  /\ phase = "exiting"
  /\ phase' = "down"
  /\ pool' = {}
  /\ UNCHANGED <<mem, save, files, stored, unnoticed, overlap, drops, faults>>

\* The process is killed, perhaps in the middle of a write.
Crash ==
  /\ Fault
  /\ phase \notin {"down", "refused"}
  /\ phase' = "down"
  /\ save' = [s \in Savers |-> NoSave]
  /\ pool' = {}
  /\ \/ UNCHANGED <<data, synced>>
     \/ \E j \in pool : /\ j.kind = "write"
                        /\ data' = [data EXCEPT ![j.ino] = Torn]
                        /\ synced' = synced \ {j.ino}
  /\ UNCHANGED <<mem, temp, path, entry, stored, unnoticed, overlap, drops>>

\* The file system writes the directory back.
WriteBack ==
  /\ entry # [temp |-> temp, path |-> path]
  /\ entry' = [temp |-> temp, path |-> path]
  /\ UNCHANGED <<phase, mem, save, pool, temp, path, data, synced, stored, unnoticed,
                 overlap, drops, faults>>

\* The power fails: the names are those on the disk, and of a file that was
\* not synced anything may be missing.
PowerLoss ==
  /\ Fault
  /\ phase' = "down"
  /\ save' = [s \in Savers |-> NoSave]
  /\ pool' = {}
  /\ data' \in {[i \in Inodes |-> IF i \in lost THEN Torn ELSE data[i]] :
                  lost \in SUBSET (Inodes \ synced)}
  /\ temp' = entry.temp /\ path' = entry.path
  /\ stored' = IF path' = path THEN stored ELSE 0
  /\ UNCHANGED <<mem, synced, entry, unnoticed, overlap, drops>>

Whole(i) == data[i] \in Nat

\* Store::open: no file is a new start, a whole one is read, anything else is
\* refused.
Start ==
  /\ phase = "down"
  /\ \/ path = NoInode /\ mem' = 0 /\ phase' = "connected"
     \/ path # NoInode /\ Whole(path) /\ mem' = data[path] /\ phase' = "connected"
     \/ path # NoInode /\ ~Whole(path) /\ mem' = mem /\ phase' = "refused"
  /\ UNCHANGED <<save, pool, files, stored, unnoticed, overlap, drops, faults>>

Next ==
  \/ Change \/ Disconnect \/ Shutdown \/ Exit
  \/ Crash \/ WriteBack \/ PowerLoss \/ Start
  \/ \E s \in Savers : BeginSave(s) \/ Proceed(s) \/ EndSave(s)
  \/ \E j \in pool : Run(j)

Spec == Init /\ [][Next]_vars

-----------------------------------------------------------------------------
(***************************************************************************)
(* Properties.                                                             *)
(***************************************************************************)

\* The state file is a whole snapshot or does not exist, at every moment:
\* README, "snapshotted ... using atomic file replacement".
FileWhole == path # NoInode => Whole(path)

\* What a save reported as stored is in the state file, or something newer is,
\* until a power loss brings an older file back.
StoredIsThere == stored > 0 => path # NoInode /\ Whole(path) /\ data[path] >= stored

\* What spoils the state file: a save that begins before the last job of a
\* dropped one has run, or a write whose failure the save is not told of.
Spoilt == overlap \/ unnoticed

\* Damage needs more than a dropped save, a crash, a power loss or an I/O error
\* that is reported: until one of the two above, the file is whole and holds
\* what save() said it holds.
DamageExplained == Spoilt \/ (FileWhole /\ StoredIsThere)

\* The version in a state file, that of the program and that of the disk
VersionIn(i) == IF i = NoInode THEN 0 ELSE data[i]
FileVersion  == VersionIn(path)
DiskVersion  == VersionIn(entry.path)

\* Until then, the state file follows AtomicFile: a save replaces it in one
\* step by a newer snapshot, and a power loss brings back an earlier one that
\* is as whole, and never one older than the disk is known to have had.
Atomic == INSTANCE AtomicFile WITH file <- FileVersion, disk <- DiskVersion
AtomicSaves ==
  Atomic!AInit /\ [][Spoilt' \/ Atomic!ANext]_<<mem, FileVersion, DiskVersion>>

-----------------------------------------------------------------------------
(***************************************************************************)
(* The inductive invariant behind DamageExplained and AtomicSaves: what    *)
(* holds when a job is about to run, and after it.                         *)
(***************************************************************************)
Holds(i, c) == temp = i /\ i \in Inodes /\ data[i] = c

\* What a job finds
JobReady(j) ==
  /\ j.kind = "write"  => Holds(j.ino, Empty)
  /\ j.kind = "sync"   => Holds(j.ino, j.ver)
  /\ j.kind = "rename" => Holds(j.ino, j.ver) /\ j.ino \in synced

\* What a save finds whose job has run
SaveReady(s) ==
  /\ save[s].stage = "open"   => Holds(save[s].ino, Empty)
  /\ save[s].stage = "write"  => Holds(save[s].ino, save[s].ver)
  /\ save[s].stage = "sync"   => Holds(save[s].ino, save[s].ver)
                                 /\ save[s].ino \in synced
  /\ save[s].stage = "rename" => path = save[s].ino /\ path \in Inodes
                                 /\ data[path] = save[s].ver

\* Whoever saves is in turn, and a process that is gone runs nothing.
Turns ==
  /\ \A s \in Savers : Saving(s) => MaySave(s)
  /\ phase = "down" => pool = {}

\* Past its opening, a save has a file.
Opened ==
  /\ \A j \in pool : j.kind # "open" => j.ino \in Inodes
  /\ \A s \in Savers :
       \/ ~Saving(s)
       \/ (save[s].stage = "open" /\ Busy(s))
       \/ save[s].ino \in Inodes

Owners ==
  /\ \A s, t \in Savers : Saving(s) /\ Saving(t) => s = t
  /\ \A j, k \in pool : j.by = k.by /\ j.by # Nobody => j = k
  /\ \A j \in pool : j.by # Nobody =>
       /\ save[j.by].stage = j.kind /\ save[j.by].ver = j.ver
       /\ j.kind # "open" => save[j.by].ino = j.ino
  /\ drops = 0 => ~overlap /\ \A j \in pool : j.by # Nobody

OneJob ==
  /\ \A j, k \in pool : j = k
  /\ \A j \in pool, s \in Savers : Saving(s) => j.by = s

Current ==
  /\ \A i \in {path, entry.path} :
       i # NoInode => /\ i # temp /\ Whole(i) /\ i \in synced
  /\ entry.path # NoInode => entry.path # entry.temp
  /\ stored <= FileVersion /\ FileVersion <= mem /\ DiskVersion <= FileVersion
  /\ \A j \in pool : FileVersion <= j.ver /\ j.ver <= mem
  /\ \A s \in Savers : Saving(s) => FileVersion <= save[s].ver /\ save[s].ver <= mem

Ready ==
  /\ \A j \in pool : JobReady(j)
  /\ \A s \in Savers : Saving(s) /\ ~Busy(s) => SaveReady(s)

SaveInv == TypeOK /\ Turns /\ Opened /\ Owners /\ (Spoilt \/ (OneJob /\ Current /\ Ready))
=============================================================================
