-------------------------- MODULE StoreSaveProofs --------------------------
(***************************************************************************)
(* StoreSave: saves are atomic until a save overlaps the rest of a dropped *)
(* one, or is not told of a write that failed.                             *)
(***************************************************************************)
EXTENDS StoreSave, TLAPS

Calm == OneJob /\ Current /\ Ready

LEMMA SaveInit == Init => SaveInv
<1> SUFFICES ASSUME Init PROVE SaveInv
  OBVIOUS
<1> USE DEF Init, NoSave, Savers
<1>1. TypeOK
  BY DEF TypeOK, Phases, Saves, Contents
<1>2. Turns /\ Opened /\ Owners /\ OneJob /\ Current /\ Ready
  BY DEF Turns, Opened, Owners, OneJob, Current, Ready, Saving, FileVersion, DiskVersion, VersionIn
<1> QED BY <1>1, <1>2 DEF SaveInv

-----------------------------------------------------------------------------
(***************************************************************************)
(* What a drop does, and the type of every variable.                       *)
(***************************************************************************)
LEMMA DropFacts ==
  ASSUME TypeOK, Drop
  PROVE  /\ drops' \in Nat /\ drops' >= drops
         /\ save' = [s \in Savers |-> NoSave]
         /\ pool' \in SUBSET Jobs
         /\ \A j \in pool' : j.by = Nobody
         /\ \A j \in pool' : \E k \in pool : j = [k EXCEPT !.by = Nobody]
         /\ (drops' = 0 => Unlocked)
         /\ (pool = {} => pool' = {})
<1> USE DEF Drop, TypeOK, Jobs
<1>1. drops' \in Nat /\ drops' >= drops /\ (drops' = 0 => Unlocked)
  BY DEF Unlocked
<1>2. ASSUME NEW j \in pool'
      PROVE  \E k \in pool : j = [k EXCEPT !.by = Nobody]
  BY <1>2
<1> QED BY <1>1, <1>2

LEMMA TypeStep == TypeOK /\ Opened /\ [Next]_vars => TypeOK'
<1> SUFFICES ASSUME TypeOK, Opened, [Next]_vars PROVE TypeOK'
  OBVIOUS
<1> USE DEF TypeOK, Saves, Jobs, Stages, Contents, Phases, files, NoSave
<1>1. CASE Change \/ Exit \/ Start
  BY <1>1 DEF Change, Exit, Start, Whole
<1>2. CASE Disconnect \/ Shutdown
  BY <1>2, DropFacts DEF Disconnect, Shutdown
<1>3. CASE Crash \/ WriteBack
  BY <1>3 DEF Crash, WriteBack, Fault
<1>4. CASE PowerLoss
  BY <1>4 DEF PowerLoss, Fault
<1>5. ASSUME NEW s \in Savers, BeginSave(s) \/ Proceed(s) \/ EndSave(s)
      PROVE  TypeOK'
  <2>1. CASE BeginSave(s)
    BY <2>1 DEF BeginSave, Job
  <2>2. CASE Proceed(s)
    BY <2>2 DEF Proceed, Continue, Job
  <2>3. CASE EndSave(s)
    BY <2>3 DEF EndSave, AfterSave
  <2> QED BY <1>5, <2>1, <2>2, <2>3
<1>6. ASSUME NEW j \in pool, Run(j)
      PROVE  TypeOK'
  <2>0. pool' \in SUBSET Jobs
    BY <1>6 DEF Run, RunOpen, RunWrite, RunSync, RunRename, WriteFails, RunFails, Done
  <2>1. CASE RunOpen(j)
    BY <2>0, <2>1 DEF RunOpen
  <2>2. CASE RunWrite(j)
    BY <2>0, <2>2 DEF RunWrite
  <2>3. CASE RunSync(j)
    BY <2>0, <2>3 DEF RunSync, Opened
  <2>4. CASE RunRename(j)
    BY <2>0, <2>4 DEF RunRename
  <2>5. CASE RunFails(j)
    BY <2>0, <2>5 DEF RunFails, Abort, Fault, AfterSave
  <2>6. CASE WriteFails(j)
    <3>1. data' \in [Inodes -> Contents] /\ synced' \in SUBSET Inodes /\ faults' \in Nat
      BY <2>6, BoundsAssumption DEF WriteFails, Fault
    <3>2. unnoticed' \in BOOLEAN
      BY <2>6 DEF WriteFails
    <3>3. phase' \in Phases /\ save' \in [Savers -> Saves]
      BY <2>6 DEF WriteFails, Abort, AfterSave
    <3> QED BY <2>0, <2>6, <3>1, <3>2, <3>3 DEF WriteFails
  <2> QED BY <1>6, <2>1, <2>2, <2>3, <2>4, <2>5, <2>6 DEF Run
<1>7. CASE UNCHANGED vars
  BY <1>7 DEF vars
<1> QED BY <1>1, <1>2, <1>3, <1>4, <1>5, <1>6, <1>7 DEF Next

-----------------------------------------------------------------------------
(***************************************************************************)
(* The steps of a save.                                                    *)
(***************************************************************************)
LEMMA BeginStep ==
  ASSUME SaveInv, TypeOK', NEW s \in Savers, BeginSave(s)
  PROVE  Opened' /\ Owners' /\ (~Spoilt' => Calm')
<1> USE DEF SaveInv, Spoilt, TypeOK, Saves, Jobs, files, BeginSave, Job, Unlocked, Saving, Busy
<1>1. Opened'
  BY DEF Opened, Stages
<1>2. Owners'
  <2>1. \A j \in pool : j.by = Nobody
    BY DEF Owners, Stages
  <2> QED BY <2>1, SaversAssumption DEF Owners
<1>3. ASSUME ~Spoilt' PROVE Calm'
  <2>1. pool = {} /\ ~Spoilt
    BY <1>3
  <2>2. OneJob'
    BY <2>1 DEF OneJob
  <2>3. Current'
    BY <2>1 DEF Current, FileVersion, DiskVersion, VersionIn, Whole
  <2>4. Ready'
    BY <2>1 DEF Ready, JobReady, SaveReady
  <2> QED BY <2>2, <2>3, <2>4 DEF Calm
<1> QED BY <1>1, <1>2, <1>3

LEMMA ContinueStep ==
  ASSUME SaveInv, TypeOK', NEW s \in Savers, Proceed(s)
  PROVE  Opened' /\ Owners' /\ (~Spoilt' => Calm')
<1> USE DEF SaveInv, Spoilt, TypeOK, Saves, Jobs, files, Proceed, Continue, Job, Saving, Busy
<1>1. Opened'
  BY SMTT(40) DEF Opened, Stages
<1>2. Owners'
  BY SaversAssumption DEF Owners, Savers
<1>3. ASSUME ~Spoilt' PROVE Calm'
  <2>1. pool = {} /\ ~Spoilt /\ \A t \in Savers : Saving(t) => t = s
    BY <1>3 DEF OneJob, Owners
  <2>2. OneJob'
    BY <2>1 DEF OneJob
  <2>3. Current'
    BY <2>1 DEF Current, FileVersion, DiskVersion, VersionIn, Whole
  <2>4. Ready'
    <3>0. SaveReady(s)
      BY <2>1 DEF Ready
    <3>1. \A t \in Savers : Saving(t)' => Busy(t)'
      <4>1. \A t \in Savers : Saving(t)' => t = s
        BY <2>1
      <4>2. PICK j : j \in pool' /\ j.by = s
        <5> DEFINE job(next) == Job(s, next, save[s].ver, save[s].ino)
        <5>1. \A next : job(next).by = s
          OBVIOUS
        <5>2. PICK next \in Stages : job(next) \in pool'
          BY DEF Stages
        <5> QED BY <5>1, <5>2
      <4> QED BY <4>1, <4>2
    <3>2. ASSUME NEW j \in pool' PROVE JobReady(j)'
      BY <2>1, <3>0 DEF JobReady, SaveReady, Holds
    <3> QED BY <3>1, <3>2 DEF Ready
  <2> QED BY <2>2, <2>3, <2>4 DEF Calm
<1> QED BY <1>1, <1>2, <1>3

LEMMA EndStep ==
  ASSUME SaveInv, TypeOK', NEW s \in Savers, EndSave(s)
  PROVE  Opened' /\ Owners' /\ (~Spoilt' => Calm')
<1> USE DEF SaveInv, Spoilt, TypeOK, Saves, Jobs, files, EndSave, NoSave, Saving, Busy
<1>1. Opened'
  BY DEF Opened
<1>2. Owners'
  BY SaversAssumption DEF Owners
<1>3. ASSUME ~Spoilt' PROVE Calm'
  <2>1. ~Spoilt /\ pool = {} /\ \A t \in Savers : ~Saving(t)'
    BY <1>3 DEF OneJob, Owners
  <2>e. path = save[s].ino /\ path \in Inodes /\ data[path] = save[s].ver
    BY <2>1 DEF Ready, SaveReady
  <2>2. OneJob'
    BY <2>1 DEF OneJob
  <2>3. Current'
    BY <2>1, <2>e, SaversAssumption DEF Current, FileVersion, DiskVersion, VersionIn, Whole
  <2>4. Ready'
    BY <2>1 DEF Ready
  <2> QED BY <2>2, <2>3, <2>4 DEF Calm
<1> QED BY <1>1, <1>2, <1>3

-----------------------------------------------------------------------------
(***************************************************************************)
(* The jobs.                                                               *)
(***************************************************************************)
LEMMA OthersBusy ==
  ASSUME NEW j \in pool, pool' = pool \ {j}, NEW s \in Savers, s # j.by, Busy(s)
  PROVE  Busy(s)'
BY DEF Busy

\* A job that only leaves the pool
LEMMA JobDone ==
  ASSUME SaveInv, NEW j \in pool, Done(j), j.kind # "open", UNCHANGED <<save, overlap, drops>>
  PROVE  Opened' /\ Owners'
<1> USE DEF SaveInv, Spoilt, TypeOK, Jobs, Done, Saving
<1>1. ASSUME NEW s \in Savers, Saving(s), save[s].ino \notin Inodes
      PROVE  save[s].stage = "open" /\ Busy(s)'
  <2>1. save[s].stage = "open" /\ Busy(s)
    BY <1>1 DEF Opened
  <2>2. s # j.by
    BY <2>1, SaversAssumption DEF Owners
  <2> QED BY <2>1, <2>2, OthersBusy
<1>2. Opened'
  BY <1>1 DEF Opened, Busy
<1>3. Owners'
  BY DEF Owners
<1> QED BY <1>2, <1>3

LEMMA OpenStep ==
  ASSUME SaveInv, TypeOK', NEW j \in pool, RunOpen(j)
  PROVE  Opened' /\ Owners' /\ (~Spoilt' => Calm')
<1> USE DEF SaveInv, Spoilt, TypeOK, Saves, Jobs, files, RunOpen, Done, Saving, Busy
<1>0. PICK i \in Inodes :
        save' = IF j.by = Nobody THEN save ELSE [save EXCEPT ![j.by].ino = i]
  OBVIOUS
<1>1. Opened'
  <2>1. \A k \in pool' : k.kind # "open" => k.ino \in Inodes
    BY DEF Opened
  <2>2. ASSUME NEW s \in Savers
        PROVE  \/ ~Saving(s)'
               \/ (save'[s].stage = "open" /\ Busy(s)')
               \/ save'[s].ino \in Inodes
    <3>1. CASE s = j.by
      BY <1>0, <3>1, SaversAssumption
    <3>2. CASE s # j.by
      <4>1. save'[s] = save[s]
        BY <1>0, <3>2
      <4> QED BY <3>2, <4>1, OthersBusy DEF Opened
    <3> QED BY <3>1, <3>2
  <2> QED BY <2>1, <2>2 DEF Opened
<1>2. Owners'
  BY SaversAssumption DEF Owners, Savers
<1>3. ASSUME ~Spoilt' PROVE Calm'
  <2>1. ~Spoilt /\ pool' = {}
    BY <1>3 DEF OneJob
  <2>2. OneJob'
    BY <2>1 DEF OneJob
  <2>3. Current'
    BY <2>1 DEF Current, FileVersion, DiskVersion, VersionIn, Whole, Fresh
  <2>4. Ready'
    <3>1. ASSUME NEW s \in Savers, Saving(s)'
          PROVE  s = j.by /\ save[s].stage = j.kind /\ save[s].ver = j.ver
                 /\ (j.kind # "open" => save[s].ino = j.ino)
      <4>1. Saving(s)
        BY <3>1
      <4>2. s = j.by
        BY <2>1, <4>1 DEF OneJob
      <4> QED BY <4>2, SaversAssumption DEF Owners
    <3>2. ASSUME NEW s \in Savers, Saving(s)' PROVE SaveReady(s)'
      BY <2>1, <3>1, <3>2, SaversAssumption DEF SaveReady, Holds
    <3> QED BY <2>1, <3>2 DEF Ready
  <2> QED BY <2>2, <2>3, <2>4 DEF Calm
<1> QED BY <1>1, <1>2, <1>3

LEMMA WriteStep ==
  ASSUME SaveInv, TypeOK', NEW j \in pool, RunWrite(j)
  PROVE  Opened' /\ Owners' /\ (~Spoilt' => Calm')
<1> USE DEF SaveInv, Spoilt, TypeOK, Saves, Jobs, files, RunWrite, Done, Saving, Busy
<1>1. Opened' /\ Owners'
  BY JobDone
<1>3. ASSUME ~Spoilt' PROVE Calm'
  <2>1. /\ ~Spoilt /\ pool' = {}
        /\ Holds(j.ino, Empty) /\ data' = [data EXCEPT ![j.ino] = j.ver]
    <3>1. ~Spoilt
      BY <1>3
    <3>2. pool' = {}
      BY <3>1 DEF OneJob
    <3>3. Holds(j.ino, Empty)
      BY <3>1 DEF Ready, JobReady
    <3> QED BY <3>1, <3>2, <3>3 DEF Holds
  <2>2. OneJob'
    BY <2>1 DEF OneJob
  <2>3. Current'
    BY <2>1 DEF Current, FileVersion, DiskVersion, VersionIn, Whole, Holds
  <2>4. Ready'
    <3>1. ASSUME NEW s \in Savers, Saving(s)'
          PROVE  s = j.by /\ save[s].stage = j.kind /\ save[s].ver = j.ver
                 /\ (j.kind # "open" => save[s].ino = j.ino)
      <4>1. Saving(s)
        BY <3>1
      <4>2. s = j.by
        BY <2>1, <4>1 DEF OneJob
      <4> QED BY <4>2, SaversAssumption DEF Owners
    <3>2. ASSUME NEW s \in Savers, Saving(s)' PROVE SaveReady(s)'
      BY <2>1, <3>1, <3>2, SaversAssumption DEF SaveReady, Holds
    <3> QED BY <2>1, <3>2 DEF Ready
  <2> QED BY <2>2, <2>3, <2>4 DEF Calm
<1> QED BY <1>1, <1>3

LEMMA SyncStep ==
  ASSUME SaveInv, TypeOK', NEW j \in pool, RunSync(j)
  PROVE  Opened' /\ Owners' /\ (~Spoilt' => Calm')
<1> USE DEF SaveInv, Spoilt, TypeOK, Saves, Jobs, files, RunSync, Done, Saving, Busy
<1>1. Opened' /\ Owners'
  BY JobDone
<1>3. ASSUME ~Spoilt' PROVE Calm'
  <2>1. ~Spoilt /\ pool' = {} /\ Holds(j.ino, j.ver)
    BY <1>3 DEF OneJob, Ready, JobReady
  <2>2. OneJob'
    BY <2>1 DEF OneJob
  <2>3. Current'
    BY <2>1 DEF Current, FileVersion, DiskVersion, VersionIn, Whole
  <2>4. Ready'
    <3>1. ASSUME NEW s \in Savers, Saving(s)'
          PROVE  s = j.by /\ save[s].stage = j.kind /\ save[s].ver = j.ver
                 /\ (j.kind # "open" => save[s].ino = j.ino)
      <4>1. Saving(s)
        BY <3>1
      <4>2. s = j.by
        BY <2>1, <4>1 DEF OneJob
      <4> QED BY <4>2, SaversAssumption DEF Owners
    <3>2. ASSUME NEW s \in Savers, Saving(s)' PROVE SaveReady(s)'
      BY <2>1, <3>1, <3>2, SaversAssumption DEF SaveReady, Holds
    <3> QED BY <2>1, <3>2 DEF Ready
  <2> QED BY <2>2, <2>3, <2>4 DEF Calm
<1> QED BY <1>1, <1>3

LEMMA RenameStep ==
  ASSUME SaveInv, TypeOK', NEW j \in pool, RunRename(j)
  PROVE  Opened' /\ Owners' /\ (~Spoilt' => Calm')
<1> USE DEF SaveInv, Spoilt, TypeOK, Saves, Jobs, files, RunRename, Done, Saving, Busy
<1>1. Opened' /\ Owners'
  BY JobDone
<1>3. ASSUME ~Spoilt' PROVE Calm'
  <2>1. ~Spoilt /\ pool' = {} /\ Holds(j.ino, j.ver) /\ j.ino \in synced
    BY <1>3 DEF OneJob, Ready, JobReady
  <2>2. OneJob'
    BY <2>1 DEF OneJob
  <2>3. Current'
    <3>1. path' = j.ino /\ path' # NoInode /\ temp' = NoInode /\ data[path'] = j.ver
      BY <2>1, SaversAssumption DEF Holds
    <3>2. stored <= j.ver /\ j.ver <= mem
      BY <2>1 DEF Current, FileVersion, DiskVersion, VersionIn, Whole
    <3>3. \A s \in Savers : Saving(s) => save[s].ver = j.ver
      BY <2>1, SaversAssumption DEF OneJob, Owners
    <3> QED BY <2>1, <3>1, <3>2, <3>3 DEF Current, FileVersion, DiskVersion, VersionIn, Whole
  <2>4. Ready'
    BY <2>1, SaversAssumption DEF Ready, SaveReady, Holds, OneJob, Owners
  <2> QED BY <2>2, <2>3, <2>4 DEF Calm
<1> QED BY <1>1, <1>3

\* The files a snapshot is read from stay as they are.
SnapshotsKept ==
  \A i \in {path, entry.path} :
    i # NoInode => data'[i] = data[i] /\ (i \in synced => i \in synced')

LEMMA AbortStep ==
  ASSUME SaveInv, TypeOK', NEW j \in pool, Done(j), Abort(j),
         UNCHANGED <<mem, temp, path, entry, stored, unnoticed, overlap, drops>>,
         ~Spoilt => SnapshotsKept
  PROVE  Opened' /\ Owners' /\ (~Spoilt' => Calm')
<1> USE DEF SaveInv, Spoilt, TypeOK, Saves, Jobs, Abort, Done, Saving, Busy, NoSave
<1>0. save' = IF j.by = Nobody THEN save ELSE [save EXCEPT ![j.by] = NoSave]
  OBVIOUS
<1>a. ASSUME NEW s \in Savers, Saving(s)' PROVE s # j.by /\ save'[s] = save[s]
  BY <1>0, <1>a, SaversAssumption
<1>1. Opened'
  <2>1. ASSUME NEW s \in Savers, Saving(s)'
        PROVE  \/ (save'[s].stage = "open" /\ Busy(s)')
               \/ save'[s].ino \in Inodes
    BY <1>a, <2>1, OthersBusy DEF Opened
  <2> QED BY <2>1 DEF Opened
<1>2. Owners'
  <2>1. ASSUME NEW k \in pool', k.by # Nobody
        PROVE  /\ save'[k.by].stage = k.kind /\ save'[k.by].ver = k.ver
               /\ (k.kind # "open" => save'[k.by].ino = k.ino)
    <3>1. save[k.by].stage = k.kind /\ Saving(k.by) /\ save[k.by].ver = k.ver
          /\ (k.kind # "open" => save[k.by].ino = k.ino)
      BY <2>1 DEF Owners, Stages
    <3>2. k.by # j.by
      BY <2>1 DEF Owners
    <3> QED BY <1>0, <2>1, <3>1, <3>2
  <2> QED BY <1>a, <2>1 DEF Owners
<1>3. ASSUME ~Spoilt' PROVE Calm'
  <2>1. ~Spoilt /\ pool' = {} /\ \A t \in Savers : ~Saving(t)'
    <3>1. ~Spoilt /\ \A t \in Savers : Saving(t) => t = j.by
      BY <1>3 DEF OneJob
    <3>2. pool' = {}
      BY <3>1 DEF OneJob
    <3> QED BY <1>a, <3>1, <3>2
  <2>2. OneJob'
    BY <2>1 DEF OneJob
  <2>3. Current'
    BY <2>1 DEF Current, SnapshotsKept, FileVersion, DiskVersion, VersionIn, Whole
  <2>4. Ready'
    BY <2>1 DEF Ready
  <2> QED BY <2>2, <2>3, <2>4 DEF Calm
<1> QED BY <1>1, <1>2, <1>3

LEMMA FailStep ==
  ASSUME SaveInv, TypeOK', NEW j \in pool, RunFails(j)
  PROVE  Opened' /\ Owners' /\ (~Spoilt' => Calm')
<1>1. Done(j) /\ Abort(j)
      /\ UNCHANGED <<mem, files, stored, unnoticed, overlap, drops>>
  BY DEF RunFails
<1>2. SnapshotsKept
  BY <1>1 DEF SnapshotsKept, files
<1> QED BY <1>1, <1>2, AbortStep DEF files

LEMMA WriteFailStep ==
  ASSUME SaveInv, TypeOK', NEW j \in pool, WriteFails(j)
  PROVE  Opened' /\ Owners' /\ (~Spoilt' => Calm')
<1>0. /\ Done(j) /\ j.kind = "write"
      /\ UNCHANGED <<mem, temp, path, entry, stored, overlap, drops>>
      /\ data' = data \/ data' = [data EXCEPT ![j.ino] = Torn]
      /\ synced' = synced \ {j.ino}
  BY DEF WriteFails
<1>1. ~Spoilt => Calm /\ Holds(j.ino, Empty)
  BY <1>0 DEF SaveInv, Calm, Ready, JobReady
<1>2. ~Spoilt => SnapshotsKept
  <2> SUFFICES ASSUME ~Spoilt, NEW i \in {path, entry.path}, i # NoInode
               PROVE  data'[i] = data[i] /\ (i \in synced => i \in synced')
    BY DEF SnapshotsKept
  <2>1. i # j.ino
    BY <1>1 DEF Calm, Current, Holds
  <2> QED BY <1>0, <2>1 DEF SaveInv, TypeOK
<1>3. CASE Abort(j) /\ UNCHANGED unnoticed
  BY <1>0, <1>2, <1>3, AbortStep
<1>4. CASE UNCHANGED <<phase, save>> /\ unnoticed' = (unnoticed \/ j.by # Nobody)
  <2>1. Opened' /\ Owners'
    BY <1>0, <1>4, JobDone
  <2>2. ASSUME ~Spoilt' PROVE Calm'
    <3>1. ~Spoilt /\ j.by = Nobody
      BY <1>0, <1>4, <2>2 DEF Spoilt
    <3>2. pool' = {} /\ \A s \in Savers : ~Saving(s)
      BY <1>0, <1>1, <3>1, SaversAssumption DEF Calm, OneJob, Done
    <3>3. Current'
      BY <1>0, <1>1, <1>2, <1>4, <3>1, <3>2
         DEF Calm, Current, FileVersion, DiskVersion, VersionIn, Whole, SnapshotsKept, Saving
    <3> QED BY <1>4, <3>2, <3>3 DEF Calm, OneJob, Ready, Saving
  <2> QED BY <2>1, <2>2
<1> QED BY <1>3, <1>4 DEF WriteFails

-----------------------------------------------------------------------------
(***************************************************************************)
(* The session and the process.                                            *)
(***************************************************************************)
LEMMA DropStep ==
  ASSUME SaveInv, TypeOK', Disconnect \/ Shutdown
  PROVE  Opened' /\ Owners' /\ (~Spoilt' => Calm')
<1> USE DEF SaveInv, Spoilt, Disconnect, Shutdown, files, Saving, Busy, NoSave
<1>0. Drop /\ UNCHANGED <<mem, files, stored, unnoticed, overlap, faults>>
  OBVIOUS
<1>d. /\ drops' \in Nat /\ drops' >= drops
      /\ save' = [s \in Savers |-> NoSave]
      /\ \A j \in pool' : j.by = Nobody
      /\ \A j \in pool' : \E k \in pool : j = [k EXCEPT !.by = Nobody]
      /\ (drops' = 0 => Unlocked)
  BY <1>0, DropFacts
<1> USE DEF TypeOK, Saves, Jobs
<1>1. Opened'
  BY <1>0, <1>d DEF Opened
<1>2. Owners'
  <2>1. drops' = 0 => pool' = {} /\ ~overlap
    <3> SUFFICES ASSUME drops' = 0 PROVE pool = {} /\ ~overlap
      BY <1>d
    <3>1. drops = 0 /\ Unlocked
      BY <1>d
    <3> QED BY <3>1 DEF Owners, Unlocked, Stages
  <2> QED BY <1>0, <1>d, <2>1 DEF Owners
<1>3. ASSUME ~Spoilt' PROVE Calm'
  <2>1. ~Spoilt
    BY <1>0, <1>3
  <2>2. OneJob'
    BY <1>0, <1>d, <2>1 DEF OneJob
  <2>3. Current'
    BY <1>0, <1>d, <2>1 DEF Current, FileVersion, DiskVersion, VersionIn, Whole
  <2>4. Ready'
    BY <1>0, <1>d, <2>1 DEF Ready, JobReady, Holds
  <2> QED BY <2>2, <2>3, <2>4 DEF Calm
<1> QED BY <1>1, <1>2, <1>3

LEMMA TurnsStep == SaveInv /\ TypeOK' /\ [Next]_vars => Turns'
<1> SUFFICES ASSUME SaveInv, TypeOK', [Next]_vars PROVE Turns'
  OBVIOUS
<1> USE DEF SaveInv, Spoilt, TypeOK, Turns, MaySave, Saving, NoSave, Saves, Jobs
<1>1. CASE Change \/ Exit \/ Start
  BY <1>1 DEF Change, Exit, Start
<1>2. CASE Disconnect \/ Shutdown
  BY <1>2, DropFacts DEF Disconnect, Shutdown
<1>3. CASE Crash \/ PowerLoss \/ WriteBack
  BY <1>3 DEF Crash, PowerLoss, WriteBack
<1>4. ASSUME NEW s \in Savers, BeginSave(s) \/ Proceed(s) \/ EndSave(s)
      PROVE  Turns'
  <2>1. CASE BeginSave(s)
    BY <2>1 DEF BeginSave, Unlocked
  <2>2. CASE Proceed(s)
    BY <2>2 DEF Proceed, Continue
  <2>3. CASE EndSave(s)
    BY <2>3 DEF EndSave, AfterSave, Owners
  <2> QED BY <1>4, <2>1, <2>2, <2>3
<1>5. ASSUME NEW j \in pool, Run(j)
      PROVE  Turns'
  <2>1. phase # "down" /\ (j.by # Nobody => Saving(j.by) /\ j.by \in Savers)
    BY DEF Owners, Stages
  <2>2. CASE RunOpen(j)
    <3>1. \A s \in Savers : save'[s].stage = save[s].stage
      BY <2>2 DEF RunOpen
    <3> QED BY <2>1, <2>2, <3>1 DEF RunOpen
  <2>3. CASE RunWrite(j) \/ RunSync(j) \/ RunRename(j)
    BY <2>1, <2>3 DEF RunWrite, RunSync, RunRename
  <2>4. CASE Abort(j)
    <3>1. CASE j.by = Nobody
      BY <2>1, <2>4, <3>1 DEF Abort
    <3>2. CASE j.by # Nobody
      <4>1. \A s \in Savers : ~Saving(s)'
        BY <2>1, <2>4, <3>2 DEF Abort, Owners
      <4>2. phase' # "down"
        BY <2>1, <2>4, <3>2 DEF Abort, AfterSave
      <4> QED BY <4>1, <4>2
    <3> QED BY <3>1, <3>2
  <2>5. CASE UNCHANGED <<phase, save>>
    BY <2>1, <2>5
  <2> QED BY <1>5, <2>2, <2>3, <2>4, <2>5 DEF Run, WriteFails, RunFails
<1>6. CASE UNCHANGED vars
  BY <1>6 DEF vars
<1> QED BY <1>1, <1>2, <1>3, <1>4, <1>5, <1>6 DEF Next

LEMMA ProcessStep ==
  ASSUME SaveInv, TypeOK', Change \/ Exit \/ Crash \/ PowerLoss \/ WriteBack \/ Start
  PROVE  Opened' /\ Owners' /\ (~Spoilt' => Calm')
<1> USE DEF SaveInv, Spoilt, TypeOK, Saves, Jobs, files, Saving, Busy, NoSave
<1>1. CASE Change
  <2>1. Opened' /\ Owners'
    BY <1>1 DEF Change, Opened, Owners
  <2>2. ASSUME ~Spoilt' PROVE Calm'
    BY <1>1, <2>2 DEF Change, Calm, OneJob, Current, FileVersion, DiskVersion, VersionIn, Whole,
                      Ready, JobReady, SaveReady, Holds
  <2> QED BY <2>1, <2>2
<1>2. CASE Exit
  <2>0. pool' = {} /\ UNCHANGED <<mem, save, files, stored, unnoticed, overlap, drops>>
    BY <1>2 DEF Exit
  <2>1. \A s \in Savers : ~Saving(s)
    BY <1>2 DEF Exit, Turns, MaySave
  <2>2. Opened' /\ Owners'
    BY <2>0, <2>1 DEF Opened, Owners
  <2>3. ASSUME ~Spoilt' PROVE Calm'
    BY <2>0, <2>1, <2>3 DEF Calm, OneJob, Current, FileVersion, DiskVersion, VersionIn, Whole, Ready
  <2> QED BY <2>2, <2>3
<1>3. CASE Crash
  <2>0. /\ pool' = {} /\ save' = [s \in Savers |-> NoSave]
        /\ UNCHANGED <<mem, temp, path, entry, stored, unnoticed, overlap, drops>>
    BY <1>3 DEF Crash
  <2>1. Opened' /\ Owners'
    BY <2>0, SaversAssumption DEF Opened, Owners
  <2>2. ASSUME ~Spoilt' PROVE Calm'
    <3>1. ~Spoilt
      BY <2>0, <2>2
    <3>2. SnapshotsKept
      BY <1>3, <3>1 DEF Crash, Current, Ready, JobReady, Holds, SnapshotsKept
    <3>3. Current'
      BY <2>0, <3>1, <3>2
         DEF Current, FileVersion, DiskVersion, VersionIn, Whole, SnapshotsKept
    <3>4. OneJob' /\ Ready'
      BY <2>0 DEF OneJob, Ready
    <3> QED BY <3>3, <3>4 DEF Calm
  <2> QED BY <2>1, <2>2
<1>5. CASE PowerLoss
  <2>0. /\ pool' = {} /\ save' = [s \in Savers |-> NoSave]
        /\ temp' = entry.temp /\ path' = entry.path
        /\ stored' = IF path' = path THEN stored ELSE 0
        /\ UNCHANGED <<mem, synced, entry, unnoticed, overlap, drops>>
        /\ \A i \in Inodes : i \in synced => data'[i] = data[i]
    BY <1>5 DEF PowerLoss
  <2>1. Opened' /\ Owners'
    BY <2>0, SaversAssumption DEF Opened, Owners
  <2>2. ASSUME ~Spoilt' PROVE Calm'
    <3>1. ~Spoilt
      BY <2>0, <2>2
    <3>2. entry.path # NoInode =>
            /\ entry.path # entry.temp /\ entry.path \in synced
            /\ Whole(entry.path) /\ data'[entry.path] = data[entry.path]
      BY <2>0, <3>1 DEF Current
    <3>3. DiskVersion <= mem /\ DiskVersion \in Nat
      BY <3>1 DEF Current, FileVersion, DiskVersion, VersionIn, Whole
    <3>4. FileVersion' = DiskVersion /\ DiskVersion' = DiskVersion
      BY <2>0, <3>2 DEF FileVersion, DiskVersion, VersionIn
    <3>5. stored' <= FileVersion'
      BY <2>0, <3>1, <3>3, <3>4 DEF Current, FileVersion, DiskVersion
    <3>6. \A i \in {path', entry'.path} :
            i # NoInode => /\ i # temp' /\ Whole(i)' /\ i \in synced'
      BY <2>0, <3>2 DEF Whole
    <3>7. Current'
      BY <2>0, <3>2, <3>3, <3>4, <3>5, <3>6 DEF Current
    <3>8. OneJob' /\ Ready'
      BY <2>0 DEF OneJob, Ready
    <3> QED BY <3>7, <3>8 DEF Calm
  <2> QED BY <2>1, <2>2
<1>6. CASE WriteBack
  <2>0. /\ entry' = [temp |-> temp, path |-> path]
        /\ UNCHANGED <<mem, save, pool, temp, path, data, synced, stored, unnoticed,
                       overlap, drops>>
    BY <1>6 DEF WriteBack
  <2>1. Opened' /\ Owners'
    BY <2>0 DEF Opened, Owners
  <2>2. ASSUME ~Spoilt' PROVE Calm'
    <3>1. ~Spoilt
      BY <2>0, <2>2
    <3>2. Current'
      BY <2>0, <3>1 DEF Current, FileVersion, DiskVersion, VersionIn, Whole
    <3>3. OneJob' /\ Ready'
      BY <2>0, <3>1 DEF OneJob, Ready, JobReady, SaveReady, Holds
    <3> QED BY <3>2, <3>3 DEF Calm
  <2> QED BY <2>1, <2>2
<1>4. CASE Start
  <2>0. pool = {} /\ UNCHANGED <<save, pool, files, stored, unnoticed, overlap, drops>>
    BY <1>4 DEF Start, Turns
  <2>1. \A s \in Savers : ~Saving(s)
    BY <1>4 DEF Start, Turns, MaySave
  <2>2. Opened' /\ Owners'
    BY <2>0, <2>1 DEF Opened, Owners
  <2>3. ASSUME ~Spoilt' PROVE Calm'
    <3>1. ~Spoilt /\ FileVersion <= mem' /\ (path # NoInode => Whole(path))
      BY <1>4, <2>0, <2>3 DEF Start, Current, FileVersion, DiskVersion, VersionIn, Whole
    <3> QED BY <2>0, <2>1, <3>1 DEF Calm, OneJob, Current, FileVersion, DiskVersion, VersionIn, Whole, Ready
  <2> QED BY <2>2, <2>3
<1> QED BY <1>1, <1>2, <1>3, <1>4, <1>5, <1>6

-----------------------------------------------------------------------------
(***************************************************************************)
(* The theorems.                                                           *)
(***************************************************************************)
LEMMA SaveStep == SaveInv /\ [Next]_vars => SaveInv'
<1> SUFFICES ASSUME SaveInv, [Next]_vars PROVE SaveInv'
  OBVIOUS
<1>1. TypeOK' /\ Turns'
  BY TypeStep, TurnsStep DEF SaveInv
<1>2. Opened' /\ Owners' /\ (~Spoilt' => Calm')
  <2>1. CASE UNCHANGED vars
    BY <2>1 DEF vars, files, SaveInv, Spoilt, Opened, Owners, Calm, OneJob, Current, Ready,
       Saving, Busy, FileVersion, DiskVersion, VersionIn, Whole, JobReady, SaveReady, Holds
  <2>2. CASE Disconnect \/ Shutdown
    BY <1>1, <2>2, DropStep
  <2>3. CASE Change \/ Exit \/ Crash \/ PowerLoss \/ WriteBack \/ Start
    BY <1>1, <2>3, ProcessStep
  <2>4. ASSUME NEW s \in Savers, BeginSave(s) \/ Proceed(s) \/ EndSave(s)
        PROVE  Opened' /\ Owners' /\ (~Spoilt' => Calm')
    BY <1>1, <2>4, BeginStep, ContinueStep, EndStep
  <2>5. ASSUME NEW j \in pool, Run(j)
        PROVE  Opened' /\ Owners' /\ (~Spoilt' => Calm')
    BY <1>1, <2>5, OpenStep, WriteStep, SyncStep, RenameStep, FailStep, WriteFailStep
       DEF Run
  <2> QED BY <2>1, <2>2, <2>3, <2>4, <2>5 DEF Next
<1> QED BY <1>1, <1>2 DEF SaveInv, Calm

\* What the files, their names in memory and on the disk, and the jobs look
\* like when a job is about to run, until a save overlaps a dropped one or goes
\* on after a write that failed.
THEOREM SaveInvInvariant == Spec => []SaveInv
<1>1. Init => SaveInv
  BY SaveInit
<1>2. SaveInv /\ [Next]_vars => SaveInv'
  BY SaveStep
<1> QED BY <1>1, <1>2, PTL DEF Spec

\* The state file is whole and holds what was reported as stored, through
\* crashes, power losses and I/O errors, unless a save overlaps a dropped one
\* or is not told of a write that failed.
THEOREM DamageExplainedInvariant == Spec => []DamageExplained
<1>1. SaveInv => DamageExplained
  BY DEF SaveInv, TypeOK, Current, DamageExplained, FileWhole, StoredIsThere,
         FileVersion, VersionIn, Whole
<1> QED BY <1>1, SaveInvInvariant, PTL

-----------------------------------------------------------------------------
(***************************************************************************)
(* The refinement: until then, a step makes progress, replaces the file,   *)
(* writes it back, loses what was not written back, reloads the file, or   *)
(* changes nothing AtomicFile sees.                                        *)
(***************************************************************************)
Seen == <<mem, FileVersion, DiskVersion>>

LEMMA AtomicStep ==
  ASSUME SaveInv, SaveInv', [Next]_vars, ~Spoilt'
  PROVE  [Atomic!ANext]_Seen
<1> USE DEF Atomic!ANext, Atomic!Progress, Atomic!Replace, Atomic!WriteBack,
            Atomic!PowerLoss, Atomic!Reload, Seen
<1>0. Calm /\ Calm' /\ ~Spoilt /\ TypeOK /\ TypeOK'
  <2>0. overlap \in BOOLEAN /\ unnoticed \in BOOLEAN
    BY DEF SaveInv, TypeOK
  <2>1. ASSUME NEW j \in pool, Run(j)
        PROVE  (overlap => overlap') /\ (unnoticed => unnoticed')
    <3>1. CASE WriteFails(j)
      BY <2>0, <3>1 DEF WriteFails
    <3>2. CASE ~WriteFails(j)
      BY <2>1, <3>2 DEF Run, RunOpen, RunWrite, RunSync, RunRename, RunFails
    <3> QED BY <3>1, <3>2
  <2>2. ASSUME NEW t \in Savers, BeginSave(t) \/ Proceed(t) \/ EndSave(t)
        PROVE  (overlap => overlap') /\ (unnoticed => unnoticed')
    BY <2>0, <2>2 DEF BeginSave, Proceed, Continue, EndSave
  <2>3. (overlap => overlap') /\ (unnoticed => unnoticed')
    BY <2>1, <2>2 DEF Next, vars, Change, Disconnect, Shutdown, Exit, Crash, WriteBack,
       PowerLoss, Start
  <2> QED BY <2>3 DEF SaveInv, Calm, Spoilt
<1>1. /\ FileVersion \in Nat /\ FileVersion' \in Nat /\ mem \in Nat
      /\ FileVersion <= mem /\ FileVersion' <= mem'
  BY <1>0 DEF Calm, Current, FileVersion, DiskVersion, VersionIn, Whole, TypeOK
<1>k. ASSUME SnapshotsKept, UNCHANGED <<mem, path, entry>>
      PROVE  UNCHANGED Seen
  BY <1>k DEF SnapshotsKept, FileVersion, DiskVersion, VersionIn
<1>2. CASE Change
  BY <1>2 DEF Change, files, FileVersion, DiskVersion, VersionIn
<1>3. CASE Start
  BY <1>3 DEF Start, files, FileVersion, DiskVersion, VersionIn
<1>4. CASE Disconnect \/ Shutdown \/ Exit \/ UNCHANGED vars
  BY <1>4 DEF Disconnect, Shutdown, Exit, files, vars, FileVersion, DiskVersion, VersionIn
<1>5. CASE Crash
  <2>1. SnapshotsKept
    BY <1>0, <1>5 DEF Crash, SnapshotsKept, Calm, Ready, JobReady, Holds, Current, TypeOK
  <2> QED BY <1>k, <1>5, <2>1 DEF Crash
<1>6. CASE PowerLoss
  <2>1. entry.path # NoInode => data'[entry.path] = data[entry.path]
    BY <1>0, <1>6 DEF PowerLoss, Calm, Current, TypeOK
  <2> QED BY <1>6, <2>1 DEF PowerLoss, FileVersion, DiskVersion, VersionIn
<1>w. CASE WriteBack
  BY <1>w DEF WriteBack, FileVersion, DiskVersion, VersionIn
<1>7. ASSUME NEW s \in Savers, BeginSave(s) \/ Proceed(s) \/ EndSave(s)
      PROVE  UNCHANGED Seen
  BY <1>7 DEF BeginSave, Proceed, Continue, EndSave, files, FileVersion, DiskVersion,
     VersionIn
<1>8. ASSUME NEW j \in pool, RunOpen(j) \/ RunSync(j) \/ RunFails(j)
      PROVE  UNCHANGED Seen
  <2>1. SnapshotsKept
    BY <1>0, <1>8 DEF RunOpen, RunSync, RunFails, files, Fresh, Calm, Current, TypeOK,
       SnapshotsKept
  <2> QED BY <1>k, <1>8, <2>1 DEF RunOpen, RunSync, RunFails, files
<1>9. ASSUME NEW j \in pool, RunWrite(j) \/ WriteFails(j)
      PROVE  UNCHANGED Seen
  <2>1. Holds(j.ino, Empty)
    BY <1>0, <1>9 DEF RunWrite, WriteFails, Calm, Ready, JobReady
  <2>2. SnapshotsKept
    BY <1>0, <1>9, <2>1 DEF RunWrite, WriteFails, Holds, Calm, Current, TypeOK,
       SnapshotsKept
  <2> QED BY <1>k, <1>9, <2>2 DEF RunWrite, WriteFails
<1>10. ASSUME NEW j \in pool, RunRename(j)
       PROVE  Atomic!Replace
  <2>1. FileVersion' = j.ver /\ mem' = mem /\ DiskVersion' = DiskVersion
    BY <1>0, <1>10, SaversAssumption DEF RunRename, FileVersion, DiskVersion, VersionIn,
       Calm, Ready, JobReady, Holds
  <2>2. FileVersion <= j.ver /\ j.ver <= mem
    BY <1>0 DEF Calm, Current
  <2> QED BY <1>1, <2>1, <2>2
<1> QED BY <1>2, <1>3, <1>4, <1>5, <1>6, <1>w, <1>7, <1>8, <1>9, <1>10 DEF Next, Run

\* Until a save overlaps a dropped one or is not told of a write that failed,
\* Store::save implements AtomicFile.
THEOREM SavesAreAtomic == Spec => AtomicSaves
<1>1. Init => Atomic!AInit
  BY DEF Init, Atomic!AInit, FileVersion, DiskVersion, VersionIn
<1>2. SaveInv /\ SaveInv' /\ [Next]_vars => [Spoilt' \/ Atomic!ANext]_Seen
  BY AtomicStep
<1> QED BY <1>1, <1>2, SaveInvInvariant, PTL DEF Spec, AtomicSaves, Seen
=============================================================================
