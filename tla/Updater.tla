------------------------------ MODULE Updater ------------------------------
(***************************************************************************)
(* The update command (updater.rs, bin/herdogrelay.rs): download, checks,  *)
(* and the replacement of the installed executable by two renames, with    *)
(* its rollback.  Commands started by the operator race for the lock; each *)
(* may be killed at any step, and the host may lose power.                 *)
(***************************************************************************)
EXTENDS Naturals, FiniteSets

CONSTANTS Procs,         \* update commands running at a time
          MaxVersion,    \* bound: releases 1 .. MaxVersion
          MaxPowerLosses \* bound

ASSUME UpdaterAssumption == MaxVersion \in Nat \ {0} /\ MaxPowerLosses \in Nat

VARIABLES dir,     \* what the paths name
          disk,    \* the same as of the last directory sync
          proc,    \* the commands
          latest,  \* the release behind the fixed URL
          losses,
          follows  \* platform: current_exe names the file a process runs, wherever it was renamed to

updateVars == <<dir, disk, proc, latest, losses, follows>>

Nothing  == 0
Versions == 1 .. MaxVersion
Other    == MaxVersion + 1      \* content that is no release
Contents == 0 .. Other

\* "deleted": the name /proc gives an executable that was unlinked
Paths == {"installed", "previous", "deleted"}

Steps == {"idle", "started", "locked", "sums", "extract", "probe", "hash", "backup", "syncbackup",
          "install", "check", "sync", "rollback", "restore", "syncrestore"}

Unlocked == {"idle", "started"}

Ended(r) == [pc |-> "idle", cur |-> 0, image |-> "installed", staged |-> Nothing,
             digest |-> 0, target |-> "installed", prev |-> Nothing, before |-> Nothing,
             result |-> r]

TypeOK ==
    /\ dir \in [Paths -> Contents] /\ disk \in [Paths -> Contents]
    /\ proc \in [Procs -> [pc : Steps, cur : {0} \cup Versions, image : Paths,
                           staged : Contents, digest : Contents, target : Paths,
                           prev : Contents, before : Contents,
                           result : {"none", "ok", "failed", "unrestored"}]]
    /\ latest \in Versions /\ losses \in 0 .. MaxPowerLosses /\ follows \in BOOLEAN
    /\ Cardinality({p \in Procs : proc[p].pc \notin Unlocked}) <= 1

Init ==
    /\ dir = [q \in Paths |-> IF q = "installed" THEN 1 ELSE Nothing]
    /\ disk = dir
    /\ proc = [p \in Procs |-> Ended("none")]
    /\ latest \in Versions
    /\ losses = 0 /\ follows \in BOOLEAN

-----------------------------------------------------------------------------
(* Helpers *)

\* with_extension("previous") maps the backup to itself.
Backup(q) == IF q = "installed" THEN "previous" ELSE q

\* The end of a command releases the lock.
End(p, r) == proc' = [proc EXCEPT ![p] = Ended(r)]

Goto(p, pc) == proc' = [proc EXCEPT ![p].pc = pc]

\* Renaming or removing a file moves the processes that run it.
Moved(ps, q, r) == [x \in Procs |->
    [ps[x] EXCEPT !.image = CASE ps[x].image = q /\ q # r -> r
                              [] ps[x].image = r /\ q # r -> "deleted"
                              [] OTHER -> ps[x].image]]

Renamed(q, r) == IF q = r THEN dir ELSE [dir EXCEPT ![q] = Nothing, ![r] = dir[q]]

-----------------------------------------------------------------------------
(* Up to the replacement: a failure ends the command and touches nothing *)

\* The version compared with later is the one of the running executable.
Start(p) ==
    /\ proc[p].pc = "idle" /\ dir["installed"] \in Versions
    /\ proc' = [proc EXCEPT ![p] = [Ended("none") EXCEPT !.pc = "started",
                                                         !.cur = dir["installed"]]]
    /\ UNCHANGED <<dir, disk, latest, losses>>

Free == \A p \in Procs : proc[p].pc \in Unlocked

AcquireLock(p) ==
    /\ proc[p].pc = "started"
    /\ IF Free THEN proc' = [proc EXCEPT ![p].pc = "locked", ![p].before = dir["installed"]]
               ELSE End(p, "failed")
    /\ UNCHANGED <<dir, disk, latest, losses>>

\* The archive and the manifest are two requests for whatever is latest.
Download(p) ==
    /\ proc[p].pc = "locked"
    /\ \/ End(p, "failed")
       \/ proc' = [proc EXCEPT ![p].pc = "sums", ![p].digest = latest]
    /\ UNCHANGED <<dir, disk, latest, losses>>

VerifyChecksum(p) ==
    /\ proc[p].pc = "sums"
    /\ \/ End(p, "failed")
       \/ proc[p].digest = latest /\ Goto(p, "extract")
    /\ UNCHANGED <<dir, disk, latest, losses>>

\* An archive must hold the one executable, within the limits.
ExtractVerified(p) ==
    /\ proc[p].pc = "extract"
    /\ \/ End(p, "failed")
       \/ proc' = [proc EXCEPT ![p].pc = "probe", ![p].staged = proc[p].digest]
    /\ UNCHANGED <<dir, disk, latest, losses>>

\* It must be a native executable that starts within the time limit ...
VerifyStagedStartup(p) ==
    /\ proc[p].pc = "probe"
    /\ \/ End(p, "failed")
       \/ proc[p].staged > proc[p].cur /\ Goto(p, "hash")    \* ... and is newer
    /\ UNCHANGED <<dir, disk, latest, losses>>

-----------------------------------------------------------------------------
(* replace_binary *)

\* The path is asked for only now.
Target(p) == IF follows THEN proc[p].image ELSE "installed"

HashFiles(p) ==
    /\ proc[p].pc = "hash"
    /\ \/ End(p, "failed")
       \/ /\ Target(p) = "deleted" => dir["deleted"] = Nothing     \* bound: one stray file
          /\ proc' = [proc EXCEPT ![p].target = Target(p), ![p].digest = proc[p].staged,
                                  ![p].prev = dir[Target(p)],
                                  ![p].pc = IF dir[Target(p)] = Nothing THEN "install"
                                                                        ELSE "backup"]
    /\ UNCHANGED <<dir, disk, latest, losses>>

\* The staged path is replaced after it was hashed.
SwapStaged(p) ==
    /\ proc[p].staged # Other
    /\ proc[p].pc \in {"backup", "syncbackup", "install"}
    /\ proc' = [proc EXCEPT ![p].staged = Other]
    /\ UNCHANGED <<dir, disk, latest, losses>>

\* Mutant: the old executable is removed first.
BackupRemoves(p) ==
    /\ proc[p].pc = "backup"
    /\ dir' = [dir EXCEPT ![proc[p].target] = Nothing]
    /\ Goto(p, "syncbackup")
    /\ UNCHANGED <<disk, latest, losses>>

BackupInstalled(p) ==
    /\ proc[p].pc = "backup"
    /\ LET q == proc[p].target IN
       \/ End(p, "failed") /\ UNCHANGED dir
       \/ /\ dir' = Renamed(q, Backup(q))
          /\ proc' = Moved([proc EXCEPT ![p].pc = "syncbackup"], q, Backup(q))
    /\ UNCHANGED <<disk, latest, losses>>

SyncBackup(p) ==
    /\ proc[p].pc = "syncbackup"
    /\ \/ Goto(p, "rollback") /\ UNCHANGED disk
       \/ Goto(p, "install") /\ disk' = dir
    /\ UNCHANGED <<dir, latest, losses>>

InstallStaged(p) ==
    /\ proc[p].pc = "install"
    /\ LET q == proc[p].target IN
       \/ Goto(p, "rollback") /\ UNCHANGED dir
       \/ /\ dir' = [dir EXCEPT ![q] = proc[p].staged]
          /\ proc' = Moved([proc EXCEPT ![p].pc = "check", ![p].staged = Nothing], q, "deleted")
    /\ UNCHANGED <<disk, latest, losses>>

CheckInstalled(p) ==
    /\ proc[p].pc = "check"
    /\ \/ Goto(p, "rollback")
       \/ dir[proc[p].target] = proc[p].digest /\ Goto(p, "sync")
    /\ UNCHANGED <<dir, disk, latest, losses>>

\* Mutant: success is reported whatever the sync says.
SyncIgnored(p) ==
    /\ proc[p].pc = "sync"
    /\ End(p, "ok")
    /\ UNCHANGED <<dir, disk, latest, losses>>

SyncInstalled(p) ==
    /\ proc[p].pc = "sync"
    /\ \/ Goto(p, "rollback") /\ UNCHANGED disk
       \/ End(p, "ok") /\ disk' = dir
    /\ UNCHANGED <<dir, latest, losses>>

\* restore_previous_binary: the failed executable goes, if a copy is there.
RollbackRemove(p) ==
    /\ proc[p].pc = "rollback"
    /\ LET q == proc[p].target IN
       \/ End(p, "unrestored") /\ UNCHANGED dir
       \/ /\ proc[p].prev # Nothing => dir[Backup(q)] # Nothing
          /\ dir' = [dir EXCEPT ![q] = Nothing]
          /\ proc' = Moved([proc EXCEPT ![p].pc = IF proc[p].prev # Nothing THEN "restore"
                                                                           ELSE "syncrestore"],
                           q, "deleted")
    /\ UNCHANGED <<disk, latest, losses>>

RollbackRename(p) ==
    /\ proc[p].pc = "restore"
    /\ LET q == proc[p].target IN
       \/ End(p, "unrestored") /\ UNCHANGED dir
       \/ /\ dir[Backup(q)] # Nothing
          /\ dir' = Renamed(Backup(q), q)
          /\ proc' = Moved([proc EXCEPT ![p].pc = "syncrestore"], Backup(q), q)
    /\ UNCHANGED <<disk, latest, losses>>

RollbackSync(p) ==
    /\ proc[p].pc = "syncrestore"
    /\ \/ End(p, "unrestored") /\ disk' \in {disk, dir}     \* synchronized or not
       \/ /\ dir[proc[p].target] = proc[p].prev
          /\ End(p, "failed") /\ disk' = dir
    /\ UNCHANGED <<dir, latest, losses>>

-----------------------------------------------------------------------------
(* The world around *)

Release(v) ==
    /\ v # latest /\ latest' = v
    /\ UNCHANGED <<dir, disk, proc, losses>>

Killed(p) ==
    /\ proc[p].pc # "idle"
    /\ End(p, "none")
    /\ UNCHANGED <<dir, disk, latest, losses>>

PowerLoss ==
    /\ losses < MaxPowerLosses /\ losses' = losses + 1
    /\ dir' \in {dir, disk} /\ disk' = dir'
    /\ proc' = [p \in Procs |-> Ended("none")]
    /\ UNCHANGED latest

-----------------------------------------------------------------------------
Step(p) ==
    \/ AcquireLock(p) \/ Download(p) \/ VerifyChecksum(p) \/ ExtractVerified(p)
    \/ VerifyStagedStartup(p) \/ HashFiles(p) \/ BackupInstalled(p) \/ SyncBackup(p)
    \/ InstallStaged(p) \/ CheckInstalled(p) \/ SyncInstalled(p)
    \/ RollbackRemove(p) \/ RollbackRename(p) \/ RollbackSync(p)

Next ==
    /\ UNCHANGED follows
    /\ \/ \E p \in Procs : Start(p) \/ Step(p) \/ SwapStaged(p) \/ Killed(p)
       \/ \E v \in Versions : Release(v)
       \/ PowerLoss

Spec == Init /\ [][Next]_updateVars

-----------------------------------------------------------------------------
(* Properties *)

Returns(p, r) == proc[p].pc # "idle" /\ proc'[p].pc = "idle" /\ proc'[p].result = r

\* Wherever updates are killed, fail or fail to roll back, in memory and on
\* disk one of the two paths still holds an executable.  (Where current_exe
\* follows a renamed file it need not: the backup path may be the target.)
NeverLost ==
    \A d \in {dir, disk} : \E q \in {"installed", "previous"} : follows \/ d[q] # Nothing

\* The paths hold what they may, one command at a time, and something to start.
UpdaterInv == TypeOK /\ NeverLost

\* "every failed rename or verification must restore and verify the old binary
\* before returning an update error": the executable that was installed when
\* the lock was taken is installed.
Restored(p) == dir'["installed"] = proc[p].before

\* The release that was checked is installed, and stays so when the power fails.
InstalledDurably(p) == disk'[proc[p].target] = proc[p].digest

\* "retaining a local rollback copy": the executable an update of the installed
\* path replaced is in the backup path.
RollbackKept(p) ==
    proc[p].prev # Nothing /\ proc[p].target = "installed" => dir'["previous"] = proc[p].prev

\* What replace_binary answers is true, whatever other commands did, failed to
\* do or left behind when they were killed in between.
AnswerIsTrue ==
    [][\A p \in Procs :
          /\ Returns(p, "ok") => InstalledDurably(p) /\ RollbackKept(p)
          /\ Returns(p, "failed") /\ proc[p].pc # "started" => Restored(p)]_updateVars
=============================================================================
