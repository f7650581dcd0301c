---------------------------- MODULE UpdaterProofs ----------------------------
(***************************************************************************)
(* The invariants of the update command, for every number of commands and  *)
(* of releases, on both kinds of platform.                                 *)
(*                                                                         *)
(* Only the holder of the lock changes the directory, so the argument is   *)
(* about what the holder knows of the two paths at each of its steps:      *)
(* `Knows'.  A command that is killed leaves the paths as they are; what   *)
(* the next holder may then rely on is `Startable' alone.                  *)
(***************************************************************************)
EXTENDS Updater, FiniteSetTheorems, TLAPS

Command == [pc : Steps, cur : {0} \cup Versions, image : Paths,
            staged : Contents, digest : Contents, target : Paths,
            prev : Contents, before : Contents,
            result : {"none", "ok", "failed", "unrestored"}]

Types ==
    /\ dir \in [Paths -> Contents] /\ disk \in [Paths -> Contents]
    /\ proc \in [Procs -> Command]
    /\ latest \in Versions /\ losses \in 0 .. MaxPowerLosses /\ follows \in BOOLEAN

OneHolder ==
    \A p, q \in Procs : proc[p].pc \notin Unlocked /\ proc[q].pc \notin Unlocked => p = q

\* Something to start; f: current_exe follows a renamed file.
Startable(d, f) == f \/ d["installed"] # Nothing \/ d["previous"] # Nothing

Preparing == {"locked", "sums", "extract", "probe", "hash"}
Replacing == Steps \ (Preparing \cup Unlocked)

\* What the holder r of the lock knows of the paths d.
Knows(r, d, f) ==
    /\ r.pc \in Preparing => d["installed"] = r.before
    /\ r.pc \in Replacing =>
          /\ IF r.target = "installed" THEN r.prev = r.before ELSE d["installed"] = r.before
          /\ f \/ r.target = "installed"
    /\ r.pc \in {"hash", "backup", "syncbackup", "install"} => r.staged # Nothing
    /\ r.pc \in {"backup", "syncbackup"} => r.prev # Nothing
    /\ r.pc = "backup" => d[r.target] = r.prev
    /\ r.pc \in {"syncbackup", "install", "check", "sync"}
          /\ r.target = "installed" /\ r.prev # Nothing => d["previous"] = r.prev
    /\ r.pc \in {"install", "check", "sync", "rollback"}
          /\ r.prev = Nothing /\ ~f => d["previous"] # Nothing
    /\ r.pc = "sync" => d[r.target] = r.digest

HolderKnows == \A p \in Procs : Knows(proc[p], dir, follows)

UpInv ==
    Types /\ OneHolder /\ HolderKnows /\ Startable(dir, follows) /\ Startable(disk, follows)

-----------------------------------------------------------------------------
(* Lemmas about the operators of the model.                                 *)

\* Without the lock there is nothing to know.
LEMMA UnlockedKnows ==
    ASSUME NEW r, r.pc \in Unlocked
    PROVE  \A d, f : Knows(r, d, f)
BY DEF Knows, Unlocked, Preparing, Replacing

\* A command that ended holds no lock and has nothing to know.
LEMMA EndedFields ==
    ASSUME NEW r \in {"none", "ok", "failed", "unrestored"}
    PROVE  /\ Ended(r) \in Command /\ Ended(r).pc = "idle" /\ Ended(r).result = r
           /\ \A d, f : Knows(Ended(r), d, f)
<1>1. 0 \in Contents
  BY UpdaterAssumption DEF Contents, Other
<1>2. Ended(r) \in Command /\ Ended(r).pc = "idle" /\ Ended(r).result = r
  BY <1>1 DEF Ended, Command, Steps, Paths, Nothing
<1> QED BY <1>2, UnlockedKnows DEF Unlocked

\* The fields of a command and what the paths hold.
LEMMA CommandFields ==
    ASSUME Types, NEW p \in Procs
    PROVE  /\ proc[p] \in Command /\ proc[p].pc \in Steps /\ proc[p].image \in Paths
           /\ proc[p].target \in Paths /\ proc[p].staged \in Contents
           /\ proc[p].digest \in Contents /\ proc[p].prev \in Contents
           /\ proc[p].cur \in Nat
           /\ dir["installed"] \in Contents /\ dir["previous"] \in Contents
           /\ Other \in Contents /\ Other # Nothing /\ Nothing \in Contents
           /\ Versions \subseteq Contents /\ Contents \subseteq Nat
BY UpdaterAssumption DEF Types, Command, Paths, Other, Nothing, Versions, Contents

\* A rename leaves the fields of every command but the path of its executable.
LEMMA MovedFields ==
    ASSUME NEW ps \in [Procs -> Command], NEW q \in Paths, NEW r \in Paths
    PROVE  /\ Moved(ps, q, r) \in [Procs -> Command]
           /\ \A x \in Procs :
                 /\ Moved(ps, q, r)[x].pc = ps[x].pc
                 /\ \A d, f : Knows(ps[x], d, f) => Knows(Moved(ps, q, r)[x], d, f)
<1> SUFFICES ASSUME NEW x \in Procs
             PROVE  /\ Moved(ps, q, r)[x] \in Command
                    /\ Moved(ps, q, r)[x].pc = ps[x].pc
                    /\ \A d, f : Knows(ps[x], d, f) => Knows(Moved(ps, q, r)[x], d, f)
  BY DEF Moved
<1> DEFINE i == CASE ps[x].image = q /\ q # r -> r
                  [] ps[x].image = r /\ q # r -> "deleted"
                  [] OTHER -> ps[x].image
<1>1. ps[x] \in Command /\ ps[x].image \in Paths
  BY DEF Command
<1>2. i \in Paths
  BY <1>1 DEF Paths
<1>3. Moved(ps, q, r)[x] = [ps[x] EXCEPT !.image = i]
  BY DEF Moved
<1> HIDE DEF i
<1> DEFINE m == [ps[x] EXCEPT !.image = i]
<1>4. /\ m \in Command /\ m.pc = ps[x].pc /\ m.target = ps[x].target
      /\ m.prev = ps[x].prev /\ m.before = ps[x].before /\ m.staged = ps[x].staged
      /\ m.digest = ps[x].digest
  BY <1>1, <1>2 DEF Command
<1>5. Moved(ps, q, r)[x] = m
  BY <1>3
<1> HIDE DEF m
<1> QED BY <1>4, <1>5 DEF Knows

-----------------------------------------------------------------------------
(* The two shapes of a step of a command.                                   *)

\* A step that leaves the paths alone: the command knows what it has to, and
\* gets the lock only if it is free.
LEMMA QuietStep ==
    ASSUME UpInv, NEW p \in Procs, NEW r \in Command, proc' = [proc EXCEPT ![p] = r],
           UNCHANGED <<dir, latest, losses, follows>>, disk' \in {disk, dir},
           Knows(r, dir, follows),
           r.pc \in Unlocked \/ proc[p].pc \notin Unlocked \/ Free
    PROVE  UpInv'
<1>1. /\ proc' \in [Procs -> Command] /\ proc'[p] = r
      /\ \A x \in Procs : x # p => proc'[x] = proc[x]
  BY DEF UpInv, Types
<1>2. Types'
  BY <1>1 DEF UpInv, Types
<1>3. OneHolder'
  BY <1>1 DEF UpInv, OneHolder, Free
<1>4. HolderKnows'
  BY <1>1 DEF UpInv, HolderKnows
<1>5. Startable(dir', follows') /\ Startable(disk', follows')
  BY DEF UpInv
<1> QED BY <1>2, <1>3, <1>4, <1>5 DEF UpInv

\* A step that changes the paths: only the holder of the lock takes one.
LEMMA PathStep ==
    ASSUME UpInv, NEW p \in Procs, proc[p].pc \notin Unlocked, NEW r \in Command,
           NEW q \in Paths, NEW t \in Paths,
           proc' = Moved([proc EXCEPT ![p] = r], q, t),
           UNCHANGED <<disk, latest, losses, follows>>,
           dir' \in [Paths -> Contents], Startable(dir', follows),
           Knows(r, dir', follows)
    PROVE  UpInv'
<1>0. PICK ps \in [Procs -> Command] : ps = [proc EXCEPT ![p] = r]
  BY DEF UpInv, Types
<1>1. /\ ps[p] = r
      /\ \A x \in Procs : x # p => ps[x] = proc[x]
  BY <1>0 DEF UpInv, Types
<1>2. proc' = Moved(ps, q, t)
  BY <1>0
<1>3. /\ proc' \in [Procs -> Command]
      /\ \A x \in Procs : /\ proc'[x].pc = ps[x].pc
                          /\ \A d, f : Knows(ps[x], d, f) => Knows(proc'[x], d, f)
  <2>1. /\ Moved(ps, q, t) \in [Procs -> Command]
        /\ \A x \in Procs :
              /\ Moved(ps, q, t)[x].pc = ps[x].pc
              /\ \A d, f : Knows(ps[x], d, f) => Knows(Moved(ps, q, t)[x], d, f)
    BY MovedFields
  <2> HIDE DEF Moved
  <2> QED BY <1>2, <2>1
<1>4. \A x \in Procs : x # p => proc[x].pc \in Unlocked
  BY DEF UpInv, OneHolder
<1>5. Types'
  BY <1>3 DEF UpInv, Types
<1>6. OneHolder'
  BY <1>1, <1>3, <1>4 DEF OneHolder
<1>7. Knows(proc'[p], dir', follows')
  BY <1>1, <1>3
<1>8. \A x \in Procs : x # p => Knows(proc'[x], dir', follows')
  BY <1>1, <1>3, <1>4, UnlockedKnows
<1>9. HolderKnows'
  BY <1>7, <1>8 DEF HolderKnows
<1> QED BY <1>5, <1>6, <1>9 DEF UpInv

\* A command ends, with or without a sync of the directory.
LEMMA EndStep ==
    ASSUME UpInv, NEW p \in Procs, NEW r \in {"none", "ok", "failed", "unrestored"},
           End(p, r), UNCHANGED <<dir, latest, losses, follows>>, disk' \in {disk, dir}
    PROVE  UpInv'
BY EndedFields, QuietStep DEF End, Unlocked

\* A command goes on to its next step and leaves the paths alone.
LEMMA GotoStep ==
    ASSUME UpInv, NEW p \in Procs, NEW pc \in Steps, Goto(p, pc),
           proc[p].pc \notin Unlocked,
           UNCHANGED <<dir, latest, losses, follows>>, disk' \in {disk, dir},
           Knows([proc[p] EXCEPT !.pc = pc], dir, follows)
    PROVE  UpInv'
<1> DEFINE r == [proc[p] EXCEPT !.pc = pc]
<1>1. proc \in [Procs -> Command]
  BY DEF UpInv, Types
<1>2. r \in Command
  BY <1>1 DEF Command
<1>3. proc' = [proc EXCEPT ![p] = r]
  BY <1>1 DEF Goto
<1> QED BY <1>2, <1>3, QuietStep

-----------------------------------------------------------------------------
(* Up to the replacement.                                                   *)

\* What the holder of the lock knows, field by field.
LEMMA HolderFacts ==
    ASSUME UpInv, NEW p \in Procs
    PROVE  /\ Types /\ Knows(proc[p], dir, follows) /\ Startable(dir, follows)
           /\ proc \in [Procs -> Command] /\ dir \in [Paths -> Contents]
BY DEF UpInv, HolderKnows, Types

\* A command starts with the version of the running executable.
LEMMA StartStep ==
    ASSUME UpInv, NEW p \in Procs, Start(p), UNCHANGED follows
    PROVE  UpInv'
<1> DEFINE r == [Ended("none") EXCEPT !.pc = "started", !.cur = dir["installed"]]
<1>1. Ended("none") \in Command /\ dir["installed"] \in Versions
  BY EndedFields DEF Start
<1>2. r \in Command /\ r.pc = "started"
  BY <1>1 DEF Command, Steps
<1>3. proc' = [proc EXCEPT ![p] = r] /\ UNCHANGED <<dir, disk, latest, losses>>
  BY DEF Start
<1> HIDE DEF r
<1>4. Knows(r, dir, follows)
  BY <1>2, UnlockedKnows DEF Unlocked
<1> QED BY <1>2, <1>3, <1>4, QuietStep DEF Unlocked

\* The lock is taken when it is free, with a look at what is installed.
LEMMA LockStep ==
    ASSUME UpInv, NEW p \in Procs, AcquireLock(p), UNCHANGED follows
    PROVE  UpInv'
<1>0. proc \in [Procs -> Command] /\ UNCHANGED <<dir, disk, latest, losses>>
  BY HolderFacts DEF AcquireLock
<1>1. CASE Free
  <2> DEFINE r == [proc[p] EXCEPT !.pc = "locked", !.before = dir["installed"]]
  <2>1. r \in Command /\ r.pc = "locked" /\ r.before = dir["installed"]
    BY <1>0, HolderFacts, CommandFields DEF Command, Steps
  <2>2. proc' = [proc EXCEPT ![p] = r]
    BY <1>0, <1>1 DEF AcquireLock
  <2> HIDE DEF r
  <2>3. Knows(r, dir, follows)
    BY <2>1 DEF Knows, Replacing, Preparing
  <2> QED BY <1>0, <1>1, <2>1, <2>2, <2>3, QuietStep
<1>2. CASE ~Free
  BY <1>0, <1>2, EndStep DEF AcquireLock
<1> QED BY <1>1, <1>2

\* The downloads and their checks: a failure touches nothing.
LEMMA PrepareStep ==
    ASSUME UpInv, NEW p \in Procs, UNCHANGED follows,
           \/ Download(p) \/ VerifyChecksum(p) \/ ExtractVerified(p)
           \/ VerifyStagedStartup(p)
    PROVE  UpInv'
<1>0. /\ proc \in [Procs -> Command] /\ UNCHANGED <<dir, disk, latest, losses>>
      /\ Knows(proc[p], dir, follows)
  BY HolderFacts DEF Download, VerifyChecksum, ExtractVerified, VerifyStagedStartup
<1>f. /\ proc[p] \in Command /\ proc[p].digest \in Contents /\ latest \in Contents
      /\ proc[p].staged \in Nat /\ proc[p].cur \in Nat
  BY HolderFacts, CommandFields DEF Types
<1>1. CASE End(p, "failed")
  BY <1>0, <1>1, EndStep
<1>2. ASSUME NEW r \in Command, proc' = [proc EXCEPT ![p] = r],
             proc[p].pc \in Preparing, r.pc \in Preparing, r.before = proc[p].before,
             r.pc = "hash" => r.staged # Nothing
      PROVE  UpInv'
  <2>1. Knows(r, dir, follows)
    BY <1>0, <1>2 DEF Knows, Preparing, Replacing
  <2> QED BY <1>0, <1>2, <2>1, QuietStep DEF Preparing, Unlocked
<1>3. CASE proc[p].pc = "locked" /\
           proc' = [proc EXCEPT ![p].pc = "sums", ![p].digest = latest]
  <2> DEFINE r == [proc[p] EXCEPT !.pc = "sums", !.digest = latest]
  <2>1. r \in Command /\ r.pc = "sums" /\ r.before = proc[p].before
    BY <1>f DEF Command, Steps
  <2>2. proc' = [proc EXCEPT ![p] = r]
    BY <1>0, <1>3
  <2> HIDE DEF r
  <2> QED BY <1>2, <1>3, <2>1, <2>2 DEF Preparing
<1>4. CASE proc[p].pc = "sums" /\ Goto(p, "extract")
  <2> DEFINE r == [proc[p] EXCEPT !.pc = "extract"]
  <2>1. r \in Command /\ r.pc = "extract" /\ r.before = proc[p].before
    BY <1>f DEF Command, Steps
  <2>2. proc' = [proc EXCEPT ![p] = r]
    BY <1>0, <1>4 DEF Goto
  <2> HIDE DEF r
  <2> QED BY <1>2, <1>4, <2>1, <2>2 DEF Preparing
<1>5. CASE proc[p].pc = "extract" /\
           proc' = [proc EXCEPT ![p].pc = "probe", ![p].staged = proc[p].digest]
  <2> DEFINE r == [proc[p] EXCEPT !.pc = "probe", !.staged = proc[p].digest]
  <2>1. r \in Command /\ r.pc = "probe" /\ r.before = proc[p].before
    BY <1>f DEF Command, Steps
  <2>2. proc' = [proc EXCEPT ![p] = r]
    BY <1>0, <1>5
  <2> HIDE DEF r
  <2> QED BY <1>2, <1>5, <2>1, <2>2 DEF Preparing
<1>6. CASE proc[p].pc = "probe" /\ proc[p].staged > proc[p].cur /\ Goto(p, "hash")
  <2> DEFINE r == [proc[p] EXCEPT !.pc = "hash"]
  <2>1. /\ r \in Command /\ r.pc = "hash" /\ r.before = proc[p].before
        /\ r.staged = proc[p].staged
    BY <1>f DEF Command, Steps
  <2>2. proc' = [proc EXCEPT ![p] = r]
    BY <1>0, <1>6 DEF Goto
  <2> HIDE DEF r
  <2>3. r.staged # Nothing
    BY <1>f, <1>6, <2>1 DEF Nothing
  <2> QED BY <1>2, <1>6, <2>1, <2>2, <2>3 DEF Preparing
<1> QED BY <1>1, <1>3, <1>4, <1>5, <1>6
        DEF Download, VerifyChecksum, ExtractVerified, VerifyStagedStartup

-----------------------------------------------------------------------------
(* replace_binary.                                                          *)

\* The fields that Knows is about, in a command r made from command c.
SameFields(r, c) ==
    /\ r.target = c.target /\ r.prev = c.prev /\ r.before = c.before /\ r.digest = c.digest

\* The steps in which the holder does not touch the paths.
LEMMA GotoFields ==
    ASSUME UpInv, NEW p \in Procs, NEW pc \in Steps
    PROVE  LET r == [proc[p] EXCEPT !.pc = pc]
           IN  r \in Command /\ r.pc = pc /\ SameFields(r, proc[p])
               /\ r.staged = proc[p].staged /\ [proc EXCEPT ![p].pc = pc] = [proc EXCEPT ![p] = r]
BY HolderFacts DEF Command, SameFields

\* The target is chosen: what it holds is what a rollback has to restore.
LEMMA HashStep ==
    ASSUME UpInv, NEW p \in Procs, HashFiles(p), UNCHANGED follows
    PROVE  UpInv'
<1> DEFINE q == Target(p)
           pc == IF dir[q] = Nothing THEN "install" ELSE "backup"
           r == [proc[p] EXCEPT !.target = q, !.digest = proc[p].staged, !.prev = dir[q],
                                !.pc = pc]
<1>0. /\ proc \in [Procs -> Command] /\ UNCHANGED <<dir, disk, latest, losses>>
      /\ Knows(proc[p], dir, follows) /\ Startable(dir, follows) /\ proc[p].pc = "hash"
      /\ dir \in [Paths -> Contents]
  BY HolderFacts DEF HashFiles
<1>f. /\ proc[p] \in Command /\ proc[p].staged \in Contents /\ proc[p].image \in Paths
  BY HolderFacts, CommandFields
<1>1. CASE End(p, "failed")
  BY <1>0, <1>1, EndStep
<1>2. CASE proc' = [proc EXCEPT ![p].target = q, ![p].digest = proc[p].staged,
                                ![p].prev = dir[q], ![p].pc = pc]
  <2>1. q \in Paths /\ (follows \/ q = "installed")
    BY <1>f DEF Target, Paths
  <2>2. dir[q] \in Contents /\ pc \in Steps
    BY <1>0, <2>1 DEF Steps
  <2>3. /\ r \in Command /\ r.pc = pc /\ r.target = q /\ r.prev = dir[q]
        /\ r.before = proc[p].before /\ r.staged = proc[p].staged
    BY <1>f, <2>1, <2>2 DEF Command
  <2>4. proc' = [proc EXCEPT ![p] = r]
    BY <1>0, <1>2
  <2>5. /\ pc \in {"install", "backup"} /\ (pc = "install" <=> dir[q] = Nothing)
    OBVIOUS
  <2> HIDE DEF r, q, pc
  <2>6. dir["installed"] = proc[p].before /\ proc[p].staged # Nothing
    BY <1>0 DEF Knows, Preparing
  <2>7. dir[q] = Nothing /\ ~follows => dir["previous"] # Nothing
    BY <1>0, <2>1 DEF Startable
  <2>8. Knows(r, dir, follows)
    BY <2>1, <2>3, <2>5, <2>6, <2>7 DEF Knows, Preparing, Replacing, Unlocked
  <2> QED BY <1>0, <2>3, <2>4, <2>8, QuietStep DEF Unlocked
<1> QED BY <1>1, <1>2 DEF HashFiles

\* Whoever replaces the staged file puts some file there.
LEMMA SwapStep ==
    ASSUME UpInv, NEW p \in Procs, SwapStaged(p), UNCHANGED follows
    PROVE  UpInv'
<1> DEFINE r == [proc[p] EXCEPT !.staged = Other]
<1>0. /\ proc \in [Procs -> Command] /\ UNCHANGED <<dir, disk, latest, losses>>
      /\ Knows(proc[p], dir, follows)
      /\ proc[p].pc \in {"backup", "syncbackup", "install"}
  BY HolderFacts DEF SwapStaged
<1>f. proc[p] \in Command /\ Other \in Contents /\ Other # Nothing
  BY HolderFacts, CommandFields
<1>1. /\ r \in Command /\ r.pc = proc[p].pc /\ r.staged = Other /\ SameFields(r, proc[p])
  BY <1>f DEF Command, SameFields
<1>2. proc' = [proc EXCEPT ![p] = r]
  BY <1>0 DEF SwapStaged
<1> HIDE DEF r
<1>3. Knows(r, dir, follows)
  BY <1>0, <1>f, <1>1 DEF Knows, SameFields
<1> QED BY <1>0, <1>1, <1>2, <1>3, QuietStep DEF Unlocked

\* The installed executable becomes the backup.
LEMMA BackupStep ==
    ASSUME UpInv, NEW p \in Procs, BackupInstalled(p), UNCHANGED follows
    PROVE  UpInv'
<1> DEFINE q == proc[p].target
           r == [proc[p] EXCEPT !.pc = "syncbackup"]
<1>0. /\ proc \in [Procs -> Command] /\ UNCHANGED <<disk, latest, losses>>
      /\ Knows(proc[p], dir, follows) /\ proc[p].pc = "backup"
      /\ dir \in [Paths -> Contents] /\ Startable(dir, follows)
  BY HolderFacts DEF BackupInstalled
<1>f. proc[p] \in Command /\ q \in Paths /\ Backup(q) \in Paths /\ Nothing \in Contents
  BY HolderFacts, CommandFields DEF Backup, Paths
<1>1. CASE End(p, "failed") /\ UNCHANGED dir
  BY <1>0, <1>1, EndStep
<1>2. CASE /\ dir' = Renamed(q, Backup(q))
           /\ proc' = Moved([proc EXCEPT ![p].pc = "syncbackup"], q, Backup(q))
  <2>1. /\ r \in Command /\ r.pc = "syncbackup" /\ SameFields(r, proc[p])
        /\ r.staged = proc[p].staged /\ [proc EXCEPT ![p].pc = "syncbackup"] = [proc EXCEPT ![p] = r]
    BY GotoFields DEF Steps
  <2>2. proc' = Moved([proc EXCEPT ![p] = r], q, Backup(q))
    BY <1>2, <2>1
  <2> HIDE DEF r
  <2>3. /\ dir' \in [Paths -> Contents]
        /\ q = "installed" => dir'["previous"] = dir["installed"]
        /\ q # "installed" => dir' = dir
    BY <1>0, <1>2, <1>f DEF Renamed, Backup, Paths
  <2>4. /\ proc[p].prev # Nothing /\ dir[q] = proc[p].prev /\ proc[p].staged # Nothing
        /\ IF q = "installed" THEN proc[p].prev = proc[p].before
                              ELSE dir["installed"] = proc[p].before
        /\ follows \/ q = "installed"
    BY <1>0 DEF Knows, Replacing, Preparing, Unlocked, Steps
  <2>5. Knows(r, dir', follows)
    BY <2>1, <2>3, <2>4 DEF Knows, SameFields, Preparing
  <2>6. Startable(dir', follows)
    BY <1>0, <2>3, <2>4 DEF Startable
  <2> QED BY <1>0, <1>f, <2>1, <2>2, <2>3, <2>5, <2>6, PathStep DEF Unlocked
<1> QED BY <1>1, <1>2 DEF BackupInstalled

\* The staged executable gets the path of the installed one.
LEMMA InstallStep ==
    ASSUME UpInv, NEW p \in Procs, InstallStaged(p), UNCHANGED follows
    PROVE  UpInv'
<1> DEFINE q == proc[p].target
           r == [proc[p] EXCEPT !.pc = "check", !.staged = Nothing]
           s == [proc[p] EXCEPT !.pc = "rollback"]
<1>0. /\ proc \in [Procs -> Command] /\ UNCHANGED <<disk, latest, losses>>
      /\ Knows(proc[p], dir, follows) /\ proc[p].pc = "install"
      /\ dir \in [Paths -> Contents] /\ Startable(dir, follows)
  BY HolderFacts DEF InstallStaged
<1>f. /\ proc[p] \in Command /\ q \in Paths /\ Nothing \in Contents
      /\ proc[p].staged \in Contents /\ "deleted" \in Paths
  BY HolderFacts, CommandFields DEF Paths
<1>k. /\ proc[p].staged # Nothing
      /\ IF q = "installed" THEN proc[p].prev = proc[p].before
                            ELSE dir["installed"] = proc[p].before
      /\ follows \/ q = "installed"
      /\ q = "installed" /\ proc[p].prev # Nothing => dir["previous"] = proc[p].prev
      /\ proc[p].prev = Nothing /\ ~follows => dir["previous"] # Nothing
  BY <1>0 DEF Knows, Replacing, Preparing, Unlocked, Steps
<1>1. CASE Goto(p, "rollback") /\ UNCHANGED dir
  <2>1. s \in Command /\ s.pc = "rollback" /\ SameFields(s, proc[p])
    BY GotoFields DEF Steps
  <2> HIDE DEF s
  <2>2. Knows(s, dir, follows)
    BY <1>k, <2>1 DEF Knows, SameFields, Preparing
  <2> QED BY <1>0, <1>1, <2>2, GotoStep DEF Steps, Unlocked, s
<1>2. CASE /\ dir' = [dir EXCEPT ![q] = proc[p].staged]
           /\ proc' = Moved([proc EXCEPT ![p].pc = "check", ![p].staged = Nothing],
                            q, "deleted")
  <2>1. r \in Command /\ r.pc = "check" /\ SameFields(r, proc[p])
    BY <1>f DEF Command, SameFields, Steps
  <2>2. [proc EXCEPT ![p].pc = "check", ![p].staged = Nothing] = [proc EXCEPT ![p] = r]
    BY <1>0
  <2>3. proc' = Moved([proc EXCEPT ![p] = r], q, "deleted")
    BY <1>2, <2>2
  <2> HIDE DEF r
  <2>4. /\ dir' \in [Paths -> Contents] /\ dir'[q] = proc[p].staged
        /\ q # "installed" => dir'["installed"] = dir["installed"]
        /\ q = "installed" => dir'["previous"] = dir["previous"]
    BY <1>0, <1>2, <1>f DEF Paths
  <2>5. Knows(r, dir', follows)
    BY <1>k, <2>1, <2>4 DEF Knows, SameFields, Preparing
  <2>6. Startable(dir', follows)
    BY <1>k, <2>4 DEF Startable
  <2> QED BY <1>0, <1>f, <2>1, <2>3, <2>4, <2>5, <2>6, PathStep DEF Unlocked
<1> QED BY <1>1, <1>2 DEF InstallStaged

\* The syncs and the check: success needs the right content in place.
LEMMA SyncStep ==
    ASSUME UpInv, NEW p \in Procs, UNCHANGED follows,
           SyncBackup(p) \/ CheckInstalled(p) \/ SyncInstalled(p)
    PROVE  UpInv'
<1>0. /\ UNCHANGED <<dir, latest, losses>> /\ disk' \in {disk, dir}
      /\ Knows(proc[p], dir, follows)
      /\ proc[p].pc \in {"syncbackup", "check", "sync"}
  BY HolderFacts DEF SyncBackup, CheckInstalled, SyncInstalled
<1>1. CASE End(p, "ok")
  BY <1>0, <1>1, EndStep
<1>2. ASSUME NEW pc \in {"rollback", "install", "sync"}, Goto(p, pc),
             pc = "install" => proc[p].pc = "syncbackup",
             pc = "sync" => proc[p].pc = "check" /\ dir[proc[p].target] = proc[p].digest
      PROVE  UpInv'
  <2> DEFINE r == [proc[p] EXCEPT !.pc = pc]
  <2>0. pc \in Steps
    BY <1>2 DEF Steps
  <2>1. /\ r \in Command /\ r.pc = pc /\ SameFields(r, proc[p])
        /\ r.staged = proc[p].staged
    BY <2>0, GotoFields
  <2> HIDE DEF r
  <2>2. Knows(r, dir, follows)
    BY <1>0, <1>2, <2>1 DEF Knows, SameFields, Preparing, Replacing, Unlocked, Steps
  <2> QED BY <1>0, <1>2, <2>2, GotoStep DEF Steps, Unlocked, r
<1> QED BY <1>1, <1>2 DEF SyncBackup, CheckInstalled, SyncInstalled

\* The rollback removes the new executable only if the old one is there.
LEMMA RemoveStep ==
    ASSUME UpInv, NEW p \in Procs, RollbackRemove(p), UNCHANGED follows
    PROVE  UpInv'
<1> DEFINE q == proc[p].target
           pc == IF proc[p].prev # Nothing THEN "restore" ELSE "syncrestore"
           r == [proc[p] EXCEPT !.pc = pc]
<1>0. /\ proc \in [Procs -> Command] /\ UNCHANGED <<disk, latest, losses>>
      /\ Knows(proc[p], dir, follows) /\ proc[p].pc = "rollback"
      /\ dir \in [Paths -> Contents] /\ Startable(dir, follows)
  BY HolderFacts DEF RollbackRemove
<1>f. proc[p] \in Command /\ q \in Paths /\ Nothing \in Contents /\ "deleted" \in Paths
  BY HolderFacts, CommandFields DEF Paths
<1>1. CASE End(p, "unrestored") /\ UNCHANGED dir
  BY <1>0, <1>1, EndStep
<1>2. CASE /\ proc[p].prev # Nothing => dir[Backup(q)] # Nothing
           /\ dir' = [dir EXCEPT ![q] = Nothing]
           /\ proc' = Moved([proc EXCEPT ![p].pc = pc], q, "deleted")
  <2>0. pc \in Steps /\ pc \in {"restore", "syncrestore"}
    BY DEF Steps
  <2> HIDE DEF pc
  <2>1. /\ r \in Command /\ r.pc = pc /\ SameFields(r, proc[p])
        /\ [proc EXCEPT ![p].pc = pc] = [proc EXCEPT ![p] = r]
    BY <2>0, GotoFields
  <2>2. proc' = Moved([proc EXCEPT ![p] = r], q, "deleted")
    BY <1>2, <2>1
  <2> HIDE DEF r
  <2>3. /\ dir' \in [Paths -> Contents]
        /\ q # "installed" => dir'["installed"] = dir["installed"]
        /\ q = "installed" => dir'["previous"] = dir["previous"]
    BY <1>0, <1>2, <1>f DEF Paths
  <2>4. /\ IF q = "installed" THEN proc[p].prev = proc[p].before
                              ELSE dir["installed"] = proc[p].before
        /\ follows \/ q = "installed"
        /\ proc[p].prev = Nothing /\ ~follows => dir["previous"] # Nothing
    BY <1>0 DEF Knows, Replacing, Preparing, Unlocked, Steps
  <2>5. Knows(r, dir', follows)
    BY <2>0, <2>1, <2>3, <2>4 DEF Knows, SameFields, Preparing
  <2>6. Startable(dir', follows)
    BY <1>2, <2>3, <2>4 DEF Startable, Backup
  <2> QED BY <1>0, <1>f, <2>1, <2>2, <2>3, <2>5, <2>6, PathStep DEF Unlocked
<1> QED BY <1>1, <1>2 DEF RollbackRemove

\* The backup gets its old path again.
LEMMA RenameStep ==
    ASSUME UpInv, NEW p \in Procs, RollbackRename(p), UNCHANGED follows
    PROVE  UpInv'
<1> DEFINE q == proc[p].target
           r == [proc[p] EXCEPT !.pc = "syncrestore"]
<1>0. /\ proc \in [Procs -> Command] /\ UNCHANGED <<disk, latest, losses>>
      /\ Knows(proc[p], dir, follows) /\ proc[p].pc = "restore"
      /\ dir \in [Paths -> Contents] /\ Startable(dir, follows)
  BY HolderFacts DEF RollbackRename
<1>f. proc[p] \in Command /\ q \in Paths /\ Backup(q) \in Paths /\ Nothing \in Contents
  BY HolderFacts, CommandFields DEF Backup, Paths
<1>1. CASE End(p, "unrestored") /\ UNCHANGED dir
  BY <1>0, <1>1, EndStep
<1>2. CASE /\ dir[Backup(q)] # Nothing /\ dir' = Renamed(Backup(q), q)
           /\ proc' = Moved([proc EXCEPT ![p].pc = "syncrestore"], Backup(q), q)
  <2>1. /\ r \in Command /\ r.pc = "syncrestore" /\ SameFields(r, proc[p])
        /\ [proc EXCEPT ![p].pc = "syncrestore"] = [proc EXCEPT ![p] = r]
    BY GotoFields DEF Steps
  <2>2. proc' = Moved([proc EXCEPT ![p] = r], Backup(q), q)
    BY <1>2, <2>1
  <2> HIDE DEF r
  <2>3. /\ dir' \in [Paths -> Contents]
        /\ q = "installed" => dir'["installed"] # Nothing
        /\ q # "installed" => dir' = dir
    BY <1>0, <1>2, <1>f DEF Renamed, Backup, Paths
  <2>4. /\ IF q = "installed" THEN proc[p].prev = proc[p].before
                              ELSE dir["installed"] = proc[p].before
        /\ follows \/ q = "installed"
    BY <1>0 DEF Knows, Replacing, Preparing, Unlocked, Steps
  <2>5. Knows(r, dir', follows)
    BY <2>1, <2>3, <2>4 DEF Knows, SameFields, Preparing
  <2>6. Startable(dir', follows)
    BY <1>0, <2>3 DEF Startable
  <2> QED BY <1>0, <1>f, <2>1, <2>2, <2>3, <2>5, <2>6, PathStep DEF Unlocked
<1> QED BY <1>1, <1>2 DEF RollbackRename

\* The rollback ends, verified or not.
LEMMA RestoredStep ==
    ASSUME UpInv, NEW p \in Procs, RollbackSync(p), UNCHANGED follows
    PROVE  UpInv'
BY EndStep DEF RollbackSync

-----------------------------------------------------------------------------
(* The world around.                                                        *)

\* A command that is killed leaves the paths as they are.
LEMMA KilledStep ==
    ASSUME UpInv, NEW p \in Procs, Killed(p), UNCHANGED follows
    PROVE  UpInv'
BY EndStep DEF Killed

\* A power loss keeps the directory of now or that of the last sync.
LEMMA PowerStep ==
    ASSUME UpInv, PowerLoss, UNCHANGED follows
    PROVE  UpInv'
<1>1. /\ proc' = [p \in Procs |-> Ended("none")] /\ disk' = dir' /\ dir' \in {dir, disk}
      /\ UNCHANGED <<latest, follows>> /\ losses' \in 0 .. MaxPowerLosses
  BY UpdaterAssumption DEF PowerLoss, UpInv, Types
<1>2. \A p \in Procs : /\ proc'[p] \in Command /\ proc'[p].pc = "idle"
                       /\ Knows(proc'[p], dir', follows')
  BY <1>1, EndedFields
<1>3. Types'
  BY <1>1, <1>2 DEF UpInv, Types
<1>4. OneHolder' /\ HolderKnows'
  BY <1>2 DEF OneHolder, HolderKnows, Unlocked
<1>5. Startable(dir', follows') /\ Startable(disk', follows')
  BY <1>1 DEF UpInv
<1> QED BY <1>3, <1>4, <1>5 DEF UpInv

\* Another release appears, or nothing happens.
LEMMA ReleaseStep ==
    ASSUME UpInv, UNCHANGED <<dir, disk, proc, losses, follows>>, latest' \in Versions
    PROVE  UpInv'
BY DEF UpInv, Types, OneHolder, HolderKnows

-----------------------------------------------------------------------------
(* The theorems.                                                            *)

\* One release is installed and no command runs.
LEMMA UpInitial == Init => UpInv
<1> SUFFICES ASSUME Init PROVE UpInv
  OBVIOUS
<1>1. 1 \in Contents /\ Nothing \in Contents /\ 1 # Nothing
  BY UpdaterAssumption DEF Contents, Nothing, Other
<1>2. \A p \in Procs : /\ proc[p] \in Command /\ proc[p].pc = "idle"
                       /\ Knows(proc[p], dir, follows)
  BY EndedFields DEF Init
<1>3. Types
  BY <1>1, <1>2, UpdaterAssumption DEF Init, Types
<1>4. OneHolder /\ HolderKnows
  BY <1>2 DEF OneHolder, HolderKnows, Unlocked
<1>5. Startable(dir, follows) /\ Startable(disk, follows)
  BY <1>1 DEF Init, Startable, Paths
<1> QED BY <1>3, <1>4, <1>5 DEF UpInv

\* A step of the specification is a step of one of the lemmas.
LEMMA UpStep == UpInv /\ [Next]_updateVars => UpInv'
<1> SUFFICES ASSUME UpInv, [Next]_updateVars PROVE UpInv'
  OBVIOUS
<1>1. CASE UNCHANGED updateVars
  BY <1>1, ReleaseStep DEF updateVars, UpInv, Types
<1>2. ASSUME NEW p \in Procs, Step(p), UNCHANGED follows PROVE UpInv'
  BY <1>2, LockStep, PrepareStep, HashStep, BackupStep, SyncStep, InstallStep, RemoveStep,
     RenameStep, RestoredStep DEF Step
<1>3. ASSUME NEW p \in Procs, Start(p) \/ SwapStaged(p) \/ Killed(p), UNCHANGED follows
      PROVE  UpInv'
  BY <1>3, StartStep, SwapStep, KilledStep
<1>4. ASSUME NEW v \in Versions, Release(v), UNCHANGED follows PROVE UpInv'
  BY <1>4, ReleaseStep DEF Release
<1>5. CASE PowerLoss /\ UNCHANGED follows
  BY <1>5, PowerStep
<1> QED BY <1>1, <1>2, <1>3, <1>4, <1>5 DEF Next

\* The holder of the lock knows what the paths hold, whatever other commands
\* left there when they were killed.
THEOREM UpdaterInvariant == Spec => []UpInv
BY UpInitial, UpStep, PTL DEF Spec

\* One command at a time replaces the executable, and wherever it is killed,
\* fails or fails to roll back, and the power with it, one of the two paths
\* still holds an executable to start.
THEOREM UpdaterNeverLost == Spec => []UpdaterInv
<1>1. UpInv => UpdaterInv
  <2> SUFFICES ASSUME UpInv PROVE UpdaterInv
    OBVIOUS
  <2> DEFINE H == {p \in Procs : proc[p].pc \notin Unlocked}
  <2>1. Cardinality(H) <= 1
    <3>1. CASE H = {}
      BY <3>1, FS_EmptySet
    <3>2. ASSUME NEW p \in Procs, H = {p} PROVE Cardinality(H) <= 1
      <4>1. Cardinality({p}) = 1
        BY FS_Singleton
      <4> QED BY <3>2, <4>1
    <3>3. \A p, q \in H : p = q
      BY DEF UpInv, OneHolder
    <3> HIDE DEF H
    <3>4. H \subseteq Procs
      BY DEF H
    <3> QED BY <3>1, <3>2, <3>3, <3>4
  <2>2. TypeOK
    BY <2>1 DEF UpInv, Types, TypeOK, Command
  <2>3. NeverLost
    BY DEF UpInv, Startable, NeverLost
  <2> QED BY <2>2, <2>3 DEF UpdaterInv
<1> QED BY <1>1, UpdaterInvariant, PTL

\* A command returns with an answer only in a step of its own.
LEMMA ReturnsOwnStep ==
    ASSUME UpInv, Next, NEW p \in Procs, NEW r \in {"ok", "failed"}, Returns(p, r)
    PROVE  Step(p)
<1>0. /\ proc \in [Procs -> Command] /\ proc[p].pc # "idle" /\ proc'[p].pc = "idle"
      /\ proc'[p].result \in {"ok", "failed"}
  BY HolderFacts DEF Returns
<1>1. ASSUME NEW x \in Procs, Start(x) PROVE FALSE
  BY <1>0, <1>1, EndedFields DEF Start, Command
<1>2. ASSUME NEW x \in Procs, SwapStaged(x) PROVE FALSE
  BY <1>0, <1>2 DEF SwapStaged, Command
<1>3. ASSUME NEW x \in Procs, Killed(x) PROVE FALSE
  BY <1>0, <1>3, EndedFields DEF Killed, End
<1>4. ASSUME PowerLoss PROVE FALSE
  BY <1>0, <1>4, EndedFields DEF PowerLoss
<1>5. ASSUME NEW v \in Versions, Release(v) PROVE FALSE
  BY <1>0, <1>5 DEF Release
<1>6. ASSUME NEW x \in Procs, x # p, Step(x) PROVE proc'[p].pc = proc[p].pc
  <2>1. ASSUME NEW ps, NEW q, NEW t, ps[p] = proc[p] PROVE Moved(ps, q, t)[p].pc = proc[p].pc
    <3>1. PICK i : Moved(ps, q, t)[p] = [proc[p] EXCEPT !.image = i]
      BY <2>1 DEF Moved
    <3> QED BY <1>0, <3>1 DEF Command
  <2> HIDE DEF Moved
  <2>2. CASE BackupInstalled(x) \/ InstallStaged(x) \/ RollbackRemove(x) \/ RollbackRename(x)
    <3>1. ASSUME NEW c PROVE /\ [proc EXCEPT ![x] = c][p] = proc[p]
                             /\ [proc EXCEPT ![x].pc = c][p] = proc[p]
                             /\ [proc EXCEPT ![x].pc = c, ![x].staged = Nothing][p] = proc[p]
      BY <1>0, <1>6
    <3>2. ASSUME NEW c, NEW q, NEW t,
                 \/ proc' = Moved([proc EXCEPT ![x].pc = c], q, t)
                 \/ proc' = Moved([proc EXCEPT ![x].pc = c, ![x].staged = Nothing], q, t)
          PROVE  proc'[p].pc = proc[p].pc
      <4>1. CASE proc' = Moved([proc EXCEPT ![x].pc = c], q, t)
        <5>1. PICK ps : ps = [proc EXCEPT ![x].pc = c]
          OBVIOUS
        <5>2. ps[p] = proc[p]
          BY <3>1, <5>1
        <5>3. proc' = Moved(ps, q, t)
          BY <4>1, <5>1
        <5> QED BY <2>1, <5>2, <5>3
      <4>2. CASE proc' = Moved([proc EXCEPT ![x].pc = c, ![x].staged = Nothing], q, t)
        <5>1. PICK ps : ps = [proc EXCEPT ![x].pc = c, ![x].staged = Nothing]
          OBVIOUS
        <5>2. ps[p] = proc[p]
          BY <3>1, <5>1
        <5>3. proc' = Moved(ps, q, t)
          BY <4>2, <5>1
        <5> QED BY <2>1, <5>2, <5>3
      <4> QED BY <3>2, <4>1, <4>2
    <3>3. ASSUME NEW c, End(x, c) \/ Goto(x, c) PROVE proc'[p].pc = proc[p].pc
      BY <3>1, <3>3 DEF End, Goto
    <3> HIDE DEF End, Goto
    <3>4. CASE BackupInstalled(x)
      BY <3>2, <3>3, <3>4 DEF BackupInstalled
    <3>5. CASE InstallStaged(x)
      BY <3>2, <3>3, <3>5 DEF InstallStaged
    <3>6. CASE RollbackRemove(x)
      <4> DEFINE c == IF proc[x].prev # Nothing THEN "restore" ELSE "syncrestore"
      <4>1. \/ End(x, "unrestored")
            \/ proc' = Moved([proc EXCEPT ![x].pc = c], proc[x].target, "deleted")
        BY <3>6 DEF RollbackRemove
      <4> HIDE DEF c
      <4> QED BY <3>2, <3>3, <4>1
    <3>7. CASE RollbackRename(x)
      BY <3>2, <3>3, <3>7 DEF RollbackRename
    <3> QED BY <2>2, <3>4, <3>5, <3>6, <3>7
  <2>3. CASE \/ AcquireLock(x) \/ Download(x) \/ VerifyChecksum(x) \/ ExtractVerified(x)
             \/ VerifyStagedStartup(x) \/ HashFiles(x) \/ SyncBackup(x)
             \/ CheckInstalled(x) \/ SyncInstalled(x) \/ RollbackSync(x)
    BY <1>0, <1>6, <2>3
       DEF AcquireLock, Download, VerifyChecksum, ExtractVerified, VerifyStagedStartup,
           HashFiles, SyncBackup, CheckInstalled, SyncInstalled, RollbackSync, End, Goto
  <2> QED BY <1>6, <2>2, <2>3 DEF Step
<1> QED BY <1>0, <1>1, <1>2, <1>3, <1>4, <1>5, <1>6 DEF Next

\* Where a command answers, and what it has seen by then.
LEMMA ReturnsOnly ==
    ASSUME UpInv, Next, NEW p \in Procs
    PROVE  /\ Returns(p, "ok") => proc[p].pc = "sync" /\ disk' = dir /\ UNCHANGED dir
           /\ Returns(p, "failed") =>
                 \/ proc[p].pc = "started"
                 \/ proc[p].pc \in Preparing \cup {"backup"} /\ UNCHANGED dir
                 \/ /\ proc[p].pc = "syncrestore" /\ dir[proc[p].target] = proc[p].prev
                    /\ UNCHANGED dir
<1> SUFFICES ASSUME NEW r \in {"ok", "failed"}, Returns(p, r)
             PROVE  \/ /\ r = "ok" /\ proc[p].pc = "sync" /\ disk' = dir /\ UNCHANGED dir
                    \/ /\ r = "failed"
                       /\ \/ proc[p].pc = "started"
                          \/ proc[p].pc \in Preparing \cup {"backup"} /\ UNCHANGED dir
                          \/ /\ proc[p].pc = "syncrestore"
                             /\ dir[proc[p].target] = proc[p].prev /\ UNCHANGED dir
  BY Zenon
<1>0. /\ proc \in [Procs -> Command] /\ proc'[p].pc = "idle" /\ proc'[p].result = r
      /\ Step(p) /\ Types
  BY HolderFacts, ReturnsOwnStep DEF Returns
<1>e. \A s \in {"ok", "failed", "unrestored"} : End(p, s) => r = s
  BY <1>0, EndedFields DEF End
<1>g. \A pc \in Steps \ {"idle"} : ~Goto(p, pc)
  BY <1>0 DEF Goto, Command
<1>m. ASSUME NEW ps, NEW q, NEW t, proc' = Moved(ps, q, t), ps[p] \in Command,
             ps[p].pc # "idle"
      PROVE  FALSE
  <2>1. PICK i : Moved(ps, q, t)[p] = [ps[p] EXCEPT !.image = i]
    BY DEF Moved
  <2> QED BY <1>0, <1>m, <2>1 DEF Command
<1>f. proc[p] \in Command /\ Nothing \in Contents
  BY <1>0, CommandFields
<1> HIDE DEF Moved, End, Goto
<1>1. CASE AcquireLock(p) \/ Download(p) \/ VerifyChecksum(p)
  <2>1. End(p, "failed")
    BY <1>0, <1>1, <1>g DEF AcquireLock, Download, VerifyChecksum, Steps, Command
  <2> QED BY <1>1, <1>e, <2>1 DEF AcquireLock, Download, VerifyChecksum, Preparing
<1>2. CASE ExtractVerified(p) \/ VerifyStagedStartup(p) \/ HashFiles(p)
  <2>1. End(p, "failed")
    BY <1>0, <1>2, <1>g DEF ExtractVerified, VerifyStagedStartup, HashFiles, Steps, Command
  <2> QED BY <1>2, <1>e, <2>1 DEF ExtractVerified, VerifyStagedStartup, HashFiles, Preparing
<1>3. CASE BackupInstalled(p)
  <2>1. [proc EXCEPT ![p].pc = "syncbackup"][p] \in Command
        /\ [proc EXCEPT ![p].pc = "syncbackup"][p].pc # "idle"
    BY <1>0, <1>f DEF Command, Steps
  <2>2. End(p, "failed") /\ UNCHANGED dir
    BY <1>3, <1>m, <2>1 DEF BackupInstalled
  <2> QED BY <1>3, <1>e, <2>2 DEF BackupInstalled
<1>4. CASE InstallStaged(p)
  <2>1. [proc EXCEPT ![p].pc = "check", ![p].staged = Nothing][p] \in Command
        /\ [proc EXCEPT ![p].pc = "check", ![p].staged = Nothing][p].pc # "idle"
    BY <1>0, <1>f DEF Command, Steps
  <2> QED BY <1>4, <1>g, <1>m, <2>1 DEF InstallStaged, Steps
<1>5. CASE SyncBackup(p) \/ CheckInstalled(p)
  BY <1>5, <1>g DEF SyncBackup, CheckInstalled, Steps
<1>6. CASE SyncInstalled(p)
  BY <1>6, <1>e, <1>g DEF SyncInstalled, Steps
<1>7. CASE RollbackRemove(p)
  <2> DEFINE pc == IF proc[p].prev # Nothing THEN "restore" ELSE "syncrestore"
  <2>1. [proc EXCEPT ![p].pc = pc][p] \in Command /\ [proc EXCEPT ![p].pc = pc][p].pc # "idle"
    BY <1>0, <1>f DEF Command, Steps
  <2>2. proc' # Moved([proc EXCEPT ![p].pc = pc], proc[p].target, "deleted")
    BY <1>m, <2>1
  <2>3. End(p, "unrestored")
    BY <1>7, <2>2 DEF RollbackRemove
  <2> QED BY <1>e, <2>3
<1>8. CASE RollbackRename(p)
  <2>1. [proc EXCEPT ![p].pc = "syncrestore"][p] \in Command
        /\ [proc EXCEPT ![p].pc = "syncrestore"][p].pc # "idle"
    BY <1>0, <1>f DEF Command, Steps
  <2> QED BY <1>8, <1>e, <1>m, <2>1 DEF RollbackRename
<1>9. CASE RollbackSync(p)
  BY <1>9, <1>e DEF RollbackSync
<1> QED BY <1>0, <1>1, <1>2, <1>3, <1>4, <1>5, <1>6, <1>7, <1>8, <1>9 DEF Step

\* What replace_binary answers is true: after ok the checked release is
\* installed and durable, with the replaced executable as its backup; after an
\* error that claims so the executable of before is installed.
THEOREM UpdaterAnswerIsTrue == Spec => AnswerIsTrue
<1> DEFINE True == \A p \in Procs :
                      /\ Returns(p, "ok") => InstalledDurably(p) /\ RollbackKept(p)
                      /\ Returns(p, "failed") /\ proc[p].pc # "started" => Restored(p)
<1>1. UpInv /\ [Next]_updateVars => [True]_updateVars
  <2> SUFFICES ASSUME UpInv, Next, NEW p \in Procs
               PROVE  /\ Returns(p, "ok") => InstalledDurably(p) /\ RollbackKept(p)
                      /\ Returns(p, "failed") /\ proc[p].pc # "started" => Restored(p)
    OBVIOUS
  <2>0. Knows(proc[p], dir, follows) /\ proc \in [Procs -> Command]
    BY HolderFacts
  <2>1. Returns(p, "ok") => proc[p].pc = "sync" /\ disk' = dir /\ UNCHANGED dir
    BY ReturnsOnly
  <2>2. Returns(p, "failed") =>
           \/ proc[p].pc = "started"
           \/ proc[p].pc \in Preparing \cup {"backup"} /\ UNCHANGED dir
           \/ /\ proc[p].pc = "syncrestore" /\ dir[proc[p].target] = proc[p].prev
              /\ UNCHANGED dir
    BY ReturnsOnly
  <2>3. Returns(p, "ok") => InstalledDurably(p) /\ RollbackKept(p)
    BY <2>0, <2>1 DEF Knows, InstalledDurably, RollbackKept
  <2>4. Returns(p, "failed") /\ proc[p].pc # "started" => Restored(p)
    BY <2>0, <2>2 DEF Knows, Restored, Preparing, Replacing, Unlocked, Steps
  <2> QED BY <2>3, <2>4
<1>2. Spec => []UpInv
  BY UpdaterInvariant
<1> QED BY <1>1, <1>2, PTL DEF Spec, AnswerIsTrue
=============================================================================
