--------------------------- MODULE AuthorityStore ---------------------------
(***************************************************************************)
(* The file store of the iroh relay (authority_store.rs) and the start-up  *)
(* that uses it: several relay processes share one directory, adopt or     *)
(* create the relay identity and then advance the runtime fence.  A commit *)
(* is the code's sequence of file operations: create the lock file, read   *)
(* and compare, write a temporary file, rename it, synchronise the         *)
(* directory, remove the lock file.  Any of them may fail, a process may   *)
(* crash between any two, and the host may lose power.                     *)
(***************************************************************************)
EXTENDS Naturals

CONSTANTS Procs,        \* relay processes on the directory
          Keys,         \* secret keys a start may be given
          NoKey,        \* a start without a supplied key
          MaxEpoch,     \* bound: epochs explored
          SyncSupported \* the platform can synchronise a directory

ASSUME StoreAssumption == /\ {"free", "stale"} \cap Procs = {}
                          /\ NoKey \notin Keys
                          /\ Keys \cap Nat = {}
                          /\ MaxEpoch \in Nat
                          /\ SyncSupported \in BOOLEAN

VARIABLES file,         \* the two record files as readers see them
          durable,      \* the two record files as a loss of power leaves them
          lockfile,     \* each record's lock file: absent, whose, or left behind
          proc,         \* each process's start-up
          acked         \* history: highest revision a commit answered Ok

storeVars == <<file, durable, lockfile, proc, acked>>

Files == {"identity", "fence"}

Absent == [revision |-> 0, value |-> 0]

Record == [revision : Nat, value : Keys \cup (0 .. MaxEpoch)]

Free == "free"
StaleLock == "stale"

Off == [step |-> "off", at |-> "identity", supplied |-> NoKey, expect |-> 0,
        next |-> 0, key |-> NoKey, epoch |-> 0]

StoreTypeOK ==
    /\ file \in [Files -> Record]
    /\ durable \in [Files -> Record]
    /\ lockfile \in [Files -> Procs \cup {Free, StaleLock}]
    /\ proc \in [Procs -> [step : {"off", "load", "read", "acquire", "locked", "written",
                                   "renamed", "reload", "reread", "running"},
                           at : Files,
                           supplied : Keys \cup {NoKey},
                           expect : Nat,
                           next : Keys \cup (0 .. MaxEpoch),
                           key : Keys \cup {NoKey},
                           epoch : 0 .. MaxEpoch]]
    /\ acked \in [Files -> Nat]

StoreInit ==
    /\ file = [f \in Files |-> Absent]
    /\ durable = file
    /\ lockfile = [f \in Files |-> Free]
    /\ proc = [p \in Procs |-> Off]
    /\ acked = [f \in Files |-> 0]

-----------------------------------------------------------------------------
(* Helpers *)

\* The start-up returns an error and the process ends.
Stop(p) == proc' = [proc EXCEPT ![p] = Off]

\* Dropping the guard removes the lock file; an error of the removal is ignored.
DropLock(f) == \E left \in {Free, StaleLock} : lockfile' = [lockfile EXCEPT ![f] = left]

\* Zero is never a valid revision of an envelope.
Intact(rec) == rec.revision # 0

\* read_record: a whole record, or none; an error is the caller's Stop.
Found(f) == Intact(file[f])

KeyOf(rec)   == rec.value
EpochOf(rec) == rec.value

\* Mutant: the revision is not advanced.
SameRevision(p) == [revision |-> proc[p].expect, value |-> proc[p].next]

\* The envelope a commit writes.
NextRecord(p) == [revision |-> proc[p].expect + 1, value |-> proc[p].next]

Adopt(p, k) ==
    proc' = [proc EXCEPT ![p] = [@ EXCEPT !.step = "load", !.at = "fence", !.key = k]]

\* A supplied key must be the recorded one; without one any record is adopted.
Agrees(p, k) == proc[p].supplied \in {NoKey, k}

-----------------------------------------------------------------------------
(* Start-up *)

StartProcess(p, k) ==
    /\ proc[p].step = "off"
    /\ proc' = [proc EXCEPT ![p] = [Off EXCEPT !.step = "load", !.supplied = k]]
    /\ UNCHANGED <<file, durable, lockfile, acked>>

\* load refuses while a lock file exists, and then reads without the lock:
\* another process may begin a commit in between.
CheckLock(p) ==
    /\ proc[p].step \in {"load", "reload"}
    /\ \/ Stop(p)                                     \* lock present, or I/O error
       \/ /\ lockfile[proc[p].at] = Free
          /\ proc' = [proc EXCEPT ![p].step = IF @ = "load" THEN "read" ELSE "reread"]
    /\ UNCHANGED <<file, durable, lockfile, acked>>

LoadIdentity(p) ==
    /\ proc[p].step = "read" /\ proc[p].at = "identity"
    /\ \/ Stop(p)
       \/ /\ Found("identity")
          /\ Agrees(p, KeyOf(file["identity"]))
          /\ Adopt(p, KeyOf(file["identity"]))
       \/ /\ ~Found("identity")
          /\ proc[p].supplied # NoKey
          /\ proc' = [proc EXCEPT ![p] = [@ EXCEPT !.step = "acquire", !.expect = 0,
                                                   !.next = proc[p].supplied]]
    /\ UNCHANGED <<file, durable, lockfile, acked>>

\* After a conflict the winner's record is loaded again.
ReloadIdentity(p) ==
    /\ proc[p].step = "reread"
    /\ \/ Stop(p)
       \/ /\ Found("identity")
          /\ Agrees(p, KeyOf(file["identity"]))
          /\ Adopt(p, KeyOf(file["identity"]))
    /\ UNCHANGED <<file, durable, lockfile, acked>>

\* install_runtime_fence up to its commit.
LoadFence(p) ==
    /\ proc[p].step = "read" /\ proc[p].at = "fence"
    /\ \/ Stop(p)
       \/ /\ EpochOf(file["fence"]) < MaxEpoch
          /\ proc' = [proc EXCEPT ![p] = [@ EXCEPT !.step = "acquire",
                                                   !.expect = file["fence"].revision,
                                                   !.next = EpochOf(file["fence"]) + 1]]
    /\ UNCHANGED <<file, durable, lockfile, acked>>

-----------------------------------------------------------------------------
(* FileAuthorityStore::commit *)

Acquire(p) ==
    /\ proc[p].step = "acquire"
    /\ LET f == proc[p].at IN
       \/ Stop(p) /\ UNCHANGED lockfile               \* exists, or cannot be created
       \/ /\ lockfile[f] = Free
          /\ \/ /\ proc' = [proc EXCEPT ![p].step = "locked"]
                /\ lockfile' = [lockfile EXCEPT ![f] = p]
             \/ /\ Stop(p)                            \* created, but not written:
                /\ lockfile' = [lockfile EXCEPT ![f] = StaleLock]   \* no guard exists yet
    /\ UNCHANGED <<file, durable, acked>>

\* Mutant: the expected revision is not compared.
PrepareBlindly(p) ==
    /\ proc[p].step = "locked"
    /\ proc' = [proc EXCEPT ![p].step = "written"]
    /\ UNCHANGED <<file, durable, lockfile, acked>>

\* Compare the revision, then write and synchronise the temporary file.
Prepare(p) ==
    /\ proc[p].step = "locked"
    /\ LET f == proc[p].at IN
       \/ /\ file[f].revision = proc[p].expect
          /\ proc' = [proc EXCEPT ![p].step = "written"]
          /\ UNCHANGED lockfile
       \/ /\ file[f].revision # proc[p].expect        \* Conflict
          /\ IF f = "identity" THEN proc' = [proc EXCEPT ![p].step = "reload"]
                               ELSE Stop(p)
          /\ DropLock(f)
       \/ Stop(p) /\ DropLock(f)                      \* unreadable, PersistenceFailed
    /\ UNCHANGED <<file, durable, acked>>

Rename(p) ==
    /\ proc[p].step = "written"
    /\ LET f == proc[p].at IN
       \/ /\ file' = [file EXCEPT ![f] = NextRecord(p)]
          /\ proc' = [proc EXCEPT ![p].step = "renamed"]
          /\ UNCHANGED lockfile
       \/ Stop(p) /\ DropLock(f) /\ UNCHANGED file    \* Unknown
    /\ UNCHANGED <<durable, acked>>

\* Mutant: only the committed record settles.
SyncOneFile(p) ==
    /\ proc[p].step = "renamed"
    /\ DropLock(proc[p].at)
    /\ \/ /\ durable' = [durable EXCEPT ![proc[p].at] = file[proc[p].at]]
          /\ acked' = [acked EXCEPT ![proc[p].at] = proc[p].expect + 1]
          /\ IF proc[p].at = "identity"
                THEN Adopt(p, proc[p].next)
                ELSE proc' = [proc EXCEPT ![p] = [@ EXCEPT !.step = "running",
                                                           !.epoch = proc[p].next]]
       \/ Stop(p) /\ UNCHANGED <<durable, acked>>
    /\ UNCHANGED file

\* sync_directory covers the directory, so both records settle.
SyncDirectory(p) ==
    /\ proc[p].step = "renamed"
    /\ DropLock(proc[p].at)
    /\ \/ /\ durable' = IF SyncSupported THEN file ELSE durable
          /\ acked' = [acked EXCEPT ![proc[p].at] = proc[p].expect + 1]
          /\ IF proc[p].at = "identity"
                THEN Adopt(p, proc[p].next)
                ELSE proc' = [proc EXCEPT ![p] = [@ EXCEPT !.step = "running",
                                                           !.epoch = proc[p].next]]
       \/ Stop(p) /\ UNCHANGED <<durable, acked>>     \* Unknown
    /\ UNCHANGED file

-----------------------------------------------------------------------------
(* Faults and the operator *)

ProcessCrash(p) ==
    /\ proc[p].step # "off"
    /\ Stop(p)
    /\ lockfile' = [f \in Files |-> IF lockfile[f] = p THEN StaleLock ELSE lockfile[f]]
    /\ UNCHANGED <<file, durable, acked>>

PowerLoss ==
    /\ file' \in {g \in [Files -> {file[f] : f \in Files} \cup {durable[f] : f \in Files}] :
                     \A f \in Files : g[f] \in {file[f], durable[f]}}
    /\ durable' = file'
    /\ proc' = [p \in Procs |-> Off]
    /\ lockfile' \in {l \in [Files -> {Free, StaleLock}] :
                         \A f \in Files : lockfile[f] = Free => l[f] = Free}
    /\ UNCHANGED acked

\* Nothing in the code deletes a lock file that was left behind.
RemoveStaleLock(f) ==
    /\ lockfile[f] = StaleLock
    /\ lockfile' = [lockfile EXCEPT ![f] = Free]
    /\ UNCHANGED <<file, durable, proc, acked>>

-----------------------------------------------------------------------------
StoreNext ==
    \/ \E p \in Procs :
          \/ \E k \in Keys \cup {NoKey} : StartProcess(p, k)
          \/ CheckLock(p) \/ LoadIdentity(p) \/ ReloadIdentity(p) \/ LoadFence(p)
          \/ Acquire(p) \/ Prepare(p) \/ Rename(p) \/ SyncDirectory(p)
          \/ ProcessCrash(p)
    \/ PowerLoss
    \/ \E f \in Files : RemoveStaleLock(f)

StoreSpec == StoreInit /\ [][StoreNext]_storeVars

-----------------------------------------------------------------------------
(* Properties *)

\* What commit answered Ok for is on the disk after any later crash.
AckedIsDurable == \A f \in Files : durable[f].revision >= acked[f]

\* A process that serves connections does so under the identity that a loss
\* of power would leave, although the record it adopted may have been renamed
\* by a process that failed before it synchronised: the fence's own
\* synchronisation covers it.
ServesDurableIdentity ==
    \A p \in Procs : proc[p].step = "running" => durable["identity"].value = proc[p].key

\* What the relay relies on is on the disk: see the parts.
DurableInv == StoreTypeOK /\ AckedIsDurable /\ ServesDurableIdentity

\* Two runs of the relay never hold the same epoch: an installed epoch is
\* above every epoch that was ever installed before (the fence's revision and
\* its epoch count together).
EpochIsFresh ==
    [][\A p \in Procs : proc'[p].epoch > proc[p].epoch =>
            /\ proc'[p].epoch > acked["fence"]
            /\ \A q \in Procs : proc'[p].epoch > proc[q].epoch]_storeVars

\* The file operations together are an atomic compare and commit.
Register == INSTANCE RecordRegister WITH
    Values <- Keys \cup (0 .. MaxEpoch), current <- file, stable <- durable

CommitIsAtomic == Register!RSpec
=============================================================================
