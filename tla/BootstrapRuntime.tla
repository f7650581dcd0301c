-------------------------- MODULE BootstrapRuntime --------------------------
(***************************************************************************)
(* The bootstrap authority of the QUIC server (bootstrap_runtime.rs): one  *)
(* Herdr session, hidden verification workspaces, code entry, Core         *)
(* approvals and the state file that survives a restart.  A call reads the *)
(* clock, waits for the state mutex and holds it across every Herdr        *)
(* request, so calls are serialised; time, a crash and Herdr's failures    *)
(* come between the steps.  An id stands for an attempt, the approval and  *)
(* the workspace that belong to it.                                        *)
(***************************************************************************)
EXTENDS Naturals, FiniteSets

CONSTANTS Callers,       \* connection handlers
          Peers,         \* observed peer addresses
          MaxIds,        \* bound: ids minted
          MaxTime,       \* bound: clock values
          MaxBoots,      \* bound: restarts
          MaxApprovals,  \* MAX_APPROVALS
          MaxActive,     \* MAX_ACTIVE_BOOTSTRAPS
          MaxBytes,      \* the 256 KiB of the state file
          PendingBytes,  \* what a pending record takes of them
          CoreBytes,     \* what a Core approval takes, with its certificate chain
          MaxPeerStarts, \* MAX_PEER_STARTS
          StartWindow,   \* PEER_START_WINDOW_SECS
          CodeTTL,       \* BOOTSTRAP_CODE_TTL_SECS
          HardTTL,       \* BOOTSTRAP_HARD_LIFETIME_SECS
          RecoveryTTL,   \* CORE_APPROVAL_RECOVERY_TTL_SECS
          MaxFailures    \* MAX_CODE_FAILURES

ASSUME BootstrapAssumption ==
    /\ IsFiniteSet(Callers)
    /\ {MaxIds, MaxTime, MaxBoots, MaxApprovals, MaxPeerStarts, StartWindow} \subseteq Nat
    /\ {MaxActive, MaxBytes, PendingBytes, CoreBytes} \subseteq Nat
    /\ {CodeTTL, HardTTL, RecoveryTTL, MaxFailures} \subseteq Nat \ {0}
    /\ CodeTTL <= HardTTL
    /\ Peers \cap Nat = {}

VARIABLES now,        \* the clock
          mem,        \* attempts, app approvals and Core approvals by id
          active,     \* the configured session is in active_sessions
          orphans,    \* orphaned_workspaces
          starts,     \* peer_starts: the time of a start, with the id minted for it
          file,       \* the state file
          open,       \* workspaces that exist in Herdr
          call,       \* the calls under way
          minted,     \* ids minted so far
          boots,      \* restarts so far
          certified,  \* history: certificates issued per id
          confirmedOk,\* history: ids confirm_first_app answered Ok for
          leaked      \* history: workspaces whose close was not recorded

bootVars == <<now, mem, active, orphans, starts, file, open, call, minted, boots,
              certified, confirmedOk, leaked>>

Ids == 1 .. MaxIds

\* An empty slot; an attempt's owner is its peer, an app approval's its Core.
None == [kind |-> "none", owner |-> 0, exp |-> 0, hard |-> 0, fails |-> 0,
         confirmed |-> FALSE]

Attempt(peer, t) == [None EXCEPT !.kind = "attempt", !.owner = peer,
                                 !.exp = t + CodeTTL, !.hard = t + HardTTL]
AppApproval(core, t) == [None EXCEPT !.kind = "app", !.owner = core, !.exp = t + CodeTTL]
CoreApproval(t) == [None EXCEPT !.kind = "core", !.exp = t + RecoveryTTL]

Pending(i) == mem[i].kind \in {"attempt", "app"}

Idle == [pc |-> "idle", kind |-> "none", at |-> 0, who |-> 0, id |-> 0, right |-> FALSE,
         all |-> {}, todo |-> {}, reaped |-> FALSE]

Kinds == {"start", "submit", "abort", "reconcile", "authorize", "confirm", "app", "submitApp"}

Rec == [kind : {"none", "attempt", "app", "core"}, owner : Peers \cup (0 .. MaxIds),
        exp : Nat, hard : Nat, fails : 0 .. MaxFailures, confirmed : BOOLEAN]

TypeOK ==
    /\ now \in 0 .. MaxTime /\ minted \in 0 .. MaxIds /\ boots \in 0 .. MaxBoots
    /\ active \in BOOLEAN
    /\ mem \in [Ids -> Rec]
    /\ file \in [Ids -> Rec]
    /\ orphans \subseteq Ids /\ open \subseteq Ids /\ confirmedOk \subseteq Ids
    /\ leaked \subseteq Ids
    /\ starts \in [Peers -> SUBSET (Ids \X (0 .. MaxTime))]
    /\ \A p \in Peers : Cardinality(starts[p]) <= MaxPeerStarts
    /\ call \in [Callers -> [pc : {"idle", "wait", "reap", "create", "rollback", "close",
                                   "abort", "deliver"},
                             kind : Kinds \cup {"none"}, at : 0 .. MaxTime,
                             who : Peers \cup (0 .. MaxIds), id : 0 .. MaxIds,
                             right : BOOLEAN, all : SUBSET Ids, todo : SUBSET Ids,
                             reaped : BOOLEAN]]
    /\ certified \in [Ids -> Nat]

Init ==
    /\ now = 0 /\ minted = 0 /\ boots = 0
    /\ mem = [i \in Ids |-> None]
    /\ file = mem
    /\ active = FALSE
    /\ orphans = {} /\ open = {} /\ confirmedOk = {} /\ leaked = {}
    /\ starts = [p \in Peers |-> {}]
    /\ call = [c \in Callers |-> Idle]
    /\ certified = [i \in Ids |-> 0]

-----------------------------------------------------------------------------
(* The mutex, the clock and the state file *)

\* The state mutex is held from its acquisition to the return of the call.
Holds(c) == call[c].pc \in {"reap", "create", "rollback", "close", "abort"}

Free == \A c \in Callers : ~Holds(c)

Return(c) == call' = [call EXCEPT ![c] = Idle]

Goto(c, pc) == call' = [call EXCEPT ![c].pc = pc]

Size(m) == Cardinality({i \in Ids : m[i].kind # "none"})

\* The length of the file: chains are far longer than the rest of a record.
Bytes(m) == PendingBytes * Cardinality({i \in Ids : m[i].kind \in {"attempt", "app"}})
            + CoreBytes * Cardinality({i \in Ids : m[i].kind = "core"})

Fits(m) == Size(m) <= MaxApprovals /\ Bytes(m) <= MaxBytes

\* What of a record reaches the file: the count of failures does not.
Project(m) == [i \in Ids |-> [m[i] EXCEPT !.fails = 0]]

\* Mutant: only the number of records is bounded when they are written.
PersistAnyLength(m) == Size(m) <= MaxApprovals /\ file' = Project(m)

\* persist writes the whole projection of the memory or leaves the file alone.
\* Orphaned workspaces are not part of the projection.
PersistOk(m) == Fits(m) /\ file' = Project(m)
PersistFailed == UNCHANGED file
Persist(m) == PersistOk(m) \/ PersistFailed

\* valid_persisted_record
ValidRecord(r) == r.kind = "core" => (r.confirmed <=> r.exp = 0)

\* load refuses a file that is too long, has too many records or one that is
\* not valid.
Loadable == Fits(file) /\ \A i \in Ids : ValidRecord(file[i])

\* Closing a workspace: done or already gone, or an error after which the
\* workspace may exist or not.
CloseOk(w)   == open' = open \ {w}
CloseFails(w) == open' \in {open, open \ {w}}

Forget(i) == [mem EXCEPT ![i] = None]

-----------------------------------------------------------------------------
(* Expiry *)

\* Mutant: confirmed approvals are reaped as well.
CoreExpiredAny(r, t) == r.kind = "core" /\ t > r.exp

CoreExpired(r, t) == r.kind = "core" /\ ~r.confirmed /\ r.exp # 0 /\ t > r.exp

PendingExpired(r, t) == \/ r.kind = "attempt" /\ t > r.hard
                        \/ r.kind = "app" /\ t > r.exp

-----------------------------------------------------------------------------
(* A call starts: it reads the clock and asks for the mutex *)

Ask(c, k, who, i, right) ==
    /\ call[c].pc = "idle"
    /\ call' = [call EXCEPT ![c] = [Idle EXCEPT !.pc = "wait", !.kind = k, !.at = now,
                                                !.who = who, !.id = i, !.right = right]]
    /\ UNCHANGED <<now, mem, active, orphans, starts, file, open, minted, boots,
                   certified, confirmedOk, leaked>>

\* Ids are not minted beyond the bound.
MayMint == minted + Cardinality({c \in Callers : call[c].kind \in {"start", "app"}}) < MaxIds

\* The handshake has authenticated the Core: it holds a certificate of ours.
IsCore(i) == certified[i] > 0

AskStart(c, p) == MayMint /\ Ask(c, "start", p, 0, FALSE)
AskApp(c, core) == MayMint /\ IsCore(core) /\ Ask(c, "app", core, 0, FALSE)
AskSubmit(c, p, i, right) == i <= minted /\ Ask(c, "submit", p, i, right)
AskSubmitApp(c, core, i, right) ==
    i <= minted /\ IsCore(core) /\ Ask(c, "submitApp", core, i, right)
AskReconcile(c) == Ask(c, "reconcile", 0, 0, FALSE)
AskCore(c, k, i) == i <= minted /\ Ask(c, k, 0, i, FALSE)

-----------------------------------------------------------------------------
(* start, start_app_approval and reconcile first reap what has expired *)

Sweep(c) ==
    /\ call[c].pc = "wait" /\ call[c].kind \in {"start", "app", "reconcile"} /\ Free
    /\ LET t    == call[c].at
           dead == {i \in Ids : PendingExpired(mem[i], t)}
           lost == {i \in Ids : CoreExpired(mem[i], t)}
       IN /\ mem' = [i \in Ids |-> IF i \in dead \cup lost THEN None ELSE mem[i]]
          /\ active' = (active /\ dead = {})
          /\ orphans' = {}
          /\ call' = [call EXCEPT ![c] = [@ EXCEPT !.pc = "reap", !.all = orphans \cup dead,
                                                   !.todo = orphans \cup dead,
                                                   !.reaped = (lost # {})]]
    /\ UNCHANGED <<now, starts, file, open, minted, boots, certified, confirmedOk, leaked>>

\* Mutant: what could not be closed is dropped.
SweepCloseForgets(c) ==
    /\ call[c].pc = "reap"
    /\ \E w \in call[c].todo :
          \/ CloseOk(w) /\ call' = [call EXCEPT ![c].todo = @ \ {w}]
          \/ CloseFails(w) /\ Return(c)
    /\ UNCHANGED <<now, mem, active, orphans, starts, file, minted, boots, certified,
                   confirmedOk, leaked>>

SweepClose(c) ==
    /\ call[c].pc = "reap"
    /\ \E w \in call[c].todo :
          \/ /\ CloseOk(w)
             /\ call' = [call EXCEPT ![c].todo = @ \ {w}]
             /\ UNCHANGED orphans
          \/ /\ CloseFails(w)                         \* all are kept for a retry
             /\ orphans' = call[c].all
             /\ Return(c)
    /\ UNCHANGED <<now, mem, active, starts, file, minted, boots, certified, confirmedOk, leaked>>

\* Starts of a peer that are still within the window.
Recent(p, t) == {s \in starts[p] : t < s[2] + StartWindow}

\* The limits of start, in the code's order.
AdmitStart(c) ==
    LET t == call[c].at
        p == call[c].who
        approvals == {i \in Ids : mem[i].kind \in {"core", "app"}}
        attempts == {i \in Ids : mem[i].kind = "attempt"}
        full == Cardinality(attempts) >= MaxActive \/ Cardinality(approvals) >= MaxApprovals
    IN \/ /\ full \/ active
          /\ Return(c) /\ UNCHANGED starts
       \/ /\ ~full /\ ~active
          /\ IF Cardinality(Recent(p, t)) >= MaxPeerStarts
                THEN Return(c) /\ starts' = [q \in Peers |-> Recent(q, t)]
                ELSE Goto(c, "create")
                     /\ starts' = [q \in Peers |-> Recent(q, t) \cup
                                      (IF q = p THEN {<<minted + 1, t>>} ELSE {})]

\* A confirmed Core, and a session that is not verifying already.
AdmitApp(c) ==
    /\ IF /\ mem[call[c].who].kind = "core" /\ mem[call[c].who].confirmed
          /\ ~active
          /\ Cardinality({i \in Ids : mem[i].kind = "app"}) < MaxApprovals
       THEN Goto(c, "create") ELSE Return(c)
    /\ UNCHANGED starts

Admit(c) ==
    \/ call[c].kind = "start" /\ AdmitStart(c)
    \/ call[c].kind = "app" /\ AdmitApp(c)
    \/ call[c].kind = "reconcile" /\ Return(c) /\ UNCHANGED starts

SweepDone(c) ==
    /\ call[c].pc = "reap" /\ call[c].todo = {}
    /\ LET dirty == call[c].all # {} \/ call[c].reaped IN
       \/ ~dirty /\ UNCHANGED file /\ Admit(c)
       \/ dirty /\ PersistOk(mem) /\ Admit(c)
       \/ dirty /\ PersistFailed /\ Return(c) /\ UNCHANGED starts
    /\ UNCHANGED <<now, mem, active, orphans, open, minted, boots, certified, confirmedOk, leaked>>

-----------------------------------------------------------------------------
(* start and start_app_approval create the workspace and record it *)

NewRecord(c) == IF call[c].kind = "start" THEN Attempt(call[c].who, call[c].at)
                                          ELSE AppApproval(call[c].who, call[c].at)

\* create_and_verify fails: without an answer, or with a label that does not
\* read back and a close whose result is ignored.
CreateFails(c) ==
    /\ call[c].pc = "create"
    /\ open' \in {open, open \cup {minted + 1}}
    /\ leaked' = leaked \cup (open' \ open)
    /\ minted' = minted + 1
    /\ Return(c)
    /\ UNCHANGED <<now, mem, active, orphans, starts, file, boots, certified, confirmedOk>>

Create(c) ==
    /\ call[c].pc = "create"
    /\ open' = open \cup {minted + 1}
    /\ minted' = minted + 1
    /\ LET m == [mem EXCEPT ![minted + 1] = NewRecord(c)] IN
       \/ /\ PersistOk(m)
          /\ mem' = m
          /\ active' = TRUE
          /\ call' = [call EXCEPT ![c] = IF @.kind = "start"
                                         THEN [@ EXCEPT !.pc = "deliver", !.id = minted + 1]
                                         ELSE Idle]
       \/ /\ PersistFailed
          /\ call' = [call EXCEPT ![c] = [@ EXCEPT !.pc = "rollback", !.id = minted + 1]]
          /\ UNCHANGED <<mem, active>>
    /\ UNCHANGED <<now, orphans, starts, boots, certified, confirmedOk, leaked>>

\* The result of this close is ignored.
Rollback(c) ==
    /\ call[c].pc = "rollback"
    /\ CloseFails(call[c].id)
    /\ leaked' = leaked \cup ({call[c].id} \cap open')
    /\ Return(c)
    /\ UNCHANGED <<now, mem, active, orphans, starts, file, minted, boots, certified,
                   confirmedOk>>

\* The handler sends the challenge; what it cannot deliver it aborts.
Deliver(c) ==
    /\ call[c].pc = "deliver"
    /\ \/ Return(c)
       \/ call' = [call EXCEPT ![c] = [Idle EXCEPT !.pc = "wait", !.kind = "abort",
                                                   !.id = call[c].id]]
    /\ UNCHANGED <<now, mem, active, orphans, starts, file, open, minted, boots, certified,
                   confirmedOk, leaked>>

AbortEnter(c) ==
    /\ call[c].pc = "wait" /\ call[c].kind = "abort" /\ Free
    /\ IF mem[call[c].id].kind = "attempt"
       THEN mem' = Forget(call[c].id) /\ active' = FALSE /\ Goto(c, "abort")
       ELSE Return(c) /\ UNCHANGED <<mem, active>>
    /\ UNCHANGED <<now, orphans, starts, file, open, minted, boots, certified, confirmedOk, leaked>>

AbortClose(c) ==
    /\ call[c].pc = "abort"
    /\ \/ CloseOk(call[c].id) /\ UNCHANGED orphans
       \/ CloseFails(call[c].id) /\ orphans' = orphans \cup {call[c].id}
    /\ Persist(mem)
    /\ Return(c)
    /\ UNCHANGED <<now, mem, active, starts, minted, boots, certified, confirmedOk, leaked>>

-----------------------------------------------------------------------------
(* submit and submit_app_approval *)

\* The call is about a live record of its kind and comes from its owner.
Bound(c) == LET r == mem[call[c].id] IN
    /\ r.kind = (IF call[c].kind = "submit" THEN "attempt" ELSE "app")
    /\ r.owner = call[c].who

\* A wrong code that uses up the budget, an expired record and the right code
\* all go on to close the workspace.
Verify(c) ==
    /\ call[c].pc = "wait" /\ Free
    /\ LET i == call[c].id
           late == call[c].at > mem[i].exp
       IN \/ ~Bound(c) /\ Return(c) /\ UNCHANGED <<mem, file>>
          \/ /\ Bound(c) /\ (late \/ call[c].right)
             /\ Goto(c, "close") /\ UNCHANGED <<mem, file>>
          \/ /\ Bound(c) /\ ~late /\ ~call[c].right
             /\ mem' = [mem EXCEPT ![i].fails = IF @ < MaxFailures THEN @ + 1 ELSE @]
             /\ IF mem'[i].fails >= MaxFailures
                   THEN Goto(c, "close") /\ UNCHANGED file
                   ELSE Persist(mem') /\ Return(c)
    /\ UNCHANGED <<now, active, orphans, starts, open, minted, boots, certified, confirmedOk, leaked>>

SubmitEnter(c) == call[c].kind = "submit" /\ Verify(c)

SubmitAppEnter(c) == call[c].kind = "submitApp" /\ Verify(c)

\* The code is right and in time, and the workspace is closed.
Accepted(c) == call[c].right /\ call[c].at <= mem[call[c].id].exp

\* Mutant: the attempt is removed only when the certificate has been stored.
SubmitCloseKeeps(c) ==
    /\ call[c].pc = "close" /\ call[c].kind = "submit"
    /\ LET i == call[c].id IN
       /\ CloseOk(i)
       /\ certified' = [certified EXCEPT ![i] = IF Accepted(c) THEN @ + 1 ELSE @]
       /\ \/ /\ PersistOk([mem EXCEPT ![i] = IF Accepted(c) THEN CoreApproval(call[c].at)
                                                            ELSE None])
             /\ mem' = file' /\ active' = FALSE
          \/ PersistFailed /\ UNCHANGED <<mem, active>>
    /\ Return(c)
    /\ UNCHANGED <<now, orphans, starts, minted, boots, confirmedOk, leaked>>

SubmitClose(c) ==
    /\ call[c].pc = "close" /\ call[c].kind = "submit"
    /\ LET i == call[c].id IN
       \/ CloseFails(i) /\ UNCHANGED <<mem, active, file, certified>>
       \/ /\ CloseOk(i)
          /\ active' = FALSE
          /\ \/ /\ ~Accepted(c)
                /\ mem' = Forget(i) /\ Persist(mem') /\ UNCHANGED certified
             \/ /\ Accepted(c)                            \* no certificate
                /\ mem' = Forget(i) /\ UNCHANGED <<file, certified>>
             \/ /\ Accepted(c)
                /\ mem' = [mem EXCEPT ![i] = CoreApproval(call[c].at)]
                /\ certified' = [certified EXCEPT ![i] = @ + 1]
                /\ Persist(mem')
    /\ Return(c)
    /\ UNCHANGED <<now, orphans, starts, minted, boots, confirmedOk, leaked>>

\* An app approval ends whether the code was accepted or not.
SubmitAppClose(c) ==
    /\ call[c].pc = "close" /\ call[c].kind = "submitApp"
    /\ \/ CloseFails(call[c].id) /\ UNCHANGED <<mem, active, file>>
       \/ /\ CloseOk(call[c].id)
          /\ active' = FALSE
          /\ mem' = Forget(call[c].id)
          /\ Persist(mem')
    /\ Return(c)
    /\ UNCHANGED <<now, orphans, starts, minted, boots, certified, confirmedOk, leaked>>

-----------------------------------------------------------------------------
(* authorize_first_app and confirm_first_app *)

\* Both remove an approval that has expired.
ExpireCore(c) ==
    /\ call[c].pc = "wait" /\ call[c].kind \in {"authorize", "confirm"} /\ Free
    /\ CoreExpired(mem[call[c].id], call[c].at)
    /\ mem' = Forget(call[c].id) /\ Persist(mem') /\ Return(c)
    /\ UNCHANGED <<now, active, orphans, starts, open, minted, boots, certified, confirmedOk, leaked>>

Authorize(c) ==
    /\ call[c].pc = "wait" /\ call[c].kind = "authorize" /\ Free
    /\ ~CoreExpired(mem[call[c].id], call[c].at)
    /\ Return(c)
    /\ UNCHANGED <<now, mem, active, orphans, starts, file, open, minted, boots, certified,
                   confirmedOk, leaked>>

Confirm(c) ==
    /\ call[c].pc = "wait" /\ call[c].kind = "confirm" /\ Free
    /\ LET i == call[c].id IN
       /\ ~CoreExpired(mem[i], call[c].at)
       /\ \/ mem[i].kind # "core" /\ UNCHANGED <<mem, file, confirmedOk>>
          \/ /\ mem[i].kind = "core" /\ ~mem[i].confirmed
             /\ mem' = [mem EXCEPT ![i].confirmed = TRUE, ![i].exp = 0]
             /\ \/ PersistOk(mem') /\ confirmedOk' = confirmedOk \cup {i}
                \/ PersistFailed /\ UNCHANGED confirmedOk
          \/ /\ mem[i].kind = "core" /\ mem[i].confirmed
             /\ confirmedOk' = confirmedOk \cup {i} /\ UNCHANGED <<mem, file>>
    /\ Return(c)
    /\ UNCHANGED <<now, active, orphans, starts, open, minted, boots, certified, leaked>>

-----------------------------------------------------------------------------
(* The workspaces the process knows of *)

Live == {i \in Ids : Pending(i)}

\* A record with its workspace, a close to be tried again, or a close that the
\* call under way is going to ask for.
Tracked == Live \cup orphans \cup (UNION {call[c].all : c \in Callers})
           \cup {call[c].id : c \in {d \in Callers : call[d].pc \in {"rollback", "abort"}}}

-----------------------------------------------------------------------------
(* Time and restarts *)

Tick == /\ now < MaxTime
        /\ now' = now + 1
        /\ UNCHANGED <<mem, active, orphans, starts, file, open, call, minted, boots,
                       certified, confirmedOk, leaked>>

\* restore: Core approvals come back, pending records only as workspaces to
\* close.  A close that was to be tried again, and one that a call was about to
\* ask for, is forgotten where the file does not name the workspace.
Restart ==
    /\ boots < MaxBoots /\ Loadable
    /\ boots' = boots + 1
    /\ mem' = [i \in Ids |-> IF file[i].kind = "core" THEN file[i] ELSE None]
    /\ orphans' = {i \in Ids : file[i].kind \in {"attempt", "app"}}
    /\ leaked' = leaked \cup ((Tracked \ (Live \cup orphans')) \cap open)
    /\ active' = FALSE
    /\ starts' = [p \in Peers |-> {}]
    /\ call' = [c \in Callers |-> Idle]
    /\ UNCHANGED <<now, file, open, minted, certified, confirmedOk>>

-----------------------------------------------------------------------------
AskSome(c) ==
    \/ \E p \in Peers : AskStart(c, p)
    \/ \E i \in Ids, right \in BOOLEAN :
          \/ \E p \in Peers : AskSubmit(c, p, i, right)
          \/ \E core \in Ids : AskSubmitApp(c, core, i, right)
    \/ \E i \in Ids : AskApp(c, i) \/ AskCore(c, "authorize", i) \/ AskCore(c, "confirm", i)
    \/ AskReconcile(c)

Serve(c) ==
    \/ SweepClose(c) \/ SweepDone(c) \/ CreateFails(c) \/ Create(c) \/ Rollback(c)
    \/ Deliver(c) \/ AbortClose(c) \/ SubmitClose(c) \/ SubmitAppClose(c)

\* The mutex is granted.
Enter(c) == \/ Sweep(c) \/ AbortEnter(c) \/ SubmitEnter(c) \/ SubmitAppEnter(c)
            \/ ExpireCore(c) \/ Authorize(c) \/ Confirm(c)

Next == \/ \E c \in Callers : AskSome(c) \/ Enter(c) \/ Serve(c)
        \/ Tick \/ Restart

Spec == Init /\ [][Next]_bootVars

-----------------------------------------------------------------------------
(* Properties *)

\* The configured session is marked active exactly while one challenge is
\* live, on every error and expiry path of every call: otherwise the session
\* is blocked until a restart, or two challenges compete for one session.
SessionExclusive ==
    Free => /\ active <=> Live # {}
            /\ Cardinality(Live) <= 1

\* Whatever a crash leaves in the state file, restore accepts it.
FileRestorable == Loadable

\* A record in memory has reached the file, as it is or as the attempt that a
\* Core approval came from: a crash never loses sight of a challenge.
MemoryRecorded ==
    Free => \A i \in Ids : \/ mem[i].kind \in {"none", file[i].kind}
                           \/ mem[i].kind = "core" /\ file[i].kind = "attempt"

\* The memory can be written again, unless a Core approval was issued that
\* never reached the file: start and start_app_approval take back what does not
\* fit, submit does not.
MemoryFits ==
    Free => \/ Fits(mem)
            \/ \E i \in Ids : mem[i].kind = "core" /\ file[i].kind = "attempt"

\* One accepted code gives one Core certificate, whatever fails afterwards
\* and however often the code is sent again, also after a restart.
CertificateOnce == \A i \in Ids : certified[i] <= 1

\* The runtime's state after every call: see the parts.
RuntimeInv == TypeOK /\ SessionExclusive /\ CertificateOnce

\* The state file is readable whenever the process stops, names every record
\* in memory, and is outgrown only by a certificate that is issued already: the
\* count of records and the length of their chains are bounded where the file
\* is written, not where an approval is inserted.
AlwaysRestorable == FileRestorable /\ MemoryRecorded /\ MemoryFits

\* An approval that is confirmed on disk is never reaped or rewritten.
ConfirmedForever == [][\A i \in Ids : file[i].confirmed => file'[i] = file[i]]_bootVars

\* A workspace that is open is one the process will close, or its close was
\* asked for and the failure ignored (the rollback of start and of
\* start_app_approval, a title that does not read back), or a restart came
\* while the close was known to the memory alone.  Every other path keeps the
\* workspace: a record's own survives the restart through the file.
LeaksOnlyIgnored == open \subseteq Tracked \cup leaked

\* "Ok(()) after the first Core approval is durably active"
ConfirmOkIsDurable == \A i \in confirmedOk : file[i].confirmed

\* "Maximum failed code submissions for one approval."
CodeBudgetHolds ==
    [][\A i \in Ids : certified'[i] > certified[i] => mem[i].fails < MaxFailures]_bootVars

\* "Protected restart-surviving state store for bootstrap cleanup"
CleanupSurvivesRestart ==
    [][Live \cup orphans # {} /\ boots' > boots /\ Free
        => (Live \cup orphans) \cap open \subseteq orphans']_bootVars
=============================================================================
