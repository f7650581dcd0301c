# A TLA+ model of herdogrelay

`herdogrelay` lets a Core reach Herdr sessions on a remote machine.  A Core
holds one authenticated connection to the relay, asks it for session
authorities over a control stream, and then opens one stream per session that
the relay bridges to a Herdr Unix socket.  Two transports do this: a QUIC
server with certificates (`quic_server.rs`) and an iroh endpoint with an
application pairing step (`iroh_endpoint.rs`).  Both keep session authority in
the same registry (`session_registry.rs`).

This directory models what decides who may forward what and what survives a
failure: the registry and the tasks around it on both transports, the pairing
authority, the file store under it, the bootstrap of the first Core, the
issuance and revocation of App certificates, the updater, and the codecs and
exchanges these use.  Source paths below are relative to the repository's
`src/` directory.

## Inventory

| Part | State | Operations | What is hard | What makes it correct |
|---|---|---|---|---|
| session registry, `session_registry.rs` | `prepared` by token, `active` by handle, `next_handle` | prepare, open, accept (bind), renew, close (three forms), reap, invalidate | expiry at the boundary, handle wrap, capacity checked in one place only | bounded, one authority per name, a dead token stays dead |
| QUIC session plane, `quic_server.rs` 397-476, 618-1185, 2667-2940 | the registry, `session_controls`, the join set, the drain signal | control frames, expiry tick, drain, accept, the stream task | every `.await` is an interleaving point; a close may come anywhere between binding and bridging | no bridge without authority, no authority without owner, everything ends |
| iroh session plane, `iroh_endpoint.rs` 2068-2399 | the same, behind plain mutexes | control frames, accept, the stream task, shutdown | as above, with fewer checks | as above |
| pairing authority, `iroh_endpoint.rs` 956-1610, 1844-2065 | pairing records, revision and generation, active connections, the authority file | admit, challenge, verify, pair, revoke, lease drop, commit, restore | failed and unknown commits, crashes, revocation racing a handler | memory never ahead of the file, revoked stays out, the file always restorable |
| authority store, `authority_store.rs` | envelope files with a revision, a lock file | load, commit (compare and swap), delete | crash between its file steps, a stale lock | a commit is all or nothing |
| identity and runtime fence, `iroh_endpoint.rs` 310-441, 1170-1212 | identity and epoch records | load or create, advance | two first writers | one identity, epochs never repeat |
| pairing verifier, `iroh_endpoint.rs` 507-741 | attempts with a hidden workspace | begin, verify, cancel | timeouts that drop a call half way | every workspace is closed |
| bridge, `bridge.rs` | two directions, one idle timer | forward, idle, cancel | half-closed streams | ends when both directions end or nothing moves |
| socket connector, `socket.rs` | none | validate, connect | path replaced between check and connect | connects to the checked socket |
| allowlist, `allowlist.rs` | admitted certificates in a locked file | authorise, admit, revoke, reload | non-blocking file lock shared by connections | revoked peers lose their connections |
| bootstrap runtime, `bootstrap_runtime.rs` | attempts, approvals, orphaned workspaces, a file | start, submit, abort, authorise, confirm, reconcile | partial failure across a remote workspace, memory and the file | no leaked workspace, single use of approvals |
| enrollment and issuance, `enrollment.rs`, `issuance.rs`, `quic_server.rs` 1186-2660 | authorizations, issuance results | begin, attach, mark issued or rejected, reconcile | lost answers, restart between steps | at most one certificate per authorization |
| contract state machines, `bootstrap.rs`, `bootstrap_session.rs`, `enrollment_v3_session.rs` | attempts, a fence per Herdr session, workspaces, start times; one exchange on a stream | start, submit, reconcile, reap, retry cleanup; read one or two requests, write one answer | a close that fails, expiry inside another call, an arbitrary peer | a session is fenced by its live attempt, one terminal answer to the request that was asked |
| updater, `updater.rs` | staged, installed and backup binaries | download, verify, replace, roll back | crash between two renames | an executable is always in place |
| codecs, `*_wire.rs` | none | encode, decode | lengths at their limits, trailing bytes, other spellings | round trip, canonical |
| configuration, material, PKI, supervision, command line | none at run time | | | |

The parts interact as follows.  A connection task (QUIC:
`serve_connection_inner`; iroh: `run_paired_connection`) reads control frames
and changes the registry.  It spawns one stream task per incoming stream; the
tasks share the registry and a map from handles to cancellation senders.  A
stream task binds its authority, connects the socket, writes the acceptance,
and runs the bridge until it ends, its cancellation fires or (QUIC only) a
periodic look at the registry fails.  Before an iroh connection gets that far,
its handler must find or establish a pairing, which is committed to the
authority file first.

On the QUIC side a peer without a certificate speaks HDB1: it starts a
challenge, which the bootstrap runtime shows in a hidden Herdr workspace, and
sends the code back for a Core certificate.  The Core then speaks HDE3: it
submits the certificate request of an App, which goes through the issuance
results and the allowlist, confirms that the App stored its certificate, or
asks again what became of a request.  The allowlist admits the QUIC
connections, and the operator's revoke command changes the same file.

The hazards that follow from this are listed, each at its line, in
`PROJECT.json`.

## Modules

| Module | Models | Extends |
|---|---|---|
| `SessionRegistry` | the registry, alone under all calls | |
| `QuicSession` | one admitted QUIC connection | `SessionRegistry` |
| `IrohSession` | one paired iroh connection | `SessionRegistry` |
| `PairingAuthority` | the pairing state of the iroh relay, its file and its handlers | |
| `AuthorityStore` | the file store and the start-up on it: identity and runtime fence | |
| `RecordRegister` | abstract: a record that is replaced as a whole | |
| `BootstrapRuntime` | the bootstrap runtime, Herdr's workspaces, the state file | |
| `Issuance` | HDE3 handlers, issuance results, allowlist, admitted connections | |
| `Updater` | the update command and the paths it renames | |
| `BootstrapVerifier` | the contract verifier of the first bootstrap | |
| `ContractExchange` | one HDB1 or HDE3 exchange on a byte stream | |
| `QuicWire` | the binary codecs of the session plane, HDP1 included | |
| `ContractPayload` | the payloads of HDB1 and HDE3, field by field | |
| `Codecs` | one message of `QuicWire` or `ContractPayload` on its way | instances of both |
| `SessionRegistryProofs` | theorems about the registry | `SessionRegistry` |
| `QuicSessionProofs` | theorems about the QUIC connection | `QuicSession`, `SessionRegistryProofs` |
| `IrohSessionProofs` | theorems about the iroh connection | `IrohSession`, `SessionRegistryProofs` |
| `PairingAuthorityProofs` | theorems about the pairing authority and the file store, the refinement of `RecordRegister` included | `PairingAuthority`, `AuthorityStore` |
| `BootstrapRuntimeProofs` | theorems about the bootstrap runtime | `BootstrapRuntime` |
| `IssuanceProofs` | theorems about issuance and allowlist | `Issuance` |
| `UpdaterProofs` | theorems about the updater | `Updater` |
| `ContractsProofs` | theorems about the contract machines and the codecs | `BootstrapVerifier`, `ContractExchange`, `Codecs` |
| `MC*` | constants for TLC; `MCContracts` runs the two contract machines, which share nothing, side by side | |

`SessionRegistry` is both a component and the abstract specification of what
the servers do with it: the operators are conjoined into the servers' actions,
and `ServerImplementsRegistry` and `IrohImplementsRegistry` prove that the
compositions are behaviours of the registry on its own.

### SessionRegistry

Each operation runs under the registry's mutex and is one action.  The maps are
functions with a changing domain.  An `Instant` is represented by the time left
until it; `Tick` lets it pass.  The five fields every comparison goes over
(name, fingerprint, three generations) are one record, a claim.  Tokens are
drawn from a set and never repeat (32 random bytes in the code); the all-zero
token is not in the set.  `prepare` includes the reaping that both callers do
under the same lock.  `allocate_handle` scans at most 65535 numbers upwards from
`next_handle`, wrapping past 0, for one that is not in use; it is stated as the
free handle nearest after `next_handle`, which is the one the scan stops at.

### QuicSession

A step goes from one `.await` to the next and takes one lock, since the code
takes the registry's and the control map's locks one after the other.

| Model | Code |
|---|---|
| `mainPc` loop, cancel, wait, closed | the select of `serve_connection_inner`; `cancel_session` before and during its wait; the end |
| `mainPc` prepare, open, close, heartbeat, sweep | between the checks of `handle_control`, or of the tick, and the lock of the registry under which the frame or the sweep is carried out |
| `pending` | the handles a close or a sweep still has to cancel |
| `pc[s]` preface, refused, accepted, registered, connecting, accepting, written, bridging | the awaits of `serve_session_stream` |
| `pc[s]` rejecting, finish, finished, done | `reject_session`; `finish_session_control` before its first and second lock and after |
| `controls` | `session_controls`; a stream's one-shot has fired when its entry is gone, because using and dropping the sender look the same to the receiver |
| `draining`, `revoked`, `lost` | `drain_tx`; the allowlist; the connection |

`EndConnection` is every way out: the stream tasks are aborted and joined, and
the registry is dropped.  RELAY_UPDATE does not touch the session state and
ends like other frames, by continuing or by `ControlEnds`.  Answers on the wire
leave no state and are not kept.

`handle_control` looks at the drain flag and the allowlist first (`CheckFrame`)
and waits for the registry's lock before it acts (`SessionPrepare`,
`SessionOpen`, `SessionClose`, `Heartbeat`): the revocation may come in between.
`late` is a history variable that counts the frames carried out for a peer that
was revoked by then.  Streams are accepted without a look at the allowlist
(`accept_active`), so until the next tick or frame a revoked peer may still bind
a handle that is open.

Two exits of the stream task by `?` are left out because they cannot be taken:
the encoding of an accepted response (`quic_server.rs:2767`) always fits, and the
limits passed to the bridge (2810) were validated with the configuration.  Both
would skip `finish_session_control`.

### IrohSession

The mutexes here are not held across an await, so a step may touch both maps.
The differences from the QUIC server are all in the source: a stream registers
its cancellation only after the socket is connected, nothing looks at the
registry again, nothing sweeps leases, a heartbeat renews nothing, and a
refused prepare ends the connection.  `closedEarly` is a history variable: the
streams that were connecting when their session was closed.

### PairingAuthority

`conn[p]` follows the handler of a peer's connection through
`run_connection_inner`: admitted, known (paired when the control stream came
up), control, challenged, verifying, ready (serving sessions), ending.
`disk` is the committed record, `pairings`, `revision` and `generation` are
memory.  A commit succeeds, fails, or ends `Unknown` (the file is replaced and
an error returned: `write_record` fails after the rename).  `Unknown` after a
failed rename is the plain failure.  A crash may come between any two steps;
a commit is one step because the rename is its only visible effect.
`RotateIdentity` is outside the code: the relay writes identity generation 1
only, but accepts and compares any.  `barred` is a history variable: peers whose
revocation was reported as committed and that were not paired again.

The relay without a store is not modelled; it keeps nothing across a restart.
In this module a commit is one step; `AuthorityStore` shows that it may be.

### AuthorityStore and RecordRegister

`proc[p].step` follows one process through `load`, `read`, `acquire` (create the lock
file), `locked` (read and compare), `written` (temporary file), `renamed`,
directory sync and the removal of the lock, first for the identity and then for
the fence.  `file` is what readers see, `durable` what a loss of power leaves;
between rename and sync the two differ.  Every file operation may fail.  A
load looks for the lock file (`CheckLock`) and reads afterwards without holding
it, so a commit of another process may come in between.
`RemoveStaleLock` is the operator's hand: nothing in the code removes the lock
file a crash left behind, so without it the directory stays locked.
`RecordRegister` is the promise: records are replaced whole, with consecutive
revisions, and power loss takes one back at most to the last settled state.
`CommitIsAtomic` is the refinement, with `file` and `durable` as `current` and
`stable`.

### BootstrapRuntime

`call[c]` is a call with its clock value, read before it waits for the mutex;
its `pc` are the points at which the call waits for Herdr or the file.  `mem`
holds attempts, App approvals and Core approvals under one id each, `file` the
persisted projection, `open` the workspaces that exist in Herdr.  Entering a
call reaps what has expired, which closes workspaces one by one and may fail at
each.  `Restart` loads the file.  `starts` keeps the times of a peer's starts as pairs
with the id minted next, so that two starts in one second stay two; the order of
the vector in the code is never used.  Codes are right or wrong; certificates
are counted.

A file is bounded in records and in bytes (`Fits`), when it is written and when
it is read.  A record's length is `PendingBytes` or, with a certificate chain,
`CoreBytes`; chains are stored as arrays of numbers, so that the 256 KiB are used
up long before the records are counted out, and in the instance too.  A Core
that asks for an App approval or submits its code was authenticated by the
handshake (`IsCore`).  `leaked` is a history variable: workspaces that stayed
open when the result of their close was ignored (`create_and_verify`, the
rollbacks at 993 and 1351) or that only the memory knew of when the process
stopped.

### Issuance

`handler[h].pc` steps through the transactions of a submit: authorise with the
runtime, begin, issue, attach, enrol in the allowlist, mark issued, answer; and
of a confirm: look up, confirm with the runtime, reload, activate.  Every
transaction takes a try-lock that another process may hold.  The answer to a
submit or a reconcile is a step of its own (`SendAnswer`), after the files are
written: it reaches the Core, which `told` remembers, or is lost.  `results`,
`allow` and `saved` are the three files: issuance results, allowlist, and what
the runtime's state file has of the approvals, `approval` being its memory;
`cached` is the server's copy of the allowlist, which a connection's one-second
tick reloads (`Recheck`).  Certificates are numbers.

An approval of `Later` is used up by its submit and is not in the state file;
the others can be confirmed for their recovery time.  An expired one is dropped
by its own submit or confirm, or by any other call of the runtime (`OtherCalls`),
and a confirm that does not find its approval goes on, since that is how one of a
later App looks (`quic_server.rs:1975`).  The Core is the environment: it sends a
confirm for any approval with any certificate that any answer has brought it;
which of them the server accepts is decided by the record.  What a confirm
answers does not change what the Core may send next and is left out.

### Updater

`dir` says what the installed and the backup path hold and `disk` what they
held at the last directory sync.  A command goes through the lock, download,
checks, the two renames with their syncs, the check of the installed file, and
the rollback.  `image` is the path of the file a process runs: a rename moves
it.  `follows` is the platform: whether `current_exe` names that path (Linux)
or the one the command was started with.  Versions are numbers; archive and
probe are accepted or refused.  `SwapStaged` replaces the staged file after it
was hashed, which is what the check after the second rename is for.

### BootstrapVerifier and ContractExchange

The verifier is the in-memory state machine the contract sessions run against.
A session borrows it from Start to the terminal answer (`serving`) and uses one
clock value throughout; failures of the next workspace read, workspace close or
issue can be injected.  The limit on the number of peers whose starts are
remembered (`bootstrap.rs:827`) is left out: the model admits more.  The exchange is the other half: a stream of cells, a
peer that writes any frames whole or cut and stops anywhere, and the dispatcher
that reads exact lengths and writes one terminal response.

### QuicWire and ContractPayload

`QuicWire` works on byte sequences with the code's widths and offsets, since
they are what can be wrong.  `ContractPayload` keeps of a field what its checks
distinguish: length, content, spelling and whether it is there.  In both the
state machine is a message on its way: built by the code, then changed.
`Codecs` carries a message of the one or the other kind.  A hello holds no 0, since
the identity is a digest (`quic_server.rs:3572`), a generation of 0 is refused
where the server and its configuration are built (`quic_server.rs:571`,
`config.rs:1090`) and the epoch is at least 1 (`quic_server.rs:669`).  A digest is
a number that differs for different contents or lengths below 100000 bytes,
which is more than a payload holds.  For the JSON payloads `Canonical` speaks of
fields and their texts; the order of keys and the space between them are left
out.

## Runs

| Run | Instance | Result |
|---|---|---|
| `SessionRegistry` | 3 names, 4 tokens, 2 slots, 3 handles, lifetime 2 | holds |
| `QuicSession` | 2 names, 2 tokens, 2 streams, 2 slots, 3 handles, lifetime 1 | holds |
| `QuicSessionLive` | 1 name, 1 token, 2 streams | holds |
| `IrohSession` | 2 names, 2 tokens, 2 streams, 2 slots, 3 handles | holds |
| `IrohGate` | the same | violated, see below |
| `PairingAuthority` | 3 peers, 2 slots, 1 challenge, 2 failures; revisions to 3, generations to 4, 2 identities | holds |
| `AuthorityStore` | 2 processes, 2 keys, epochs to 3 | holds |
| `BootstrapRuntime` | 2 callers, 1 peer, 2 ids, 2 records, 3 bytes of which a Core approval takes 2, clock to 3, 1 restart | holds |
| `Issuance` | 2 handlers, 2 approvals of one App, 2 certificates, clock to 3, 1 crash | holds |
| `Updater` | 2 commands, 3 releases, 1 power loss, both platforms | holds |
| `Contracts` | 3 Herdr sessions, 1 peer, 4 attempts, 2 wrong codes, clock to 3; two frames of 2 ids and 2 digests | holds |
| `Codecs` | every message and payload type, two changes to each | holds |

What the passing runs show:

* **SessionRegistry.** `HandleAvailable`: an open never runs out of handles.
  `OneAuthorityPerSession`, `TokenInOnePlace`.  `NoRevival`: a token that was
  consumed, refused, closed or has lapsed is never good again.  More handles
  than slots and more tokens than handles make the registry fill up, lapse and
  reuse a handle after the wrap.
* **QuicSession.** `ForwardAuthorised`: from the re-check on, a stream task
  holds its exact authority, or its cancellation has fired, or the connection
  task is about to fire it.  `ClosedMeansStopped`: when SESSION_CLOSED is
  answered no bridge runs without authority.  `BoundHasOwner`: no error path
  leaks an authority.  `OnlyOwnerReleases`: no stream releases its sibling's
  authority.  `OneLateFrame`: after a revocation at most the one frame whose check
  had passed is carried out, and after GOAWAY no token or handle is granted.
  Two streams and two tokens give a duplicate binding, a close in every window,
  and a close followed by a reopen of the same name while the first task
  finishes.
* **QuicSessionLive.** `ConnectionEnds`, `UnownedStops`.
* **IrohSession.** `CloseReachesStream`, and `UnguardedOnlyIfClosedEarly`: the
  violation shown by `IrohGate` is the only kind there is.
* **PairingAuthority.** `AlwaysRestorable`: no history writes a file that a
  later start calls corrupt.  `PairedIsDurable`: memory never admits more than
  the file.  `RevokedStaysOut`, `SessionsNeedPairing`.  Three peers for two
  records fill the registry; three revisions allow pair, revoke, pair with a
  failure or a crash at any point.
* **AuthorityStore.** `DurableInv`: what a commit acknowledged, and the
  identity a running process serves under, survive a loss of power, although
  the identity may have been renamed into place by a process that failed before
  its sync.  `EpochIsFresh`: two processes racing at start-up never run under
  one epoch.  `CommitIsAtomic`: the refinement of `RecordRegister`.
* **BootstrapRuntime.** `RuntimeInv`: after every call the session is marked
  active exactly while one challenge is live, and one code gives one
  certificate.  `AlwaysRestorable`: restore accepts whatever file a crash leaves,
  the file names every record in memory, and the memory outgrows the file only
  by a Core approval whose certificate is issued already.  `ConfirmedForever`.
  `LeaksOnlyIgnored`: a workspace that is open will be closed, or is one of those
  whose failed close the code ignores or a restart forgot.
* **Issuance.** `IssuanceInv`: a result that says issued is about a listed
  certificate.  `ActiveWasDelivered`: a certificate is active only if an answer
  with it reached a Core and the approval it was issued for is settled, that is
  confirmed, used up or gone; a confirmation of the App's other approval, whose
  answer was lost, does not do.  After a crash the second half is not claimed,
  because a confirmation that could not be written is believed until then.
  `ListedOnceRevokedForever`.  `NoSecondWhileRetained`, whose condition counts
  from time 0, when all approvals of the model are granted: it is exact for the
  earliest result and weaker for later ones.  The liveness property
  `RevokedDisconnects`: a connection admitted by an old copy of the allowlist
  ends too.
* **Updater.** `UpdaterInv`: where `current_exe` does not follow renames, one
  of the two paths holds an executable wherever commands are killed or the
  power fails.  `AnswerIsTrue`: success means the checked release is durably
  installed with the old one as its backup; a failure that claims to have
  rolled back means the old executable is in place.
* **Contracts.** `FenceMatches`: a session is fenced by exactly the attempt
  that has not ended.  `LimitsHold`: budget of codes, start rate, retained and
  active attempts, also when the close at the limit fails and the code is sent
  again.  `ExchangeSound`: the dispatcher stays in step with the frames,
  acts on what was sent in that place, writes one terminal response naming the
  approval that was asked about, and returns Ok only for a delivered one.
* **Codecs.** `RoundTrip` (what is written is read back as itself, and what is
  accepted fits a frame), `Canonical` (what is accepted is the encoding of
  what it decodes to) and `DecodedIsUsable` (what handlers rely on).

`Contracts` and `Codecs` stop where an exchange is over or no more changes are
allowed, so deadlock is not checked there; it is in all other runs.

### Deviations

`IrohGate` is a run: a SESSION_CLOSE handled while an iroh stream connects to
the socket is answered, and the stream then forwards for the closed session
(`iroh_endpoint.rs:2382`).

The modules define, without a run, further statements that the repository makes
and the code does not keep.  Adding one to the named `.cfg` gives the trace.

* `PairingAuthority` `NoneExistedIsTrue` (`iroh_endpoint.rs:1602`).  A
  revocation whose commit failed leaves a record that the end of the connection
  drops; the retry answers that no pairing existed (1778) while the file still
  holds one.
* `PairingAuthority` `VerifiedPeerPasses` (`iroh_endpoint.rs:1525`).  A relation
  that left memory keeps the aggregate generation up, and the next verified
  peer, whose record starts at generation 1, is refused as corrupt.
* `BootstrapRuntime` `ConfirmOkIsDurable` (`bootstrap_runtime.rs:1262`).  The
  flag is set in memory before it is persisted; when that fails, a retry finds
  it set and answers Ok (1227: "durably active").
* `BootstrapRuntime` `CodeBudgetHolds` (`bootstrap_runtime.rs:1085`).  At the
  last permitted failure the workspace is closed first; when that fails the
  attempt stays, and the next right code is accepted.
* `BootstrapRuntime` `CleanupSurvivesRestart` (`bootstrap_runtime.rs:1025`).  The
  persisted projection leaves orphaned workspaces out; a restart forgets them.
* `Issuance` `ExpiredNotPromoted` (`quic_server.rs:1975`).  The comment at
  `bootstrap_runtime.rs:1245` says "Expired unconfirmed material cannot be
  promoted after its recovery window."  The approval that has expired is removed,
  by any call; a confirm that comes after that finds none, which counts as Ok, and
  the certificate is activated while its result is retained.
* `Issuance` `NeverASecondCertificate` (`issuance.rs:712`).  The retained result
  and the approval end at the same second, the one exclusively and the other
  inclusively: a submit repeated then issues another certificate.  This is why
  `NoSecondWhileRetained` carries its condition.
* `Issuance` `CandidateReconciled` (`quic_server.rs:2026`).  A certificate that
  was attached and not marked issued is answered as pending for ever; nothing
  completes the candidate.

Six more were seen while modelling and show in the models' actions:

* `bootstrap_runtime.rs:1126`.  submit inserts the Core approval before it
  persists.  When the file is full the certificate is issued and the answer is
  an error, and until the approval expires every call that has to write fails
  too; confirmed in memory it does not expire, so that this lasts until the next
  restart, which forgets it.  `MemoryFits` excepts this case.
* `bootstrap_runtime.rs:993`, `bootstrap_runtime.rs:1351`.  The rollback of a
  start that could not be persisted ignores the result of its close; a workspace
  that was not closed stays open in Herdr and nothing names it any more.

* `bin/herdogrelay.rs:245`, `updater.rs:573`.  Where `current_exe` follows a
  renamed file, a command that waited for the lock finds itself at the backup
  path; target and backup are then one path and the rollback copy is
  overwritten.  `NeverLost` excepts this platform.
* `updater.rs:665`.  A command killed between the two renames leaves the
  installed path empty and only the backup.
* `updater.rs:461`.  The downgrade check compares with the version of the running
  command, not with the file now installed.
* `bootstrap.rs:1075`.  `retry_orphaned_workspace` closes whatever workspace a
  session has, also that of an attempt waiting for its code.

### Bounds

The bounds are the constants of the `.cfg` files.  `MaxHandle` stands for
65535, `max_sessions` for at most 64, `TokenTTL` for 90 seconds.  In the server
runs there are more handles than tokens, so a handle is not given out twice
during one task's last two steps; that would take 65535 opens in the code.
`MaxGeneration`, `MaxRevision`, `MaxIdentity`, `MaxEpoch`, `MaxIds`, `MaxTime`,
`MaxBoots`, `MaxCerts`, `MaxCrashes`, `MaxVersion`, `MaxPowerLosses`,
`MaxSent`, `MaxResizes` and `MaxTampers` only stop the exploration; they appear
as guards of the actions that count up.  The limits and lifetimes of the code
keep their order and are small enough to be met: in `BootstrapRuntime` the clock
passes the code's lifetime, in `Issuance` it passes the retention of a result
while an approval still lives, and the one retained result makes the store full.
In `BootstrapRuntime` two Core approvals exceed the bytes and not the records.  In
`Contracts` the budget is two wrong codes and a third submission, which the
budget must refuse, is possible because three sessions and four ids leave room
for it within the start rate.  Three attempts may run there, one for each
session, so that this limit is reached but never exceeded by a request; the
theorem covers any number of sessions.  `Codecs` uses names of
one byte and of 64, and requests and chains at their limits and just beyond.

### Fairness

*QUIC.*  Weak fairness for the tasks' own steps: tokio polls every ready task,
and connect, rejection write, lease and drain deadlines are timers.  A frame that
was checked is carried out, and a sweep that began is finished, because nobody
holds the registry's lock across an await.  Steps that
wait for the peer or for Herdr (reading a preface, writing the acceptance,
ending the bridge) have no fairness.  Strong fairness for ending a revoked or
lost connection: the connection task leaves its select to cancel sessions and
returns, the branch is ready every time, and the select picks at random among
ready branches.  *Issuance.*  Weak fairness for the handlers'
own steps, and for the recheck of a connection, which its one-second interval
timer repeats until the connection ends.  The other specifications assume no
fairness.

## Proofs

TLAPS checks the theorems for every value of the constants that meets the
assumption of the module, however many streams, peers, handlers, processes or
ids there are; the bounds that stop TLC's exploration are arbitrary numbers
there.  Each argument has an inductive invariant, which TLC checked on the
instance of the module's run before it was proved, one lemma per action, and
lemmas about the operators.

*Assumptions.*  The constants have their types and orders as in the code: fewer
slots than handles, a code's lifetime within the hard one, lifetimes and budgets
above zero, names of processes different from the words for a free and a stale
lock, a clock that reaches 1, approval ids and frames as the exchange writes
them.  Of the codecs it is assumed that a message is one its encoder does not
refuse, that a constructor gets the arguments of its signature, and that the
JSON parser gives a field of the struct one value or null.  Some theorems rest on
more, and say so in their statement:

* `SyncSupported` (`StoreDurable`, `StoreEpochIsFresh`): `sync_directory`
  synchronises the directory.  Where the platform cannot, a loss of power may
  take back what was acknowledged.
* `FewTokens` (`ServerGate` and what follows from it, `IrohCloseReaches`): in the
  life of a connection no more sessions are prepared than there are handles,
  65535 in the code.  This is needed.  A task keeps the number of its handle
  after its authority is gone; were the number handed out again by then, its
  last steps would remove the cancellation entry of the new session.  The
  invariant behind it, `HandlesFresh`, is that until every token is spent the
  handles given out are below `next_handle`, which has counted at most the
  tokens consumed.

*Registry.*  `RegistryInvariant` proves `RegistryInv`: types, finiteness of the
two maps, `CapacityBound`, `OneAuthorityPerSession` and `TokenInOnePlace`
together.  None of them is used alone: finiteness is needed to count at all,
the type says that tokens held were minted, so that a freshly drawn token is
nowhere yet (`TokenInOnePlace`), and capacity below `MaxHandle` gives the free
handle an open needs.  The argument has three kinds of steps
(`StepKinds`): a step that only removes, ages or re-marks entries (`Shrinks`),
a granted prepare, and a granted open.  `NoRevival` and `BoundIsFinal` are
action properties proved from the same invariant and case split.  `CapacityBound`
and `BoundIsFinal` are proved and need no run.

*QUIC server.*  `ServerInvariant` adds the types of the task variables.
`ServerImplementsRegistry` is the refinement: every step of the server is a
step of the registry or leaves it alone, so all theorems about the registry
hold of the server.  `ServerBoundHasOwner` needs no strengthening beyond
`ServerInv`: a stream becomes an owner in the step that binds, and every step
that ends its ownership releases the exact handle.  `ServerOneLateFrame` rests
on what a frame under way implies: no frame passes the check of a revoked peer,
so the count is zero while a checked frame waits for the registry, and one at
most afterwards; the drain flag is changed by the connection task itself, which
cannot be between check and use then.  `ServerGate` is the cancellation gate: a bound stream's
handle is nobody else's (`HandlesOwned`), an entry of the control map is its
stream's own (`EntriesOwned`), what the connection task still has to cancel is
closed already and whom it awaits is signalled (`Cancelling`), and a task past
its re-check has its entry with its authority or with a pending cancellation
(`Gate`).  `ForwardAuthorised`, `ClosedMeansStopped` and `OnlyOwnerReleases`
follow.

*iroh.*  `IrohImplementsRegistry` is the same refinement.  `IrohInv` says whose a
token, a handle's authority and a cancellation entry are, and that a stream is
guarded or was closed while it was connecting: `UnguardedOnlyIfClosedEarly`, so
the violation in `IrohGate` is the only one for any number of streams.
`IrohCloseReaches` adds that handles are not shared.

*Pairing authority.*  `PairInv` is the conjunction of the properties with what a
map in memory and a file on disk have to be for a commit to write a file that
restores (`GoodMap`, `GoodFile`), and with a process that is down remembering
nothing.  The maximum of the generations in a file, over any finite set of
peers, is handled by the lemmas on greatest elements.

*File store.*  `StoreInv`: the lock file of a process inside a commit is its own,
what it compared still holds until its rename and what it renamed until its
sync, an identity is only ever the first record, a fence's value is its
revision, and the durable copy is never ahead.  `StoreCommitIsAtomic` maps each
step to one of `RecordRegister` or to a stutter.  `Settled` adds, with
synchronisation, that what is renamed is not yet acknowledged.

*Bootstrap runtime.*  One caller holds the mutex; `CallOk` says what it knows at
the step it has come to (for example that no orphans are recorded while it
reaps them, that what it has reaped is closed, that there is no challenge while
it creates one).  Records evolve in few ways (`Evolves`): pending ones are
dropped, count a failure or become an approval; approvals are dropped or
confirmed; a confirmed one stays.  Whatever of this is written, restorable files
stay restorable, and what is confirmed on disk stays (`BootConfirmedForever`).
`BootAlwaysRestorable` needs how memory and file are related while a call holds
the mutex (`Recorded`): a record in memory is in the file, as it is or as the
attempt it came from.  A file is replaced only by one that fits.  A memory that
fits keeps fitting when records are dropped, counted or confirmed, and start and
start_app_approval keep a new record only when it was written with the rest;
what is left is the approval that submit inserted and could not write.
`BootLeaksOnlyIgnored` follows a workspace from the step that opens it to the one
that closes it, through the record, the list of orphans and the call under way.

*Issuance.*  `Knows` says what a handler may rely on from one transaction to the
next although no lock covers both files: that the certificate it is about to
mark is listed, that the one it activates was told to the Core.  A confirm may
name any certificate, so `ActiveWasDelivered` also needs whose it is (`Owned`):
every fingerprint in a record, an answer or a handler was made for that approval,
and for no other.  A record that carries the fingerprint of the confirm is then
the record of the approval it was made for, and that one the step before has
settled.  Nothing that was told and nothing that was settled is undone (`Learns`), so
this stays true under the other handlers' steps.
`NoSecondWhileRetained` is an argument over time (`OneUnderWay`): until the clock
reaches the retention of a result no transaction can prune one, not even with
the time at which its submit began.

*Updater.*  `Knows` says what the holder of the lock knows of the two paths at
each step; a killed command leaves only `Startable` behind, and the next holder
starts from that.  `AnswerIsTrue` follows from the step before the answer.

*Contract machines.*  `ExchangeInv`: what the dispatcher has not read yet is,
from where it stands, a sequence of the frames the peer sent, the last perhaps
cut (`Framed`); inside a frame it stands behind the header it read (`AtFrame`,
`InStep`).  With this a payload read is the payload of the frame whose header was
accepted, and every answer can be tied to what was asked (`Conversing`).  The
peer's writes only extend the end of the stream, which the lemmas on dropping a
prefix of a concatenation deal with.  `VerifierInv` is about the ledger of
attempts, fences, workspaces and starts: the fence of a session and its live
attempt match (`Matches`), the limits hold (`Limited`), ids not minted have left
no trace, and the codes spent and the starts made in a window are within what is
recorded.  Cleanup, expiry and pruning inside other calls are functions on the
ledger that keep it one (`Evolves`), so each call is a chain of such steps.

*Codecs.* `CodecInv` says that on the wire there is a byte string, any byte
string, and on the contract side at most one payload with the fields of its
struct, the one its constructor built until a field is replaced.  That every
decoder is canonical is then proved for all of them: the slices it compares and
takes cover the string without a gap (`SliceJoin`, `SliceAll`), each field is
the encoding of its value, and the lengths written are the lengths found.
`TakesExactly` follows from the layout the encoders write.  The payload decoders
are canonical because every text is compared with the encoding of what it
decodes to; the size of a chain is a function of the sizes of its certificates,
which the two sides share.  `MessagesRoundTrip` is the other direction.  A field
written behind a string is found there (`Written`), and stays where it is when
more follows (`StartsAs`), so each decoder takes the slices its encoder wrote;
the numbers are recovered from their bytes (`U16Read`, `U32Read`, `NameRead`).
A constructor that does not refuse its arguments has checked what the decoder
checks (`NewBack`).  That an accepted payload fits a frame needs a bound on a
sum: no struct has more than nine fields or more than one long one
(`ShortLayout`), and a chain at most eight certificates, so the running totals
of `SumOf` are bounded without an induction over sequences of any length
(`SumAtMost`, `SumScaled`, `AcceptedFits`).

### Only model-checked

Liveness: `ConnectionEnds`, `UnownedStops`, `RevokedDisconnects`.  Fairness is out
of the prover's reach.  Every invariant of a passing run is stated by a theorem.

## Plan

Done: the registry, both session planes, the pairing authority, the file store
with its refinement, the bootstrap runtime, issuance and allowlist, the updater,
the contract machines and the codecs in use, and the proofs of their safety
properties for every instance.

Next, in this order:

1. The verification workspaces of the pairing verifier under timeouts.
2. The bridge: two directions and one idle timer.

## Not modelled

* The pairing verifier's workspaces (`iroh_endpoint.rs` 507-741): begin and
  verify are outcomes in `PairingAuthority`.
* Bridge and socket connector: the session models use that a bridge ends and
  that a connect succeeds or fails.
* The handshake and RELAY_UPDATE of the QUIC server, and the tasks that read
  control frames off a stream into a channel.
* `AuthorityStore::delete`, `mark_rejected` and other functions nothing calls.
* HDE1, HDE2, the enrollment and reconciliation wires and the enrollment fakes
  of the test support: historical or used by tests only.
* Configuration, key material, PKI, service files and the command line, which
  keep no protocol state.
