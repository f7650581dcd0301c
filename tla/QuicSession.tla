----------------------------- MODULE QuicSession -----------------------------
(***************************************************************************)
(* One authenticated connection of the QUIC server (quic_server.rs): the   *)
(* connection task with its control loop, the stream tasks it spawns, the  *)
(* registry and the map of cancellation handles they share.                *)
(*                                                                         *)
(* The tasks interleave at every `.await'; a step runs from one await to   *)
(* the next and takes at most one of the two locks, the registry's or that *)
(* of `session_controls'.  Requests come from a Core that sends whatever   *)
(* it likes; answers on the wire leave no state behind and are not kept.   *)
(***************************************************************************)
EXTENDS SessionRegistry

CONSTANTS Streams, NoStream, NoBinding

VARIABLES
    mainPc,     \* the connection task: at its select, about to carry out a
                \* checked frame or a sweep, cancelling, waiting, gone
    pending,    \* handles the connection task still has to cancel
    awaiting,   \* the stream whose end cancel_session waits for
    pc,         \* where each stream task is
    binding,    \* what each stream presented
    controls,   \* session_controls: handle -> stream holding the receiver
    draining,   \* a shutdown was broadcast (drain_tx) and GOAWAY sent
    revoked,    \* the allowlist file no longer admits this peer
    lost,       \* the QUIC connection is closed
    late        \* history: frames carried out since the peer was revoked

taskVars == <<mainPc, pending, awaiting, pc, binding, controls>>
envVars  == <<draining, revoked, lost>>
vars     == <<registryVars, taskVars, envVars, late>>

Smallest(S) == CHOOSE x \in S : \A y \in S : x <= y

\* The frames that reach the registry, and the place where the connection
\* task awaits its lock for each.
FrameKinds == {"prepare", "open", "close", "heartbeat"}

\* A stream task between registering its cancellation and finishing.
Cancellable == {"registered", "connecting", "accepting", "written", "bridging"}
\* A stream task that accept_active has let through and that has not finished.
Bound == Cancellable \cup {"accepted", "rejecting", "finish", "finished"}

StreamStates == Bound \cup {"idle", "preface", "refused", "done"}

\* The oneshot fires when its sender is used or dropped, that is as soon as
\* the entry is no longer in the map.
CancelSignalled(s) ==
    ~ \E h \in DOMAIN controls : controls[h] = s

Init ==
    /\ new
    /\ mainPc = "loop" /\ pending = {} /\ awaiting = NoStream
    /\ pc = [s \in Streams |-> "idle"]
    /\ binding = [s \in Streams |-> NoBinding]
    /\ controls = << >>
    /\ draining = FALSE /\ revoked = FALSE /\ lost = FALSE /\ late = 0

-----------------------------------------------------------------------------
(* The connection task: serve_connection_inner and handle_control.          *)

\* Every way out aborts and joins the stream tasks; the registry goes with
\* the connection.
EndConnection ==
    /\ mainPc' = "closed" /\ pending' = {} /\ awaiting' = NoStream
    /\ pc' = [s \in Streams |-> "idle"]
    /\ binding' = [s \in Streams |-> NoBinding]
    /\ controls' = << >>
    /\ invalidate_connection

\* Mutant: the allowlist is looked at only before a session is granted.
CheckFrameNewSessions(kind) ==
    /\ mainPc = "loop"
    /\ kind \in {"prepare", "open"} => ~draining /\ ~revoked
    /\ kind = "prepare" => minted # Tokens
    /\ mainPc' = kind
    /\ UNCHANGED <<pending, awaiting, pc, binding, controls,
                   registryVars, envVars, late>>

(***************************************************************************)
(* A frame is read and checked: no session is prepared or opened while     *)
(* draining, and the reloaded allowlist admits the peer.  The allowlist is *)
(* unlocked again before the registry's lock is awaited, so the peer may   *)
(* be revoked, leases may lapse and streams may run before the frame is    *)
(* carried out.  (Tokens bounds the prepares: a fresh one is always at     *)
(* hand in the code.)                                                      *)
(***************************************************************************)
CheckFrame(kind) ==
    /\ mainPc = "loop" /\ ~revoked
    /\ kind \in {"prepare", "open"} => ~draining
    /\ kind = "prepare" => minted # Tokens
    /\ mainPc' = kind
    /\ UNCHANGED <<pending, awaiting, pc, binding, controls,
                   registryVars, envVars, late>>

\* The checked frame is carried out under the registry's lock.
CarryOut(kind, next) ==
    /\ mainPc = kind
    /\ mainPc' = next
    /\ late' = IF revoked THEN late + 1 ELSE late
    /\ UNCHANGED <<awaiting, pc, binding, controls, envVars>>

SessionPrepare(session, fingerprint, generation, token) ==
    /\ CarryOut("prepare", "loop")
    /\ prepare(session, fingerprint, generation, token)
    /\ UNCHANGED pending

SessionOpen(token, claim) ==
    /\ CarryOut("open", "loop")
    /\ open_request(token, claim)
    /\ UNCHANGED pending

SessionClose(handle) ==
    /\ CarryOut("close", "cancel")
    /\ close(handle)
    /\ pending' = {handle}

Heartbeat(entries) ==
    /\ CarryOut("heartbeat", "loop")
    /\ renew_batch(entries)
    /\ UNCHANGED pending

(***************************************************************************)
(* GOAWAY, a malformed or unexpected frame, the end of the control stream, *)
(* an installed update, a lost connection, or any frame or expiry tick of  *)
(* a peer the allowlist no longer admits.                                  *)
(***************************************************************************)
ControlEnds ==
    /\ mainPc = "loop"
    /\ EndConnection
    /\ UNCHANGED <<envVars, late>>

\* The once-a-second tick finds the peer still admitted ...
ExpiryTick ==
    /\ mainPc = "loop" /\ ~revoked
    /\ mainPc' = "sweep"
    /\ UNCHANGED <<pending, awaiting, pc, binding, controls,
                   registryVars, envVars, late>>

\* ... and sweeps its registry.
ReapExpired ==
    /\ mainPc = "sweep"
    /\ reap_expired_handles
    /\ pending' = ExpiredHandles
    /\ mainPc' = IF ExpiredHandles = {} THEN "loop" ELSE "cancel"
    /\ UNCHANGED <<awaiting, pc, binding, controls, envVars, late>>

\* Mutant: cancel_session does not wait for the bridge to be dropped.
CancelSessionNoWait ==
    /\ mainPc = "cancel"
    /\ LET handle == Smallest(pending)
           rest   == pending \ {handle}
       IN  /\ pending' = rest
           /\ controls' = Without(controls, {handle})
           /\ mainPc' = IF rest = {} THEN "loop" ELSE "cancel"
    /\ UNCHANGED <<awaiting, pc, binding, registryVars, envVars, late>>

\* cancel_session: take the handle's entry and use its sender ...
CancelSession ==
    /\ mainPc = "cancel"
    /\ LET handle == Smallest(pending)
           rest   == pending \ {handle}
       IN  /\ pending' = rest
           /\ controls' = Without(controls, {handle})
           /\ IF handle \in DOMAIN controls
              THEN mainPc' = "wait" /\ awaiting' = controls[handle]
              ELSE /\ mainPc' = IF rest = {} THEN "loop" ELSE "cancel"
                   /\ UNCHANGED awaiting
    /\ UNCHANGED <<pc, binding, registryVars, envVars, late>>

(***************************************************************************)
(* ... then wait for the task to drop its resources.  The wait is bounded  *)
(* by the handshake timeout, which only a task that is writing a rejection *)
(* to a slow peer can outlast: everywhere else a signalled task is ready   *)
(* to run.                                                                 *)
(***************************************************************************)
CancelWaited ==
    /\ mainPc = "wait"
    /\ pc[awaiting] \in {"done", "rejecting"}
    /\ mainPc' = IF pending = {} THEN "loop" ELSE "cancel"
    /\ awaiting' = NoStream
    /\ UNCHANGED <<pending, pc, binding, controls, registryVars, envVars, late>>

AcceptStream(s) ==
    /\ mainPc = "loop" /\ ~draining /\ ~lost
    /\ pc[s] = "idle"
    /\ pc' = [pc EXCEPT ![s] = "preface"]
    /\ UNCHANGED <<mainPc, pending, awaiting, binding, controls,
                   registryVars, envVars, late>>

\* join_next: while draining, the end of the last task ends the connection.
JoinStream(s) ==
    /\ mainPc = "loop"
    /\ pc[s] = "done"
    /\ IF draining /\ \A r \in Streams \ {s} : pc[r] = "idle"
       THEN EndConnection
       ELSE /\ pc' = [pc EXCEPT ![s] = "idle"]
            /\ binding' = [binding EXCEPT ![s] = NoBinding]
            /\ UNCHANGED <<mainPc, pending, awaiting, controls, registryVars>>
    /\ UNCHANGED <<envVars, late>>

DrainStarts ==
    /\ mainPc = "loop" /\ ~draining
    /\ draining' = TRUE
    /\ UNCHANGED <<revoked, lost, taskVars, registryVars, late>>

\* Mutant: the drain waits for the streams without a deadline.
DrainAwaitsStreams ==
    /\ draining /\ mainPc = "loop"
    /\ \A s \in Streams : pc[s] = "idle"
    /\ EndConnection
    /\ UNCHANGED <<envVars, late>>

\* The deadline of the drain: the connection's own timer, or serve_until
\* aborting the connection task wherever it is.
DrainDeadline ==
    /\ draining /\ mainPc # "closed"
    /\ EndConnection
    /\ UNCHANGED <<envVars, late>>

-----------------------------------------------------------------------------
(* A stream task: serve_session_stream.                                     *)

\* The task goes from one await to the next; the connection task stays put.
Move(s, from, to) ==
    /\ pc[s] \in from
    /\ pc' = [pc EXCEPT ![s] = to]
    /\ UNCHANGED <<mainPc, pending, awaiting>>

ReadBinding(s, b) ==
    /\ Move(s, {"preface"},
            IF AcceptResult(b) = "Accepted" THEN "accepted" ELSE "refused")
    /\ binding' = [binding EXCEPT ![s] = b]
    /\ accept_active(b)
    /\ UNCHANGED <<controls, envVars, late>>

\* An unreadable or late preface closes the whole connection.
MalformedPreface(s) ==
    /\ Move(s, {"preface"}, "done")
    /\ lost' = TRUE
    /\ UNCHANGED <<binding, controls, draining, revoked, registryVars, late>>

\* Mutant: a refused stream closes the handle it named, whoever holds it.
RejectRefusedByHandle(s) ==
    /\ Move(s, {"refused"}, "done")
    /\ close(binding[s].handle)
    /\ UNCHANGED <<binding, controls, envVars, late>>

\* reject_session without close_bound.
RejectRefused(s) ==
    /\ Move(s, {"refused"}, "done")
    /\ close_unbound_if_exact(binding[s])
    /\ UNCHANGED <<binding, controls, envVars, late>>

RegisterControl(s) ==
    /\ Move(s, {"accepted"}, "registered")
    /\ controls' = With(controls, binding[s].handle, s)
    /\ UNCHANGED <<binding, registryVars, envVars, late>>

\* Mutant: the authority is not looked at again after registration.
SkipRecheck(s) ==
    /\ Move(s, {"registered"}, "connecting")
    /\ UNCHANGED <<binding, controls, registryVars, envVars, late>>

\* A close that came between acceptance and registration found nothing to
\* cancel, so the authority is looked at again.
RecheckAuthority(s) ==
    /\ Move(s, {"registered"},
            IF active_bound_exact(binding[s]) THEN "connecting" ELSE "finish")
    /\ UNCHANGED <<binding, controls, registryVars, envVars, late>>

Connected(s) ==
    /\ Move(s, {"connecting"}, "accepting")
    /\ UNCHANGED <<binding, controls, registryVars, envVars, late>>

\* The socket is not available in time: reject_session with close_bound.
ConnectFailed(s) ==
    /\ Move(s, {"connecting"}, "rejecting")
    /\ close_exact(binding[s])
    /\ UNCHANGED <<binding, controls, envVars, late>>

RejectionWritten(s) ==
    /\ Move(s, {"rejecting"}, "finish")
    /\ UNCHANGED <<binding, controls, registryVars, envVars, late>>

AcceptanceWritten(s) ==
    /\ Move(s, {"accepting"}, "written")
    /\ UNCHANGED <<binding, controls, registryVars, envVars, late>>

AcceptanceFailed(s) ==
    /\ Move(s, {"accepting"}, "finish")
    /\ UNCHANGED <<binding, controls, registryVars, envVars, late>>

\* The last look at the registry before bytes are forwarded.
StartBridge(s) ==
    /\ Move(s, {"written"},
            IF active_bound_exact(binding[s]) THEN "bridging" ELSE "finish")
    /\ UNCHANGED <<binding, controls, registryVars, envVars, late>>

\* Either side ends, fails or stays idle for too long (bridge::run).
BridgeEnds(s) ==
    /\ Move(s, {"bridging"}, "finish")
    /\ UNCHANGED <<binding, controls, registryVars, envVars, late>>

LeaseTick(s) ==
    /\ Move(s, {"bridging"}, "finish")
    /\ ~active_bound_exact(binding[s])
    /\ UNCHANGED <<binding, controls, registryVars, envVars, late>>

\* Mutant: the cancellation is not awaited while the acceptance is written.
CancelledNotAccepting(s) ==
    /\ CancelSignalled(s)
    /\ Move(s, {"connecting", "bridging"}, "finish")
    /\ UNCHANGED <<binding, controls, registryVars, envVars, late>>

Cancelled(s) ==
    /\ CancelSignalled(s)
    /\ Move(s, {"connecting", "accepting", "bridging"}, "finish")
    /\ UNCHANGED <<binding, controls, registryVars, envVars, late>>

\* finish_session_control, first half: drop the cancellation entry.
FinishControl(s) ==
    /\ Move(s, {"finish"}, "finished")
    /\ controls' = Without(controls, {binding[s].handle})
    /\ UNCHANGED <<binding, registryVars, envVars, late>>

\* Mutant: the authority is left in the registry.
FinishRegistryForgotten(s) ==
    /\ Move(s, {"finished"}, "done")
    /\ UNCHANGED <<binding, controls, registryVars, envVars, late>>

\* Second half: release the handle and notify the waiting connection task.
FinishRegistry(s) ==
    /\ Move(s, {"finished"}, "done")
    /\ close(binding[s].handle)
    /\ UNCHANGED <<binding, controls, envVars, late>>

-----------------------------------------------------------------------------
(* The environment: the clock, the allowlist file and the network.          *)

TimePasses ==
    /\ mainPc # "closed"
    /\ Tick
    /\ UNCHANGED <<taskVars, envVars, late>>

RevokePeer ==
    /\ ~revoked /\ mainPc # "closed"
    /\ revoked' = TRUE
    /\ UNCHANGED <<draining, lost, taskVars, registryVars, late>>

ConnectionLost ==
    /\ ~lost /\ mainPc # "closed"
    /\ lost' = TRUE
    /\ UNCHANGED <<draining, revoked, taskVars, registryVars, late>>

Gone == mainPc = "closed" /\ UNCHANGED vars

-----------------------------------------------------------------------------
FrameChecked == \E kind \in FrameKinds : CheckFrame(kind)

\* What the checked frame holds is chosen when it is carried out.
FrameCarriedOut ==
    \/ \E s \in Sessions, f \in Fingerprints, g \in Generations, t \in Tokens :
          SessionPrepare(s, f, g, t)
    \/ \E t \in Tokens, c \in Claims : SessionOpen(t, c)
    \/ \E h \in Handles : SessionClose(h)
    \/ \E e \in Heartbeats : Heartbeat(e)

\* The steps of a stream task that wait for nobody but the scheduler or a
\* timer of its own.
StreamRuns(s) ==
    \/ RejectRefused(s) \/ RegisterControl(s) \/ RecheckAuthority(s)
    \/ Connected(s) \/ ConnectFailed(s) \/ RejectionWritten(s)
    \/ StartBridge(s) \/ LeaseTick(s) \/ Cancelled(s)
    \/ FinishControl(s) \/ FinishRegistry(s)

\* The steps that wait for the peer or for the Herdr socket.
StreamPeer(s) ==
    \/ \E b \in Bindings : ReadBinding(s, b)
    \/ MalformedPreface(s)
    \/ AcceptanceWritten(s) \/ AcceptanceFailed(s) \/ BridgeEnds(s)

Next ==
    \/ FrameChecked \/ FrameCarriedOut \/ ControlEnds
    \/ ExpiryTick \/ ReapExpired
    \/ CancelSession \/ CancelWaited
    \/ DrainStarts \/ DrainDeadline
    \/ \E s \in Streams :
          AcceptStream(s) \/ JoinStream(s) \/ StreamRuns(s) \/ StreamPeer(s)
    \/ TimePasses \/ RevokePeer \/ ConnectionLost
    \/ Gone

Safe == Init /\ [][Next]_vars

\* How the server stops: by a revoked peer's next tick or a lost connection.
MustEnd == (revoked \/ lost) /\ ControlEnds

(***************************************************************************)
(* Fairness: every ready task is polled; timers fire; the registry's lock, *)
(* held by nobody across an await, is granted.  The connection task        *)
(* leaves its select and comes back to it, but tokio picks among the ready *)
(* branches at random, so a branch that stays ready is taken: strong       *)
(* fairness for MustEnd.                                                   *)
(***************************************************************************)
Spec ==
    /\ Safe
    /\ WF_vars(FrameCarriedOut) /\ WF_vars(ReapExpired)
    /\ WF_vars(CancelSession) /\ WF_vars(CancelWaited)
    /\ WF_vars(DrainDeadline) /\ SF_vars(MustEnd)
    /\ \A s \in Streams : WF_vars(StreamRuns(s))

-----------------------------------------------------------------------------
(* Properties.                                                              *)

TaskTypeOK ==
    /\ mainPc \in FrameKinds \cup {"loop", "sweep", "cancel", "wait", "closed"}
    /\ pending \subseteq Handles
    /\ mainPc = "cancel" => pending # {}
    /\ awaiting \in Streams \cup {NoStream}
    /\ mainPc = "wait" => awaiting \in Streams
    /\ pc \in [Streams -> StreamStates]
    /\ binding \in [Streams -> Bindings \cup {NoBinding}]
    /\ \A s \in Streams :
          pc[s] \in Bound \cup {"refused"} => binding[s] \in Bindings
    /\ DOMAIN controls \subseteq Handles
    /\ \A h \in DOMAIN controls : controls[h] \in Streams
    /\ {draining, revoked, lost} \subseteq BOOLEAN
    /\ late \in Nat

\* The type of the whole state: the connection task knows what it cancels and
\* whom it waits for, and a task past its preface has a well-formed binding.
TypeOK == RegistryTypeOK /\ TaskTypeOK

Holds(s) == Exact(binding[s]) /\ active[binding[s].handle].bound

\* Nobody forwards unnoticed: a task past its re-check still holds its exact
\* bound authority, or its cancellation is signalled, or the connection task
\* is about to signal it.  Losing the authority at any await in between must
\* not leave a bridge that nothing will stop.
ForwardAuthorised ==
    \A s \in Streams :
        pc[s] \in {"connecting", "accepting", "written", "bridging"} =>
            \/ Holds(s)
            \/ CancelSignalled(s)
            \/ binding[s].handle \in pending

\* When the connection task is back at its select, so that SESSION_CLOSED was
\* answered or an expired lease was swept, no bridge runs without authority.
ClosedMeansStopped ==
    mainPc = "loop" => \A s \in Streams : pc[s] = "bridging" => Holds(s)

\* Every bound authority belongs to a task that will release it: no error
\* path leaves the session name blocked and the capacity used up.
BoundHasOwner ==
    \A h \in DOMAIN active :
        active[h].bound =>
            \E s \in Streams : pc[s] \in Bound /\ Holds(s)
                               /\ binding[s].handle = h

\* A bound authority goes only by the connection task's close or sweep, or by
\* a step of the stream that is bound to it: "a duplicate/rejected stream may
\* not close an already-bound sibling authority".
OnlyOwnerReleases ==
    [][\A h \in DOMAIN active \ DOMAIN active' :
          active[h].bound =>
             \/ mainPc' = "closed"
             \/ mainPc \in {"close", "sweep"} /\ h \in pending'
             \/ \E s \in Streams : /\ pc'[s] # pc[s] /\ pc[s] \in Bound
                                   /\ Holds(s) /\ binding[s].handle = h]_vars

\* The checks of handle_control still hold when the frame is carried out an
\* await later, up to one frame: at most the one control frame whose allowlist
\* check had passed is carried out for a revoked peer, however its frames, the
\* ticks and the revocation interleave; and once GOAWAY is sent no token and no
\* handle is granted, although leases may still be renewed.
OneLateFrame ==
    [][/\ late' <= 1
       /\ draining => /\ DOMAIN prepared' \subseteq DOMAIN prepared
                      /\ DOMAIN active' \subseteq DOMAIN active]_vars

\* A revoked peer, a lost or malformed connection and a drain end the
\* connection, whatever its streams are doing.
ConnectionEnds == (revoked \/ lost \/ draining) ~> (mainPc = "closed")

\* A task whose authority is gone stops, and releases what it registered.
UnownedStops ==
    \A s \in Streams :
        (pc[s] \in Cancellable /\ ~Holds(s)) ~> (pc[s] \notin Cancellable)
=============================================================================
