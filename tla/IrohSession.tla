----------------------------- MODULE IrohSession -----------------------------
(***************************************************************************)
(* One paired connection of the iroh relay (iroh_endpoint.rs): the control *)
(* loop of run_paired_connection and the stream tasks it spawns.           *)
(*                                                                         *)
(* The relay runs on tokio's current-thread runtime and both maps are      *)
(* behind plain mutexes, so a step runs from one `.await' to the next and  *)
(* may touch the registry and the cancellation map together.               *)
(***************************************************************************)
EXTENDS SessionRegistry

CONSTANTS Streams, NoStream, NoBinding

ASSUME IrohAssumption == NoStream \notin Streams

VARIABLES
    serving,    \* the control loop runs
    pc,         \* where each stream task is
    binding,    \* the accepted binding of each stream
    controls,   \* session_controls: handle -> stream holding the receiver
    closedEarly, \* history: streams that were connecting at their SESSION_CLOSE
    shutdown    \* the endpoint is shutting down

taskVars == <<serving, pc, binding, controls, closedEarly>>
vars == <<registryVars, taskVars, shutdown>>

StreamStates == {"idle", "preface", "answering",
                 "connecting", "accepting", "bridging"}

\* A stream that accept_active has let through.
Bound == {"connecting", "accepting", "bridging"}

Running == {s \in Streams : pc[s] # "idle"}

Holds(s) == Exact(binding[s]) /\ active[binding[s].handle].bound

CancelSignalled(s) == ~ \E h \in DOMAIN controls : controls[h] = s

Init ==
    /\ new
    /\ serving = TRUE
    /\ pc = [s \in Streams |-> "idle"]
    /\ binding = [s \in Streams |-> NoBinding]
    /\ controls = << >>
    /\ closedEarly = {}
    /\ shutdown = FALSE

-----------------------------------------------------------------------------
(* The control loop: run_paired_connection and handle_hdqm_frame.           *)

\* Cancel, abort and join the stream tasks, then invalidate the registry.
EndConnection ==
    /\ serving' = FALSE
    /\ pc' = [s \in Streams |-> "idle"]
    /\ binding' = [s \in Streams |-> NoBinding]
    /\ controls' = << >>
    /\ closedEarly' = {}
    /\ invalidate_connection

\* A SESSION_PREPARE that is refused, even for want of capacity, is a protocol
\* error and ends the connection.
SessionPrepare(session, fingerprint, generation, token) ==
    /\ serving
    /\ IF PrepareResult(generation) = "Prepared"
       THEN prepare(session, fingerprint, generation, token)
            /\ UNCHANGED taskVars
       ELSE EndConnection
    /\ UNCHANGED shutdown

SessionOpen(token, claim) ==
    /\ serving
    /\ open_request(token, claim)
    /\ UNCHANGED <<taskVars, shutdown>>

\* Mutant: SESSION_CLOSE leaves the cancellation unused.
SessionCloseNoCancel(handle) ==
    /\ serving
    /\ close(handle)
    /\ closedEarly' = closedEarly \cup
         {s \in Streams : pc[s] = "connecting" /\ binding[s].handle = handle}
    /\ UNCHANGED <<serving, pc, binding, controls, shutdown>>

\* Drop the authority and, when the stream has registered one by now, use its
\* cancellation.  SESSION_CLOSED is answered at once.
SessionClose(handle) ==
    /\ serving
    /\ close(handle)
    /\ controls' = Without(controls, {handle})
    /\ closedEarly' = closedEarly \cup
         {s \in Streams : pc[s] = "connecting" /\ binding[s].handle = handle}
    /\ UNCHANGED <<serving, pc, binding, shutdown>>

\* GOAWAY, a read or write error, or the end of the connection.
ControlEnds ==
    /\ serving
    /\ EndConnection
    /\ UNCHANGED shutdown

\* The first branch of the biased select.
ShutdownBranch ==
    /\ shutdown /\ serving
    /\ EndConnection
    /\ UNCHANGED shutdown

\* A stream that finds no session slot is answered and dropped.
AcceptStream(s) ==
    /\ serving
    /\ pc[s] = "idle"
    /\ Cardinality(Running) < max_sessions
    /\ pc' = [pc EXCEPT ![s] = "preface"]
    /\ UNCHANGED <<serving, closedEarly, shutdown>>
    /\ UNCHANGED <<binding, controls, registryVars>>

-----------------------------------------------------------------------------
(* A stream task: run_session_stream.                                       *)

\* The task returns and its permit is dropped.
Return(s) ==
    /\ pc' = [pc EXCEPT ![s] = "idle"]
    /\ binding' = [binding EXCEPT ![s] = NoBinding]
    /\ closedEarly' = closedEarly \ {s}
    /\ UNCHANGED <<serving, shutdown>>

\* The task goes on to its next await.
Advance(s, to) ==
    /\ pc' = [pc EXCEPT ![s] = to]
    /\ UNCHANGED <<serving, closedEarly, shutdown>>

\* A binding that is refused is answered and nothing is released.
ReadBinding(s, b) ==
    /\ pc[s] = "preface"
    /\ accept_active(b)
    /\ UNCHANGED controls
    /\ IF AcceptResult(b) = "Accepted"
       THEN /\ Advance(s, "connecting")
            /\ binding' = [binding EXCEPT ![s] = b]
       ELSE Advance(s, "answering") /\ UNCHANGED binding

\* The preface is malformed or late.
PrefaceFails(s) ==
    /\ pc[s] = "preface"
    /\ Return(s)
    /\ UNCHANGED <<controls, registryVars>>

close_binding(s) == close_exact(binding[s])

\* No connector, an invalid socket or a failed connect.
SocketUnavailable(s) ==
    /\ pc[s] = "connecting"
    /\ close_binding(s)
    /\ Advance(s, "answering")
    /\ binding' = [binding EXCEPT ![s] = NoBinding]
    /\ UNCHANGED controls

\* The rejection is written, or cannot be; until then the slot is taken.
Answered(s) ==
    /\ pc[s] = "answering"
    /\ Return(s)
    /\ UNCHANGED <<controls, registryVars>>

\* Mutant: the cancellation is registered after the acceptance is written.
ConnectedUnregistered(s) ==
    /\ pc[s] = "connecting"
    /\ Advance(s, "accepting")
    /\ UNCHANGED <<binding, controls, registryVars>>

\* The socket is connected: register the cancellation and go on to write the
\* acceptance.  An entry that is already there is replaced and the task gives
\* up; the entry it leaves behind has no receiver any more.
Connected(s) ==
    /\ pc[s] = "connecting"
    /\ LET handle == binding[s].handle
       IN  IF handle \in DOMAIN controls
           THEN /\ controls' = With(controls, handle, NoStream)
                /\ close_binding(s)
                /\ Return(s)
           ELSE /\ controls' = With(controls, handle, s)
                /\ Advance(s, "accepting")
                /\ UNCHANGED <<binding, registryVars>>

AcceptanceWritten(s) ==
    /\ pc[s] = "accepting"
    /\ Advance(s, "bridging")
    /\ UNCHANGED <<binding, controls, registryVars>>

\* The write fails and the task returns at once: neither the authority nor
\* the cancellation entry is taken back.
AcceptanceFailed(s) ==
    /\ pc[s] = "accepting"
    /\ controls' = [h \in DOMAIN controls |->
                      IF controls[h] = s THEN NoStream ELSE controls[h]]
    /\ Return(s)
    /\ UNCHANGED registryVars

Finish(s) ==
    /\ pc[s] = "bridging"
    /\ close_binding(s)
    /\ controls' = Without(controls, {binding[s].handle})
    /\ Return(s)

\* Either side of the bridge ends, fails or stays idle for too long.
BridgeEnds(s) == Finish(s)

\* The cancellation is seen while bridging only, not while writing.
Cancelled(s) == CancelSignalled(s) /\ Finish(s)

-----------------------------------------------------------------------------
TimePasses ==
    /\ serving
    /\ Tick
    /\ UNCHANGED <<taskVars, shutdown>>

BeginShutdown ==
    /\ ~shutdown /\ serving
    /\ shutdown' = TRUE
    /\ UNCHANGED <<taskVars, registryVars>>

Gone == ~serving /\ UNCHANGED vars

ControlFrame ==
    \/ \E s \in Sessions, f \in Fingerprints, g \in Generations, t \in Tokens :
          SessionPrepare(s, f, g, t)
    \/ \E t \in Tokens, c \in Claims : SessionOpen(t, c)
    \/ \E h \in Handles : SessionClose(h)

StreamStep(s) ==
    \/ \E b \in Bindings : ReadBinding(s, b)
    \/ PrefaceFails(s) \/ SocketUnavailable(s) \/ Answered(s) \/ Connected(s)
    \/ AcceptanceWritten(s) \/ AcceptanceFailed(s)
    \/ BridgeEnds(s) \/ Cancelled(s)

Next ==
    \/ ControlFrame \/ ControlEnds \/ ShutdownBranch
    \/ \E s \in Streams : AcceptStream(s) \/ StreamStep(s)
    \/ TimePasses \/ BeginShutdown \/ Gone

Spec == Init /\ [][Next]_vars

-----------------------------------------------------------------------------
(* Properties.                                                              *)

\* The type of the tasks' state.
TypeOK ==
    /\ RegistryTypeOK
    /\ {serving, shutdown} \subseteq BOOLEAN
    /\ pc \in [Streams -> StreamStates]
    /\ binding \in [Streams -> Bindings \cup {NoBinding}]
    /\ \A s \in Streams : pc[s] \in Bound => binding[s] \in Bindings
    /\ DOMAIN controls \subseteq Handles
    /\ \A h \in DOMAIN controls : controls[h] \in Streams \cup {NoStream}
    /\ closedEarly \subseteq Streams

\* A stream task forwards only while it holds its exact bound authority or is
\* being cancelled: "the registry is the pre-forward gate".
ForwardAuthorised ==
    \A s \in Streams :
        pc[s] = "bridging" => Holds(s) \/ CancelSignalled(s)

\* The one way around that gate: a bridge that runs without authority and that
\* nothing will cancel was still connecting when its session was closed.
UnguardedOnlyIfClosedEarly ==
    \A s \in Streams :
        pc[s] = "bridging" =>
            Holds(s) \/ CancelSignalled(s) \/ s \in closedEarly

\* A SESSION_CLOSE that comes once the socket is connected reaches the stream:
\* the entry under the handle is that stream's own, never a stale or foreign
\* one, for as long as it holds the authority.
CloseReachesStream ==
    \A s \in Streams :
        pc[s] \in {"accepting", "bridging"} /\ Holds(s) =>
            /\ binding[s].handle \in DOMAIN controls
            /\ controls[binding[s].handle] = s
=============================================================================
