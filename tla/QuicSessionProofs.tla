------------------------- MODULE QuicSessionProofs ---------------------------
(***************************************************************************)
(* The QUIC server implements the registry: whatever its tasks and the     *)
(* peer do, the registry it shares between them goes through steps of      *)
(* RegistrySpec only, so that what is proved of the registry alone holds   *)
(* inside the server, for every number of streams.                         *)
(***************************************************************************)
EXTENDS QuicSession, SessionRegistryProofs

\* The inductive invariant of the server: the registry's, and the type of the
\* tasks' state, without which a stream could present an ill-formed binding.
ServerInv == RegistryInv /\ TaskTypeOK

-----------------------------------------------------------------------------
(* What a step of the server does to the registry.                          *)

\* Every step of the server is a step of the registry or leaves it alone.
LEMMA ServerRegistryStep ==
    ASSUME TaskTypeOK, [Next]_vars
    PROVE  [RegistryNext]_registryVars
<1>1. CASE UNCHANGED vars
  BY <1>1 DEF vars
<1>2. ASSUME EndConnection
      PROVE  RegistryNext
  BY <1>2 DEF EndConnection, RegistryNext
<1>3. CASE FrameCarriedOut
  BY <1>3 DEF FrameCarriedOut, SessionPrepare, SessionOpen, SessionClose,
              Heartbeat, RegistryNext, Prepare, Open, Close, Renew
<1>4. CASE ControlEnds \/ DrainDeadline
  BY <1>2, <1>4 DEF ControlEnds, DrainDeadline
<1>5. CASE ReapExpired \/ TimePasses
  BY <1>5 DEF ReapExpired, TimePasses, RegistryNext
<1>6. CASE FrameChecked \/ ExpiryTick \/ CancelSession \/ CancelWaited
           \/ DrainStarts \/ RevokePeer \/ ConnectionLost \/ Gone
  BY <1>6 DEF FrameChecked, CheckFrame, ExpiryTick, CancelSession,
              CancelWaited, DrainStarts, RevokePeer, ConnectionLost, Gone, vars
<1>7. ASSUME NEW s \in Streams, AcceptStream(s) \/ JoinStream(s)
      PROVE  [RegistryNext]_registryVars
  BY <1>2, <1>7 DEF AcceptStream, JoinStream
<1>8. ASSUME NEW s \in Streams, StreamRuns(s)
      PROVE  [RegistryNext]_registryVars
  <2>1. CASE RejectRefused(s)
    <3>1. binding[s] \in Bindings
      BY <2>1 DEF RejectRefused, Move, TaskTypeOK
    <3> QED BY <2>1, <3>1 DEF RejectRefused, RegistryNext, CloseExact
  <2>2. CASE ConnectFailed(s)
    <3>1. binding[s] \in Bindings
      BY <2>2 DEF ConnectFailed, Move, TaskTypeOK, Bound, Cancellable
    <3> QED BY <2>2, <3>1 DEF ConnectFailed, RegistryNext, CloseExact
  <2>3. CASE FinishRegistry(s)
    <3>1. binding[s] \in Bindings
      BY <2>3 DEF FinishRegistry, Move, TaskTypeOK, Bound
    <3>2. binding[s].handle \in Handles
      BY <3>1 DEF Bindings
    <3> QED BY <2>3, <3>2 DEF FinishRegistry, RegistryNext, Close
  <2>4. CASE RegisterControl(s) \/ RecheckAuthority(s) \/ Connected(s)
             \/ RejectionWritten(s) \/ StartBridge(s) \/ LeaseTick(s)
             \/ Cancelled(s) \/ FinishControl(s)
    BY <2>4 DEF RegisterControl, RecheckAuthority, Connected,
                RejectionWritten, StartBridge, LeaseTick, Cancelled,
                FinishControl
  <2> QED BY <1>8, <2>1, <2>2, <2>3, <2>4 DEF StreamRuns
<1>9. ASSUME NEW s \in Streams, StreamPeer(s)
      PROVE  [RegistryNext]_registryVars
  <2>1. ASSUME NEW b \in Bindings, ReadBinding(s, b)
        PROVE  RegistryNext
    BY <2>1 DEF ReadBinding, RegistryNext, Accept
  <2>2. CASE MalformedPreface(s) \/ AcceptanceWritten(s)
             \/ AcceptanceFailed(s) \/ BridgeEnds(s)
    BY <2>2 DEF MalformedPreface, AcceptanceWritten, AcceptanceFailed,
                BridgeEnds
  <2> QED BY <1>9, <2>1, <2>2 DEF StreamPeer
<1> QED
  BY <1>1, <1>3, <1>4, <1>5, <1>6, <1>7, <1>8, <1>9 DEF Next

-----------------------------------------------------------------------------
(* The type of the tasks' state.                                            *)

\* Every step of the server keeps the type of the tasks' state.
LEMMA TaskTypeStep ==
    ASSUME ServerInv, [Next]_vars
    PROVE  TaskTypeOK'
<1> USE DEF ServerInv
<1>1. CASE UNCHANGED vars
  BY <1>1 DEF vars, taskVars, envVars, TaskTypeOK
<1>2. ASSUME EndConnection, UNCHANGED <<envVars, late>>
      PROVE  TaskTypeOK'
  <2>1. DOMAIN controls' = {}
    BY <1>2 DEF EndConnection
  <2> QED
    BY <1>2, <2>1 DEF EndConnection, TaskTypeOK, envVars, StreamStates, Bound,
                      Cancellable
<1>3. CASE FrameCarriedOut
  BY <1>3 DEF FrameCarriedOut, SessionPrepare, SessionOpen, SessionClose,
              Heartbeat, CarryOut, FrameKinds, envVars, TaskTypeOK
<1>4. CASE ControlEnds \/ DrainDeadline
  BY <1>2, <1>4 DEF ControlEnds, DrainDeadline
<1>5. CASE FrameChecked \/ ExpiryTick
  BY <1>5 DEF FrameChecked, CheckFrame, ExpiryTick, envVars, FrameKinds,
              TaskTypeOK
<1>13. CASE ReapExpired
  BY <1>13 DEF ReapExpired, ExpiredHandles, envVars, TaskTypeOK,
               RegistryInv, RegistryTypeOK
<1>6. CASE CancelSession
  BY <1>6 DEF CancelSession, Without, envVars, TaskTypeOK
<1>7. CASE CancelWaited
  BY <1>7 DEF CancelWaited, envVars, TaskTypeOK
<1>8. CASE DrainStarts \/ TimePasses \/ RevokePeer \/ ConnectionLost \/ Gone
  BY <1>8 DEF DrainStarts, TimePasses, RevokePeer, ConnectionLost, Gone,
              vars, taskVars, envVars, TaskTypeOK
<1>9. ASSUME NEW s \in Streams, AcceptStream(s)
      PROVE  TaskTypeOK'
  BY <1>9 DEF AcceptStream, envVars, TaskTypeOK, StreamStates, Bound,
              Cancellable
<1>10. ASSUME NEW s \in Streams, JoinStream(s)
       PROVE  TaskTypeOK'
  BY <1>2, <1>10 DEF JoinStream, TaskTypeOK, envVars, StreamStates, Bound,
                     Cancellable
<1>11. ASSUME NEW s \in Streams, StreamRuns(s)
       PROVE  TaskTypeOK'
  <2>1. CASE RegisterControl(s)
    <3>1. binding[s].handle \in Handles
      BY <2>1 DEF RegisterControl, Move, TaskTypeOK, Bound, Bindings
    <3> QED
      BY <2>1, <3>1 DEF RegisterControl, Move, With, envVars, TaskTypeOK,
                        StreamStates, Bound, Cancellable
  <2>2. CASE FinishControl(s)
    BY <2>2 DEF FinishControl, Move, Without, envVars, TaskTypeOK,
                StreamStates, Bound
  <2>3. CASE RejectRefused(s) \/ FinishRegistry(s)
    BY <2>3 DEF RejectRefused, FinishRegistry, Move, envVars, TaskTypeOK,
                StreamStates, Bound, Cancellable
  <2>4. CASE RecheckAuthority(s) \/ Connected(s) \/ ConnectFailed(s)
             \/ RejectionWritten(s)
    BY <2>4 DEF RecheckAuthority, Connected, ConnectFailed, RejectionWritten,
                Move, envVars, TaskTypeOK, StreamStates, Bound, Cancellable
  <2>5. CASE StartBridge(s) \/ LeaseTick(s) \/ Cancelled(s)
    BY <2>5 DEF StartBridge, LeaseTick, Cancelled, Move, envVars, TaskTypeOK,
                StreamStates, Bound, Cancellable
  <2> QED BY <1>11, <2>1, <2>2, <2>3, <2>4, <2>5 DEF StreamRuns
<1>12. ASSUME NEW s \in Streams, StreamPeer(s)
       PROVE  TaskTypeOK'
  <2>1. ASSUME NEW b \in Bindings, ReadBinding(s, b)
        PROVE  TaskTypeOK'
    BY <2>1 DEF ReadBinding, Move, envVars, TaskTypeOK, StreamStates, Bound,
                Cancellable
  <2>2. CASE MalformedPreface(s)
    BY <2>2 DEF MalformedPreface, Move, envVars, TaskTypeOK, StreamStates,
                Bound, Cancellable
  <2>3. CASE AcceptanceWritten(s) \/ AcceptanceFailed(s) \/ BridgeEnds(s)
    BY <2>3 DEF AcceptanceWritten, AcceptanceFailed, BridgeEnds, Move,
                envVars, TaskTypeOK, StreamStates, Bound, Cancellable
  <2> QED BY <1>12, <2>1, <2>2, <2>3 DEF StreamPeer
<1> QED
  BY <1>1, <1>3, <1>4, <1>5, <1>6, <1>7, <1>8, <1>9, <1>10, <1>11, <1>12,
     <1>13 DEF Next

-----------------------------------------------------------------------------
(* The server implements the registry and keeps its invariant.              *)

\* The inductive invariant holds in every reachable state of the server.
THEOREM ServerInvariant == Safe => []ServerInv
<1>1. Init => ServerInv
  <2> SUFFICES ASSUME Init PROVE ServerInv
    OBVIOUS
  <2>1. RegistryInv
    BY RegistryInitial DEF Init
  <2>2. DOMAIN controls = {}
    BY DEF Init
  <2> QED
    BY <2>1, <2>2 DEF Init, ServerInv, TaskTypeOK, StreamStates, Bound,
                      Cancellable
<1>2. ServerInv /\ [Next]_vars => ServerInv'
  BY ServerRegistryStep, RegistryStep, TaskTypeStep DEF ServerInv
<1> QED BY <1>1, <1>2, PTL DEF Safe

\* Type correctness of the server: its control loop cancels and awaits only
\* what exists, and the registry it drives is well-typed.
THEOREM ServerTypeCorrect == Safe => []TypeOK
<1>1. ServerInv => TypeOK
  BY DEF ServerInv, RegistryInv, TypeOK
<1> QED BY <1>1, ServerInvariant, PTL

\* The server implements the registry's specification: handle_control, the
\* expiry sweep and the stream tasks, interleaved in any way, change the shared
\* registry only by its operations.  Everything proved of RegistrySpec holds.
THEOREM ServerImplementsRegistry == Safe => RegistrySpec
<1>1. Init => new
  BY DEF Init
<1>2. ServerInv /\ [Next]_vars => [RegistryNext]_registryVars
  BY ServerRegistryStep DEF ServerInv
<1> QED BY <1>1, <1>2, ServerInvariant, PTL DEF Safe, RegistrySpec

-----------------------------------------------------------------------------
(* Every bound authority has an owner.                                      *)

\* A step that binds no authority and changes none that is bound.
BindsNothing ==
    \A h \in DOMAIN active' :
        active'[h].bound =>
            /\ h \in DOMAIN active
            /\ active[h].bound
            /\ active'[h].token = active[h].token
            /\ active'[h].claim = active[h].claim

\* A step in which the owners stay where they own, or let go of the handle.
OwnersStay ==
    \A s \in Streams :
        pc[s] \in Bound =>
            \/ pc'[s] \in Bound /\ binding'[s] = binding[s]
            \/ binding[s].handle \notin DOMAIN active'

\* Owners that stay keep what was bound owned.
LEMMA OwnersKept ==
    ASSUME BoundHasOwner, BindsNothing, OwnersStay
    PROVE  BoundHasOwner'
BY DEF BoundHasOwner, BindsNothing, OwnersStay, Holds, Exact

\* Opening a session binds nothing: the new authority is unbound.
LEMMA OpenBindsNothing ==
    ASSUME RegistryInv, NEW t \in Tokens, NEW c \in Claims, open_request(t, c)
    PROVE  BindsNothing
<1>1. CASE OpenResult(t, c) = "Accepted"
  <2> DEFINE record == [claim |-> c, token |-> t,
                        left |-> TokenTTL, bound |-> FALSE]
  <2>1. active' = With(active, allocate_handle, record)
    BY <1>1, OpenShape
  <2>2. record.bound = FALSE
    OBVIOUS
  <2> HIDE DEF record
  <2> QED BY <2>1, <2>2 DEF With, BindsNothing
<1>2. CASE OpenResult(t, c) # "Accepted"
  BY <1>2 DEF open_request, BindsNothing
<1> QED BY <1>1, <1>2

\* A heartbeat binds nothing.
LEMMA RenewBindsNothing ==
    ASSUME RegistryInv, NEW entries \in Heartbeats, renew_batch(entries)
    PROVE  BindsNothing
<1>1. ASSUME NEW h \in DOMAIN active'
      PROVE  /\ h \in DOMAIN active
             /\ active'[h].bound = active[h].bound
             /\ active'[h].token = active[h].token
             /\ active'[h].claim = active[h].claim
  <2>1. h \in DOMAIN active
    BY <1>1 DEF renew_batch
  <2>2. active[h] \in ActiveSession
    BY <2>1 DEF RegistryInv, RegistryTypeOK
  <2>3. \/ active'[h] = active[h]
        \/ active'[h] = [active[h] EXCEPT !.left = TokenTTL]
    BY <2>1 DEF renew_batch
  <2> QED BY <2>1, <2>2, <2>3 DEF ActiveSession
<1> QED BY <1>1 DEF BindsNothing

\* The clock binds nothing.
LEMMA TickBindsNothing ==
    ASSUME RegistryInv, Tick
    PROVE  BindsNothing
<1>1. ASSUME NEW h \in DOMAIN active'
      PROVE  /\ h \in DOMAIN active
             /\ active'[h].bound = active[h].bound
             /\ active'[h].token = active[h].token
             /\ active'[h].claim = active[h].claim
  <2>1. h \in DOMAIN active
    BY <1>1 DEF Tick, Elapse
  <2>2. active[h] \in ActiveSession
    BY <2>1 DEF RegistryInv, RegistryTypeOK
  <2>3. active'[h] = [active[h] EXCEPT !.left = IF @ = 0 THEN 0 ELSE @ - 1]
    BY <2>1 DEF Tick, Elapse
  <2> QED BY <2>1, <2>2, <2>3 DEF ActiveSession
<1> QED BY <1>1 DEF BindsNothing

\* Releases bind nothing.
LEMMA ReleaseBindsNothing ==
    ASSUME NEW handles, Release(handles)
    PROVE  BindsNothing
BY DEF Release, Without, BindsNothing

\* A stream that is accepted becomes the owner of what it binds.
LEMMA AcceptedIsOwner ==
    ASSUME ServerInv, BoundHasOwner,
           NEW s \in Streams, NEW b \in Bindings, ReadBinding(s, b)
    PROVE  BoundHasOwner'
<1>1. CASE AcceptResult(b) = "Accepted"
  <2>1. /\ Exact(b)
        /\ ~active[b.handle].bound
        /\ active' = [active EXCEPT ![b.handle].bound = TRUE]
    BY <1>1 DEF ReadBinding, accept_active, AcceptResult
  <2>2. active[b.handle] \in ActiveSession
    BY <2>1 DEF Exact, ServerInv, RegistryInv, RegistryTypeOK
  <2>3. /\ active'[b.handle].bound
        /\ active'[b.handle].token = active[b.handle].token
        /\ active'[b.handle].claim = active[b.handle].claim
    BY <2>1, <2>2 DEF Exact, ActiveSession
  <2>4. DOMAIN active' = DOMAIN active
    BY <2>1
  <2>5. \A h \in DOMAIN active : h # b.handle => active'[h] = active[h]
    BY <2>1
  <2>6. /\ pc[s] = "preface"
        /\ pc' = [pc EXCEPT ![s] = "accepted"]
        /\ binding' = [binding EXCEPT ![s] = b]
    BY <1>1 DEF ReadBinding, Move
  <2>7. /\ pc'[s] \in Bound /\ binding'[s] = b
        /\ \A r \in Streams : pc[r] \in Bound =>
              r # s /\ pc'[r] = pc[r] /\ binding'[r] = binding[r]
    BY <2>6 DEF ServerInv, TaskTypeOK, Bound, Cancellable
  <2>8. Holds(s)'
    BY <2>1, <2>3, <2>4, <2>7 DEF Holds, Exact
  <2>9. ASSUME NEW h \in DOMAIN active', active'[h].bound
        PROVE  \E r \in Streams : /\ pc'[r] \in Bound /\ Holds(r)'
                                  /\ binding'[r].handle = h
    <3>1. CASE h = b.handle
      BY <2>7, <2>8, <3>1
    <3>2. CASE h # b.handle
      <4>1. PICK r \in Streams : /\ pc[r] \in Bound /\ Holds(r)
                                 /\ binding[r].handle = h
        BY <2>4, <2>5, <2>9, <3>2 DEF BoundHasOwner
      <4>2. Holds(r)'
        BY <2>4, <2>5, <2>7, <3>2, <4>1 DEF Holds, Exact
      <4> QED BY <2>7, <4>1, <4>2
    <3> QED BY <3>1, <3>2
  <2> QED BY <2>9 DEF BoundHasOwner
<1>2. CASE AcceptResult(b) # "Accepted"
  <2>1. BindsNothing
    BY <1>2 DEF ReadBinding, accept_active, BindsNothing
  <2>2. OwnersStay
    BY DEF ReadBinding, Move, ServerInv, TaskTypeOK, OwnersStay, Bound,
           Cancellable
  <2> QED BY <2>1, <2>2, OwnersKept
<1> QED BY <1>1, <1>2

\* Ending the connection leaves nothing bound.
LEMMA EndOwnsNothing ==
    ASSUME EndConnection
    PROVE  BoundHasOwner'
<1>1. DOMAIN active' = {}
  BY DEF EndConnection, invalidate_connection
<1> QED BY <1>1 DEF BoundHasOwner

\* Every step of the server keeps the bound authorities owned.
LEMMA OwnerStep ==
    ASSUME ServerInv, BoundHasOwner, [Next]_vars
    PROVE  BoundHasOwner'
<1>1. CASE UNCHANGED vars
  BY <1>1 DEF vars, registryVars, taskVars, BoundHasOwner, Holds, Exact
<1>2. ASSUME UNCHANGED <<pc, binding>>
      PROVE  OwnersStay
  BY <1>2 DEF OwnersStay
<1>3. ASSUME UNCHANGED registryVars
      PROVE  BindsNothing
  BY <1>3 DEF registryVars, BindsNothing
<1>4. CASE FrameCarriedOut
  <2>1. OwnersStay
    BY <1>2, <1>4 DEF FrameCarriedOut, SessionPrepare, SessionOpen,
                      SessionClose, Heartbeat, CarryOut
  <2>2. ASSUME NEW s \in Sessions, NEW f \in Fingerprints,
               NEW g \in Generations, NEW t \in Tokens,
               SessionPrepare(s, f, g, t)
        PROVE  BindsNothing
    BY <2>2 DEF SessionPrepare, prepare, BindsNothing
  <2>3. ASSUME NEW t \in Tokens, NEW c \in Claims, SessionOpen(t, c)
        PROVE  BindsNothing
    BY <2>3, OpenBindsNothing DEF SessionOpen, ServerInv
  <2>4. ASSUME NEW h \in Handles, SessionClose(h)
        PROVE  BindsNothing
    BY <2>4, ReleaseBindsNothing DEF SessionClose, close
  <2>5. ASSUME NEW e \in Heartbeats, Heartbeat(e)
        PROVE  BindsNothing
    BY <2>5, RenewBindsNothing DEF Heartbeat, ServerInv
  <2> QED
    BY <1>4, <2>1, <2>2, <2>3, <2>4, <2>5, OwnersKept DEF FrameCarriedOut
<1>5. CASE ControlEnds \/ DrainDeadline
  BY <1>5, EndOwnsNothing DEF ControlEnds, DrainDeadline
<1>6. CASE ReapExpired
  <2>1. BindsNothing
    BY <1>6 DEF ReapExpired, reap_expired_handles, Without, BindsNothing
  <2> QED BY <1>2, <1>6, <2>1, OwnersKept DEF ReapExpired
<1>7. CASE TimePasses
  <2>1. BindsNothing
    BY <1>7, TickBindsNothing DEF TimePasses, ServerInv
  <2> QED BY <1>2, <1>7, <2>1, OwnersKept DEF TimePasses, taskVars
<1>8. CASE FrameChecked \/ ExpiryTick \/ CancelSession \/ CancelWaited
           \/ DrainStarts \/ RevokePeer \/ ConnectionLost \/ Gone
  <2>1. UNCHANGED <<pc, binding>> /\ UNCHANGED registryVars
    BY <1>8 DEF FrameChecked, CheckFrame, ExpiryTick, CancelSession,
                CancelWaited, DrainStarts, RevokePeer, ConnectionLost, Gone,
                vars, taskVars
  <2> QED BY <1>2, <1>3, <2>1, OwnersKept
<1>9. ASSUME NEW s \in Streams, AcceptStream(s)
      PROVE  BoundHasOwner'
  <2>1. OwnersStay
    BY <1>9 DEF AcceptStream, OwnersStay, ServerInv, TaskTypeOK, Bound,
                Cancellable
  <2> QED BY <1>3, <1>9, <2>1, OwnersKept DEF AcceptStream
<1>10. ASSUME NEW s \in Streams, JoinStream(s)
       PROVE  BoundHasOwner'
  <2>1. CASE EndConnection
    BY <2>1, EndOwnsNothing
  <2>2. CASE ~EndConnection
    <3>1. OwnersStay
      BY <1>10, <2>2 DEF JoinStream, OwnersStay, ServerInv, TaskTypeOK, Bound,
                         Cancellable
    <3> QED BY <1>3, <1>10, <2>2, <3>1, OwnersKept DEF JoinStream
  <2> QED BY <2>1, <2>2
<1>11. ASSUME NEW s \in Streams, NEW from, NEW to,
              Move(s, from, to), UNCHANGED binding,
              from \cap Bound = {} \/ to \in Bound
       PROVE  OwnersStay
  BY <1>11 DEF Move, OwnersStay, ServerInv, TaskTypeOK
<1>12. ASSUME NEW s \in Streams, StreamRuns(s)
       PROVE  BoundHasOwner'
  <2>1. CASE RejectRefused(s)
    <3>1. OwnersStay
      BY <1>11, <2>1 DEF RejectRefused, Bound, Cancellable
    <3>2. BindsNothing
      BY <2>1, ReleaseBindsNothing DEF RejectRefused, close_unbound_if_exact
    <3> QED BY <3>1, <3>2, OwnersKept
  <2>2. CASE ConnectFailed(s)
    <3>1. OwnersStay
      BY <1>11, <2>2 DEF ConnectFailed, Bound
    <3>2. BindsNothing
      BY <2>2, ReleaseBindsNothing DEF ConnectFailed, close_exact
    <3> QED BY <3>1, <3>2, OwnersKept
  <2>3. CASE FinishRegistry(s)
    <3>1. binding[s].handle \notin DOMAIN active'
      BY <2>3 DEF FinishRegistry, close, Release, Without
    <3>2. OwnersStay
      BY <2>3, <3>1 DEF FinishRegistry, Move, OwnersStay, ServerInv, TaskTypeOK
    <3>3. BindsNothing
      BY <2>3, ReleaseBindsNothing DEF FinishRegistry, close
    <3> QED BY <3>2, <3>3, OwnersKept
  <2>4. CASE RegisterControl(s) \/ RecheckAuthority(s) \/ Connected(s)
             \/ RejectionWritten(s) \/ StartBridge(s) \/ LeaseTick(s)
             \/ Cancelled(s) \/ FinishControl(s)
    <3>1. OwnersStay
      BY <1>11, <2>4
      DEF RegisterControl, RecheckAuthority, Connected, RejectionWritten,
          StartBridge, LeaseTick, Cancelled, FinishControl, Bound, Cancellable
    <3>2. UNCHANGED registryVars
      BY <2>4 DEF RegisterControl, RecheckAuthority, Connected,
                  RejectionWritten, StartBridge, LeaseTick, Cancelled,
                  FinishControl
    <3> QED BY <1>3, <3>1, <3>2, OwnersKept
  <2> QED BY <1>12, <2>1, <2>2, <2>3, <2>4 DEF StreamRuns
<1>13. ASSUME NEW s \in Streams, StreamPeer(s)
       PROVE  BoundHasOwner'
  <2>1. CASE MalformedPreface(s) \/ AcceptanceWritten(s)
             \/ AcceptanceFailed(s) \/ BridgeEnds(s)
    <3>1. OwnersStay
      BY <1>11, <2>1 DEF MalformedPreface, AcceptanceWritten,
                         AcceptanceFailed, BridgeEnds, Bound, Cancellable
    <3>2. UNCHANGED registryVars
      BY <2>1 DEF MalformedPreface, AcceptanceWritten, AcceptanceFailed,
                  BridgeEnds
    <3> QED BY <1>3, <3>1, <3>2, OwnersKept
  <2> QED BY <1>13, <2>1, AcceptedIsOwner DEF StreamPeer
<1> QED
  BY <1>1, <1>4, <1>5, <1>6, <1>7, <1>8, <1>9, <1>10, <1>12, <1>13 DEF Next

\* No path through the server leaks a bound authority: while one is active, a
\* stream task is bound to it that has yet to release it.
THEOREM ServerBoundHasOwner == Safe => []BoundHasOwner
<1>1. Init => BoundHasOwner
  BY DEF Init, new, BoundHasOwner
<1>2. ServerInv /\ BoundHasOwner /\ [Next]_vars => BoundHasOwner'
  BY OwnerStep
<1> QED BY <1>1, <1>2, ServerInvariant, PTL DEF Safe

-----------------------------------------------------------------------------
(* One frame at most is carried out for a revoked peer.                     *)

\* A step that adds no authority.
NoGrant ==
    /\ DOMAIN prepared' \subseteq DOMAIN prepared
    /\ DOMAIN active' \subseteq DOMAIN active

\* What was checked and when: a frame carried out since the revocation was the
\* one under way at that time, and a session frame under way was checked
\* before the drain began.
LateInv ==
    /\ late \in {0, 1}
    /\ ~revoked => late = 0
    /\ late = 1 => mainPc \notin FrameKinds
    /\ mainPc \in {"prepare", "open"} => ~draining

\* The steps of the stream tasks grant nothing and leave the frames alone.
LEMMA StreamGrantsNothing ==
    ASSUME NEW s \in Streams,
           AcceptStream(s) \/ JoinStream(s) \/ StreamRuns(s) \/ StreamPeer(s)
    PROVE  /\ NoGrant
           /\ UNCHANGED <<revoked, draining, late>>
           /\ mainPc' \in {mainPc, "closed"}
<1>1. ASSUME EndConnection PROVE NoGrant
  BY <1>1 DEF EndConnection, invalidate_connection, NoGrant
<1>2. ASSUME UNCHANGED registryVars \/ \E handles : Release(handles)
      PROVE  NoGrant
  BY <1>2 DEF registryVars, Release, Without, NoGrant
<1>3. CASE AcceptStream(s) \/ JoinStream(s)
  BY <1>1, <1>2, <1>3 DEF AcceptStream, JoinStream, EndConnection, envVars
<1>4. CASE StreamRuns(s)
  BY <1>2, <1>4
  DEF StreamRuns, RejectRefused, RegisterControl, RecheckAuthority, Connected,
      ConnectFailed, RejectionWritten, StartBridge, LeaseTick, Cancelled,
      FinishControl, FinishRegistry, close, close_exact,
      close_unbound_if_exact, Move, envVars
<1>5. ASSUME NEW b \in Bindings, ReadBinding(s, b)
      PROVE  /\ NoGrant
             /\ UNCHANGED <<revoked, draining, late, mainPc>>
  BY <1>5 DEF ReadBinding, Move, accept_active, NoGrant, envVars
<1>6. CASE StreamPeer(s)
  BY <1>2, <1>5, <1>6 DEF StreamPeer, MalformedPreface, AcceptanceWritten,
                          AcceptanceFailed, BridgeEnds, Move, envVars
<1> QED BY <1>3, <1>4, <1>6

\* Every step of the server keeps the frame under way the only late one.
LEMMA LateStep ==
    ASSUME LateInv, [Next]_vars
    PROVE  /\ LateInv'
           /\ draining => NoGrant
<1>n. ASSUME UNCHANGED registryVars PROVE NoGrant
  BY <1>n DEF registryVars, NoGrant
<1>k. ASSUME UNCHANGED <<revoked, draining, late>>,
             mainPc' = mainPc \/ mainPc' \notin FrameKinds
      PROVE  LateInv'
  BY <1>k DEF LateInv, FrameKinds
<1>1. CASE UNCHANGED vars
  BY <1>1, <1>n, <1>k DEF vars, taskVars, envVars
<1>2. CASE FrameChecked
  BY <1>2, <1>n DEF FrameChecked, CheckFrame, LateInv, FrameKinds, envVars
<1>3. ASSUME NEW kind \in FrameKinds, NEW next \in {"loop", "cancel"},
             CarryOut(kind, next)
      PROVE  LateInv' /\ (draining => kind \notin {"prepare", "open"})
  BY <1>3 DEF CarryOut, LateInv, FrameKinds, envVars
<1>4. CASE FrameCarriedOut
  <2>1. ASSUME NEW s \in Sessions, NEW f \in Fingerprints,
               NEW g \in Generations, NEW t \in Tokens,
               SessionPrepare(s, f, g, t)
        PROVE  LateInv' /\ ~draining
    BY <1>3, <2>1 DEF SessionPrepare, FrameKinds
  <2>2. ASSUME NEW t \in Tokens, NEW c \in Claims, SessionOpen(t, c)
        PROVE  LateInv' /\ ~draining
    BY <1>3, <2>2 DEF SessionOpen, FrameKinds
  <2>3. ASSUME NEW h \in Handles, SessionClose(h)
        PROVE  LateInv' /\ NoGrant
    BY <1>3, <2>3 DEF SessionClose, FrameKinds, close, Release, Without,
                      NoGrant
  <2>4. ASSUME NEW e \in Heartbeats, Heartbeat(e)
        PROVE  LateInv' /\ NoGrant
    BY <1>3, <2>4 DEF Heartbeat, FrameKinds, renew_batch, NoGrant
  <2> QED BY <1>4, <2>1, <2>2, <2>3, <2>4 DEF FrameCarriedOut
<1>5. CASE ControlEnds \/ DrainDeadline
  BY <1>5, <1>k DEF ControlEnds, DrainDeadline, EndConnection,
                    invalidate_connection, NoGrant, FrameKinds, envVars
<1>6. CASE ExpiryTick
  BY <1>6, <1>n, <1>k DEF ExpiryTick, FrameKinds, envVars
<1>7. CASE ReapExpired
  BY <1>7, <1>k DEF ReapExpired, reap_expired_handles, reap_expired_prepared,
                    Without, NoGrant, FrameKinds, envVars
<1>8. CASE CancelSession
  BY <1>8, <1>n, <1>k DEF CancelSession, FrameKinds, envVars
<1>9. CASE CancelWaited \/ ConnectionLost \/ Gone
  BY <1>9, <1>n, <1>k DEF CancelWaited, ConnectionLost, Gone, vars, taskVars,
                          FrameKinds, envVars
<1>10. CASE DrainStarts \/ RevokePeer
  BY <1>10, <1>n DEF DrainStarts, RevokePeer, taskVars, LateInv
<1>11. CASE TimePasses
  BY <1>11, <1>k DEF TimePasses, Tick, Elapse, NoGrant, taskVars, envVars
<1>12. ASSUME NEW s \in Streams,
              \/ AcceptStream(s) \/ JoinStream(s)
              \/ StreamRuns(s) \/ StreamPeer(s)
       PROVE  LateInv' /\ NoGrant
  BY <1>12, <1>k, StreamGrantsNothing DEF FrameKinds
<1> QED
  BY <1>1, <1>2, <1>4, <1>5, <1>6, <1>7, <1>8, <1>9, <1>10, <1>11, <1>12
  DEF Next

\* At most one control frame, the one whose check had passed, is carried out
\* after the peer's revocation, and none that prepares or opens a session once
\* the connection drains, however the await between check and use is spent.
THEOREM ServerOneLateFrame == Safe => OneLateFrame
<1> DEFINE Fenced ==
      /\ late' <= 1
      /\ draining => /\ DOMAIN prepared' \subseteq DOMAIN prepared
                     /\ DOMAIN active' \subseteq DOMAIN active
<1>1. Init => LateInv
  BY DEF Init, LateInv, FrameKinds
<1>2. LateInv /\ [Next]_vars => LateInv'
  BY LateStep
<1>3. ASSUME LateInv, [Next]_vars
      PROVE  Fenced
  <2>1. LateInv' /\ (draining => NoGrant)
    BY <1>3, LateStep
  <2> QED BY <2>1 DEF LateInv, NoGrant
<1>4. LateInv /\ [Next]_vars => [Fenced]_vars
  BY <1>3
<1> QED BY <1>1, <1>2, <1>4, PTL DEF Safe, OneLateFrame

-----------------------------------------------------------------------------
(* The cancellation gate, in a connection that hands no handle out twice.   *)

Forwarding == {"connecting", "accepting", "written", "bridging"}

\* The states in which a task's entry may be in the map.
Registered == Cancellable \cup {"rejecting", "finish"}

HasEntry(s) ==
    binding[s].handle \in DOMAIN controls /\ controls[binding[s].handle] = s

\* A bound stream's handle is nobody else's.
HandlesOwned ==
    /\ \A s \in Streams : pc[s] \in Bound => OwnerOf(binding[s])
    /\ \A s, r \in Streams :
          pc[s] \in Bound /\ pc[r] \in Bound /\ s # r =>
              binding[s].handle # binding[r].handle

\* An entry of the map is its stream's own.
EntriesOwned ==
    \A h \in DOMAIN controls : /\ pc[controls[h]] \in Registered
                               /\ binding[controls[h]].handle = h

\* What the connection task cancels is closed, and whom it awaits is signalled.
Cancelling ==
    /\ mainPc \notin {"cancel", "wait"} => pending = {}
    /\ pending \cap DOMAIN active = {}
    /\ mainPc = "wait" => /\ pc[awaiting] \in Registered \cup {"finished", "done"}
                          /\ CancelSignalled(awaiting)

\* A task that holds its authority can be cancelled, and one past its re-check
\* that does not is being cancelled.
Gate ==
    \A s \in Streams :
        /\ pc[s] \in Cancellable /\ Holds(s) => HasEntry(s)
        /\ pc[s] \in Forwarding =>
              \/ HasEntry(s) /\ (Holds(s) \/ binding[s].handle \in pending)
              \/ mainPc = "wait" /\ awaiting = s

GateInv ==
    /\ ServerInv /\ HandlesFresh
    /\ HandlesOwned /\ EntriesOwned /\ Cancelling /\ Gate

\* Streams that stay bound, or let go, keep their handles to themselves.
LEMMA HandlesKept ==
    ASSUME FewTokens, GateInv, [Next]_vars,
           \A s \in Streams : pc'[s] \in Bound =>
               pc[s] \in Bound /\ binding'[s] = binding[s]
    PROVE  HandlesOwned'
<1>0. /\ [RegistryNext]_registryVars /\ RegistryInv
      /\ HandlesFresh /\ TaskTypeOK /\ HandlesOwned
  BY ServerRegistryStep DEF GateInv, ServerInv
<1>1. ASSUME NEW s \in Streams, pc'[s] \in Bound
      PROVE  OwnerOf(binding[s])'
  <2>1. /\ binding[s] \in Bindings /\ OwnerOf(binding[s])
        /\ binding'[s] = binding[s]
    BY <1>0, <1>1 DEF TaskTypeOK, HandlesOwned
  <2>2. PICK b \in Bindings : b = binding[s]
    BY <2>1
  <2>3. OwnerOf(b)
    BY <2>1, <2>2
  <2>4. OwnerOf(b)'
    BY <1>0, <2>3, OwnershipStep
  <2>5. b = binding'[s]
    BY <2>1, <2>2
  <2> QED BY <2>4, <2>5 DEF OwnerOf
<1>2. \A s, r \in Streams : pc'[s] \in Bound /\ pc'[r] \in Bound /\ s # r =>
          binding'[s].handle # binding'[r].handle
  BY <1>0 DEF HandlesOwned
<1> QED BY <1>1, <1>2 DEF HandlesOwned

\* A stream that is accepted takes a handle no other stream is bound to.
LEMMA HandlesAccepted ==
    ASSUME FewTokens, GateInv, [Next]_vars,
           NEW s \in Streams, NEW b \in Bindings, ReadBinding(s, b),
           AcceptResult(b) = "Accepted"
    PROVE  HandlesOwned'
<1>0. /\ [RegistryNext]_registryVars /\ RegistryInv
      /\ HandlesFresh /\ TaskTypeOK /\ HandlesOwned
  BY ServerRegistryStep DEF GateInv, ServerInv
<1>1. /\ pc[s] = "preface" /\ pc' = [pc EXCEPT ![s] = "accepted"]
      /\ binding' = [binding EXCEPT ![s] = b]
      /\ accept_active(b)
  BY DEF ReadBinding, Move
<1>2. \A r \in Streams : pc'[r] \in Bound /\ r # s =>
          pc[r] \in Bound /\ binding'[r] = binding[r]
  BY <1>0, <1>1 DEF TaskTypeOK
<1>3. OwnerOf(b)' /\ binding'[s] = b
  BY <1>0, <1>1, AcceptedOwns DEF TaskTypeOK
<1>4. b.handle \in DOMAIN active /\ ~active[b.handle].bound
  BY DEF AcceptResult
<1>5. ASSUME NEW r \in Streams, pc'[r] \in Bound, r # s
      PROVE  OwnerOf(binding[r])' /\ binding'[r].handle # b.handle
  <2>1. /\ binding[r] \in Bindings /\ OwnerOf(binding[r])
        /\ binding'[r] = binding[r]
    BY <1>0, <1>2, <1>5 DEF TaskTypeOK, HandlesOwned
  <2>2. PICK d \in Bindings : d = binding[r]
    BY <2>1
  <2>3. OwnerOf(d)
    BY <2>1, <2>2
  <2>4. OwnerOf(d)'
    BY <1>0, <2>3, OwnershipStep
  <2>5. d = binding'[r]
    BY <2>1, <2>2
  <2>6. d.handle # b.handle
    BY <1>4, <2>3 DEF OwnerOf
  <2> QED BY <2>4, <2>5, <2>6 DEF OwnerOf
<1>6. OwnerOf(binding[s])'
  BY <1>3 DEF OwnerOf
<1>7. \A r \in Streams : pc'[r] \in Bound => OwnerOf(binding[r])'
  BY <1>5, <1>6
<1>8. \A r, q \in Streams : pc'[r] \in Bound /\ pc'[q] \in Bound /\ r # q =>
          binding'[r].handle # binding'[q].handle
  BY <1>0, <1>2, <1>3, <1>5 DEF HandlesOwned
<1> QED BY <1>7, <1>8 DEF HandlesOwned

\* Who releases a bound authority: the end of the connection, the connection
\* task, which then cancels the handle, or the task bound to it, which is
\* rejecting or done.
LEMMA ReleaseStep ==
    ASSUME GateInv, [Next]_vars,
           NEW h \in DOMAIN active, h \notin DOMAIN active', active[h].bound
    PROVE  \/ EndConnection
           \/ mainPc \in {"close", "sweep"} /\ h \in pending'
           \/ \E s \in Streams : /\ pc[s] \in Bound /\ pc'[s] # pc[s]
                                 /\ pc'[s] \in {"rejecting", "done"}
                                 /\ Holds(s) /\ binding[s].handle = h
<1> DEFINE Goal == \/ EndConnection
                   \/ mainPc \in {"close", "sweep"} /\ h \in pending'
                   \/ \E s \in Streams :
                         /\ pc[s] \in Bound /\ pc'[s] # pc[s]
                         /\ pc'[s] \in {"rejecting", "done"}
                         /\ Holds(s) /\ binding[s].handle = h
<1>0. RegistryInv /\ TaskTypeOK /\ HandlesOwned
  BY DEF GateInv, ServerInv
<1>u. ASSUME DOMAIN active \subseteq DOMAIN active' PROVE FALSE
  BY <1>u
<1>r. ASSUME UNCHANGED registryVars PROVE FALSE
  BY <1>r, <1>u DEF registryVars
<1>1. CASE UNCHANGED vars
  BY <1>1, <1>r DEF vars
<1>2. CASE FrameCarriedOut
  <2>1. ASSUME NEW s \in Sessions, NEW f \in Fingerprints,
               NEW g \in Generations, NEW t \in Tokens, SessionPrepare(s, f, g, t)
        PROVE  Goal
    BY <1>u, <2>1 DEF SessionPrepare, prepare
  <2>2. ASSUME NEW t \in Tokens, NEW c \in Claims, SessionOpen(t, c)
        PROVE  Goal
    BY <1>u, <2>2 DEF SessionOpen, open_request, With
  <2>3. ASSUME NEW g \in Handles, SessionClose(g)
        PROVE  Goal
    BY <2>3 DEF SessionClose, CarryOut, close, Release, Without
  <2>4. ASSUME NEW e \in Heartbeats, Heartbeat(e)
        PROVE  Goal
    BY <1>u, <2>4 DEF Heartbeat, renew_batch
  <2> QED BY <1>2, <2>1, <2>2, <2>3, <2>4 DEF FrameCarriedOut
<1>3. CASE ControlEnds \/ DrainDeadline
  BY <1>3 DEF ControlEnds, DrainDeadline
<1>4. CASE ReapExpired
  BY <1>4 DEF ReapExpired, reap_expired_handles, Without
<1>5. CASE TimePasses
  BY <1>5, <1>u DEF TimePasses, Tick, Elapse
<1>6. CASE FrameChecked \/ ExpiryTick \/ CancelSession \/ CancelWaited
           \/ DrainStarts \/ RevokePeer \/ ConnectionLost \/ Gone
  BY <1>6, <1>r DEF FrameChecked, CheckFrame, ExpiryTick, CancelSession,
                    CancelWaited, DrainStarts, RevokePeer, ConnectionLost,
                    Gone, vars
<1>7. ASSUME NEW s \in Streams, AcceptStream(s) \/ JoinStream(s)
      PROVE  Goal
  BY <1>7, <1>r DEF AcceptStream, JoinStream
<1>8. ASSUME NEW s \in Streams, StreamRuns(s)
      PROVE  Goal
  <2>1. CASE RejectRefused(s)
    BY <2>1 DEF RejectRefused, close_unbound_if_exact, Release, Without
  <2>2. CASE ConnectFailed(s)
    <3>1. /\ pc[s] = "connecting" /\ pc'[s] = "rejecting"
          /\ Exact(binding[s]) /\ binding[s].handle = h
      BY <1>0, <2>2 DEF ConnectFailed, Move, close_exact, Release, Without, TaskTypeOK
    <3> QED BY <3>1 DEF Holds, Bound, Cancellable
  <2>3. CASE FinishRegistry(s)
    <3>1. /\ pc[s] = "finished" /\ pc'[s] = "done"
          /\ binding[s].handle = h
      BY <1>0, <2>3 DEF FinishRegistry, Move, close, Release, Without, TaskTypeOK
    <3>2. pc[s] \in Bound /\ OwnerOf(binding[s])
      BY <1>0, <3>1 DEF HandlesOwned, Bound
    <3> QED BY <3>1, <3>2 DEF Holds, Exact, OwnerOf
  <2>4. CASE RegisterControl(s) \/ RecheckAuthority(s) \/ Connected(s)
             \/ RejectionWritten(s) \/ StartBridge(s) \/ LeaseTick(s)
             \/ Cancelled(s) \/ FinishControl(s)
    BY <1>r, <2>4 DEF RegisterControl, RecheckAuthority, Connected,
                      RejectionWritten, StartBridge, LeaseTick, Cancelled,
                      FinishControl
  <2> QED BY <1>8, <2>1, <2>2, <2>3, <2>4 DEF StreamRuns
<1>9. ASSUME NEW s \in Streams, StreamPeer(s)
      PROVE  Goal
  <2>1. ASSUME NEW b \in Bindings, ReadBinding(s, b)
        PROVE  Goal
    BY <1>u, <2>1 DEF ReadBinding, accept_active
  <2>2. CASE MalformedPreface(s) \/ AcceptanceWritten(s)
             \/ AcceptanceFailed(s) \/ BridgeEnds(s)
    BY <1>r, <2>2 DEF MalformedPreface, AcceptanceWritten, AcceptanceFailed,
                      BridgeEnds
  <2> QED BY <1>9, <2>1, <2>2 DEF StreamPeer
<1> QED
  BY <1>1, <1>2, <1>3, <1>4, <1>5, <1>6, <1>7, <1>8, <1>9 DEF Next

\* No step gives a bound stream back what it has lost.
LEMMA HeldBefore ==
    ASSUME GateInv, [Next]_vars, NEW s \in Streams, pc[s] \in Bound,
           binding'[s] = binding[s], Holds(s)'
    PROVE  Holds(s)
<1>0. /\ [RegistryNext]_registryVars /\ RegistryInv /\ OwnerOf(binding[s])
  BY ServerRegistryStep DEF GateInv, ServerInv, HandlesOwned
<1>1. /\ binding[s].handle \in DOMAIN active'
      /\ active'[binding[s].handle].token = binding[s].token
  BY DEF Holds, Exact
<1>2. binding[s].handle \in DOMAIN active
  BY <1>0, <1>1, TokenStep DEF OwnerOf
<1> QED BY <1>0, <1>2 DEF OwnerOf, Holds, Exact

\* What a stream that goes on loses, the connection task is about to cancel.
LEMMA HeldAfter ==
    ASSUME GateInv, [Next]_vars, NEW s \in Streams, pc[s] \in Bound,
           pc'[s] \in Cancellable, binding'[s] = binding[s], Holds(s)
    PROVE  Holds(s)' \/ binding[s].handle \in pending'
<1> DEFINE h == binding[s].handle
<1>0. /\ [RegistryNext]_registryVars /\ RegistryInv /\ HandlesOwned
  BY ServerRegistryStep DEF GateInv, ServerInv
<1>1. h \in DOMAIN active /\ active[h].bound
  BY DEF Holds, Exact
<1>2. CASE h \in DOMAIN active'
  BY <1>0, <1>1, <1>2, EntryStep DEF Holds, Exact
<1>3. CASE h \notin DOMAIN active'
  <2>1. ~EndConnection
    BY DEF EndConnection, Cancellable
  <2>2. ASSUME NEW r \in Streams, pc[r] \in Bound,
               pc'[r] \in {"rejecting", "done"}, binding[r].handle = h
        PROVE  FALSE
    <3>1. r # s
      BY <2>2 DEF Cancellable
    <3> QED BY <1>0, <2>2, <3>1 DEF HandlesOwned
  <2> HIDE DEF h
  <2>3. \/ EndConnection
        \/ mainPc \in {"close", "sweep"} /\ h \in pending'
        \/ \E r \in Streams : /\ pc[r] \in Bound /\ pc'[r] \in {"rejecting", "done"}
                              /\ Holds(r) /\ binding[r].handle = h
    BY <1>1, <1>3, ReleaseStep
  <2>4. h \in pending'
    BY <2>1, <2>2, <2>3
  <2> QED BY <2>4 DEF h
<1> QED BY <1>2, <1>3

\* The gate stays shut in a step that keeps the entries of the streams that go
\* on, lets a stream past the re-check only with its authority, and does not
\* stop waiting for one that is past it.
LEMMA GateKept ==
    ASSUME GateInv, [Next]_vars,
           \A s \in Streams : pc'[s] \in Cancellable =>
               \/ /\ pc[s] \in Cancellable /\ binding'[s] = binding[s]
                  /\ HasEntry(s) => HasEntry(s)'
               \/ pc'[s] = "registered" /\ HasEntry(s)',
           \A s \in Streams : pc'[s] \in Forwarding =>
               \/ pc[s] \in Forwarding
               \/ pc[s] \in Cancellable /\ Holds(s),
           pending \subseteq pending',
           mainPc = "wait" /\ pc[awaiting] \in Forwarding =>
               mainPc' = "wait" /\ awaiting' = awaiting
    PROVE  Gate'
<1> SUFFICES ASSUME NEW s \in Streams, pc'[s] \in Cancellable
             PROVE  /\ Holds(s)' => HasEntry(s)'
                    /\ pc'[s] \in Forwarding =>
                          \/ /\ HasEntry(s)'
                             /\ Holds(s)' \/ binding'[s].handle \in pending'
                          \/ mainPc' = "wait" /\ awaiting' = s
  BY DEF Gate, Forwarding, Cancellable
<1>1. CASE pc'[s] = "registered" /\ HasEntry(s)'
  BY <1>1 DEF Forwarding
<1>2. CASE /\ pc[s] \in Cancellable /\ binding'[s] = binding[s]
           /\ HasEntry(s) => HasEntry(s)'
  <2>0. pc[s] \in Bound
    BY <1>2 DEF Bound
  <2>1. /\ Holds(s) => HasEntry(s)
        /\ pc[s] \in Forwarding =>
              \/ HasEntry(s) /\ (Holds(s) \/ binding[s].handle \in pending)
              \/ mainPc = "wait" /\ awaiting = s
    BY <1>2 DEF GateInv, Gate
  <2>2. Holds(s)' => Holds(s)
    BY <1>2, <2>0, HeldBefore
  <2>3. Holds(s) => Holds(s)' \/ binding[s].handle \in pending'
    BY <1>2, <2>0, HeldAfter
  <2>4. Holds(s)' => HasEntry(s)'
    BY <1>2, <2>1, <2>2
  <2>5. ASSUME pc'[s] \in Forwarding
        PROVE  \/ HasEntry(s) /\ (Holds(s) \/ binding[s].handle \in pending)
               \/ mainPc = "wait" /\ awaiting = s /\ pc[s] \in Forwarding
    BY <2>1, <2>5
  <2>6. ASSUME pc'[s] \in Forwarding
        PROVE  \/ /\ HasEntry(s)'
                  /\ Holds(s)' \/ binding'[s].handle \in pending'
               \/ mainPc' = "wait" /\ awaiting' = s
    BY <1>2, <2>3, <2>5, <2>6
  <2> QED BY <2>4, <2>6
<1> QED BY <1>1, <1>2

\* A step that leaves the map of entries and the connection task's work alone
\* or adds to it, and in which no stream goes on that was not going on.
LEMMA QuietStep ==
    ASSUME GateInv, [Next]_vars, UNCHANGED controls,
           \A s \in Streams :
               /\ binding'[s] = binding[s] \/ pc[s] \notin Bound
               /\ pc[s] \in Registered => pc'[s] \in Registered
               /\ pc[s] \in {"finished", "done"} =>
                     pc'[s] \in {"finished", "done"} \/ mainPc = "loop"
               /\ pc'[s] \in Cancellable => pc[s] \in Cancellable
               /\ pc'[s] \in Forwarding =>
                     pc[s] \in Forwarding \/ Holds(s),
           mainPc' \notin {"cancel", "wait"} => pending' = {},
           pending' \cap DOMAIN active' = {},
           pending \subseteq pending',
           mainPc' = "wait" => mainPc = "wait" /\ awaiting' = awaiting,
           mainPc = "wait" /\ pc[awaiting] \in Forwarding => mainPc' = "wait"
    PROVE  EntriesOwned' /\ Cancelling' /\ Gate'
<1>0. TaskTypeOK /\ TaskTypeOK' /\ EntriesOwned /\ Cancelling
  BY TaskTypeStep DEF GateInv, ServerInv
<1>s. Registered \subseteq Bound /\ Cancellable \subseteq Registered
  BY DEF Registered, Bound
<1>1. EntriesOwned'
  BY <1>0, <1>s DEF EntriesOwned, TaskTypeOK
<1>2. Cancelling'
  <2>1. ASSUME mainPc' = "wait"
        PROVE  /\ pc'[awaiting'] \in Registered \cup {"finished", "done"}
               /\ CancelSignalled(awaiting)'
    <3>1. /\ mainPc = "wait" /\ awaiting' = awaiting /\ awaiting \in Streams
          /\ pc[awaiting] \in Registered \cup {"finished", "done"}
          /\ CancelSignalled(awaiting)
      BY <1>0, <2>1 DEF Cancelling, TaskTypeOK
    <3>2. CancelSignalled(awaiting)'
      BY <3>1 DEF CancelSignalled
    <3> QED BY <3>1, <3>2
  <2> QED BY <2>1 DEF Cancelling
<1>3. Gate'
  <2>1. \A s \in Streams : pc'[s] \in Cancellable =>
            /\ pc[s] \in Cancellable /\ binding'[s] = binding[s]
            /\ HasEntry(s) => HasEntry(s)'
    BY <1>s DEF HasEntry
  <2>2. Forwarding \subseteq Cancellable
    BY DEF Forwarding, Cancellable
  <2>3. mainPc = "wait" /\ pc[awaiting] \in Forwarding =>
            mainPc' = "wait" /\ awaiting' = awaiting
    OBVIOUS
  <2> QED BY <2>1, <2>2, <2>3, GateKept
<1> QED BY <1>1, <1>2, <1>3

\* A stream that registers its cancellation.
LEMMA RegisterKeepsGate ==
    ASSUME GateInv, [Next]_vars, NEW s \in Streams, RegisterControl(s)
    PROVE  EntriesOwned' /\ Cancelling' /\ Gate'
<1>0. /\ TaskTypeOK /\ EntriesOwned /\ Cancelling
      /\ HandlesOwned
  BY DEF GateInv, ServerInv
<1>1. /\ pc[s] = "accepted" /\ pc' = [pc EXCEPT ![s] = "registered"]
      /\ controls' = With(controls, binding[s].handle, s)
      /\ UNCHANGED <<mainPc, pending, awaiting, binding>>
      /\ UNCHANGED active
  BY DEF RegisterControl, Move, registryVars
<1>2. pc'[s] = "registered" /\ \A r \in Streams : r # s => pc'[r] = pc[r]
  BY <1>0, <1>1 DEF TaskTypeOK
<1>3. \A r \in Streams : r # s /\ pc[r] \in Bound =>
          binding[r].handle # binding[s].handle
  BY <1>0, <1>1 DEF HandlesOwned, Bound
<1>4. /\ DOMAIN controls' = DOMAIN controls \cup {binding[s].handle}
      /\ controls'[binding[s].handle] = s
      /\ \A h \in DOMAIN controls :
            h # binding[s].handle => controls'[h] = controls[h]
  BY <1>1 DEF With
<1>5. \A h \in DOMAIN controls : controls[h] \in Streams \ {s}
  BY <1>0, <1>1 DEF TaskTypeOK, EntriesOwned, Registered, Cancellable
<1>6. EntriesOwned'
  BY <1>0, <1>1, <1>2, <1>4, <1>5 DEF EntriesOwned, Registered, Cancellable
<1>7. Cancelling'
  <2>1. ASSUME mainPc = "wait"
        PROVE  /\ pc'[awaiting] \in Registered \cup {"finished", "done"}
               /\ CancelSignalled(awaiting)'
    <3>1. /\ awaiting \in Streams /\ awaiting # s
          /\ pc[awaiting] \in Registered \cup {"finished", "done"}
          /\ CancelSignalled(awaiting)
      BY <1>0, <1>1, <2>1 DEF Cancelling, TaskTypeOK, Registered, Cancellable
    <3>2. CancelSignalled(awaiting)'
      BY <1>1, <1>4, <3>1 DEF CancelSignalled
    <3> QED BY <1>2, <3>1, <3>2
  <2> QED BY <1>0, <1>1, <2>1 DEF Cancelling
<1>8. Gate'
  <2>1. HasEntry(s)'
    BY <1>1, <1>4 DEF HasEntry
  <2>2. ASSUME NEW r \in Streams, r # s, pc'[r] \in Cancellable
        PROVE  /\ pc[r] \in Cancellable /\ binding'[r] = binding[r]
               /\ HasEntry(r) => HasEntry(r)'
    BY <1>1, <1>2, <1>3, <1>4, <2>2 DEF HasEntry, Bound
  <2>3. \A r \in Streams : pc'[r] \in Forwarding => pc[r] \in Forwarding
    BY <1>2 DEF Forwarding
  <2> QED BY <1>1, <1>2, <2>1, <2>2, <2>3, GateKept
<1> QED BY <1>6, <1>7, <1>8

\* A stream that drops its entry drops nobody else's.
LEMMA FinishKeepsGate ==
    ASSUME GateInv, [Next]_vars, NEW s \in Streams, FinishControl(s)
    PROVE  EntriesOwned' /\ Cancelling' /\ Gate'
<1>0. /\ TaskTypeOK /\ EntriesOwned /\ Cancelling /\ HandlesOwned
  BY DEF GateInv, ServerInv
<1>1. /\ pc[s] = "finish" /\ pc' = [pc EXCEPT ![s] = "finished"]
      /\ controls' = Without(controls, {binding[s].handle})
      /\ UNCHANGED <<mainPc, pending, awaiting, binding>>
      /\ UNCHANGED active
  BY DEF FinishControl, Move, registryVars
<1>2. pc'[s] = "finished" /\ \A r \in Streams : r # s => pc'[r] = pc[r]
  BY <1>0, <1>1 DEF TaskTypeOK
<1>3. \A r \in Streams : r # s /\ pc[r] \in Bound =>
          binding[r].handle # binding[s].handle
  BY <1>0, <1>1 DEF HandlesOwned, Bound
<1>4. /\ DOMAIN controls' = DOMAIN controls \ {binding[s].handle}
      /\ \A h \in DOMAIN controls' : controls'[h] = controls[h]
  BY <1>1 DEF Without
<1>5. EntriesOwned'
  <2>1. ASSUME NEW h \in DOMAIN controls'
        PROVE  pc'[controls'[h]] \in Registered /\ binding'[controls'[h]].handle = h
    <3>1. /\ controls'[h] = controls[h] /\ controls[h] \in Streams
          /\ pc[controls[h]] \in Registered /\ binding[controls[h]].handle = h
          /\ h # binding[s].handle
      BY <1>0, <1>4 DEF EntriesOwned, TaskTypeOK
    <3> QED BY <1>1, <1>2, <3>1
  <2> QED BY <2>1 DEF EntriesOwned
<1>6. Cancelling'
  <2>1. ASSUME mainPc = "wait"
        PROVE  /\ pc'[awaiting] \in Registered \cup {"finished", "done"}
               /\ CancelSignalled(awaiting)'
    <3>1. /\ awaiting \in Streams
          /\ pc[awaiting] \in Registered \cup {"finished", "done"}
          /\ CancelSignalled(awaiting)
      BY <1>0, <2>1 DEF Cancelling, TaskTypeOK
    <3>2. CancelSignalled(awaiting)'
      BY <1>1, <1>4, <3>1 DEF CancelSignalled
    <3> QED BY <1>2, <3>1, <3>2
  <2> QED BY <1>0, <1>1, <2>1 DEF Cancelling
<1>7. Gate'
  <2>1. ASSUME NEW r \in Streams, pc'[r] \in Cancellable
        PROVE  /\ pc[r] \in Cancellable /\ binding'[r] = binding[r]
               /\ HasEntry(r) => HasEntry(r)'
    <3>1. r # s /\ pc[r] \in Cancellable
      BY <1>2, <2>1 DEF Cancellable
    <3>2. binding[r].handle # binding[s].handle
      BY <1>3, <3>1 DEF Bound
    <3> QED BY <1>1, <1>4, <3>1, <3>2 DEF HasEntry
  <2>2. \A r \in Streams : pc'[r] \in Forwarding => pc[r] \in Forwarding
    BY <1>2 DEF Forwarding
  <2> QED BY <1>1, <2>1, <2>2, GateKept
<1> QED BY <1>5, <1>6, <1>7

\* cancel_session takes the entry of a handle that is closed, and stays with
\* the task it found there.
LEMMA CancelKeepsGate ==
    ASSUME GateInv, [Next]_vars, CancelSession
    PROVE  EntriesOwned' /\ Cancelling' /\ Gate'
<1> DEFINE handle == Smallest(pending)
           rest   == pending \ {handle}
<1>0. /\ TaskTypeOK /\ EntriesOwned /\ Cancelling /\ HandlesOwned /\ Gate
  BY DEF GateInv, ServerInv
<1>1. /\ mainPc = "cancel" /\ pending' = rest
      /\ controls' = Without(controls, {handle})
      /\ UNCHANGED <<pc, binding, active>>
      /\ IF handle \in DOMAIN controls
         THEN mainPc' = "wait" /\ awaiting' = controls[handle]
         ELSE /\ mainPc' = IF rest = {} THEN "loop" ELSE "cancel"
              /\ UNCHANGED awaiting
  BY DEF CancelSession, registryVars
<1>2. handle \in pending
  <2>1. pending \subseteq Nat /\ pending # {}
    BY <1>0, <1>1 DEF TaskTypeOK, Handles
  <2>2. \E x \in pending : \A y \in pending : x <= y
    BY <2>1, LeastExists
  <2> QED BY <2>2 DEF Smallest
<1> HIDE DEF handle
<1>3. handle \notin DOMAIN active
  BY <1>0, <1>2 DEF Cancelling
<1>4. /\ DOMAIN controls' = DOMAIN controls \ {handle}
      /\ \A h \in DOMAIN controls' : controls'[h] = controls[h]
  BY <1>1 DEF Without
<1>5. EntriesOwned'
  BY <1>0, <1>1, <1>4 DEF EntriesOwned
<1>6. Cancelling'
  <2>1. ASSUME mainPc' = "wait"
        PROVE  /\ pc'[awaiting'] \in Registered \cup {"finished", "done"}
               /\ CancelSignalled(awaiting)'
    <3>1. /\ handle \in DOMAIN controls /\ awaiting' = controls[handle]
      BY <1>1, <2>1
    <3>2. pc[controls[handle]] \in Registered
      BY <1>0, <3>1 DEF EntriesOwned
    <3>3. \A h \in DOMAIN controls' : controls'[h] # controls[handle]
      BY <1>0, <1>4, <3>1 DEF EntriesOwned
    <3> QED BY <1>1, <3>1, <3>2, <3>3 DEF CancelSignalled
  <2>2. mainPc' \notin {"cancel", "wait"} => pending' = {}
    BY <1>1
  <2>3. pending' \cap DOMAIN active' = {}
    BY <1>0, <1>1 DEF Cancelling
  <2> QED BY <2>1, <2>2, <2>3 DEF Cancelling
<1>7. ASSUME NEW s \in Streams
      PROVE  /\ pc[s] \in Cancellable /\ Holds(s) => HasEntry(s)'
             /\ pc[s] \in Forwarding =>
                   \/ HasEntry(s)' /\ (Holds(s) \/ binding[s].handle \in pending')
                   \/ mainPc' = "wait" /\ awaiting' = s
  <2>1. /\ pc[s] \in Cancellable /\ Holds(s) => HasEntry(s)
        /\ pc[s] \in Forwarding =>
              HasEntry(s) /\ (Holds(s) \/ binding[s].handle \in pending)
    BY <1>0, <1>1 DEF Gate
  <2>2. CASE binding[s].handle = handle
    <3>1. ~Holds(s)
      BY <1>3, <2>2 DEF Holds, Exact
    <3> QED BY <1>1, <2>1, <2>2, <3>1 DEF HasEntry
  <2>3. CASE binding[s].handle # handle
    <3>1. HasEntry(s) => HasEntry(s)'
      BY <1>1, <1>4, <2>3 DEF HasEntry
    <3> QED BY <1>1, <2>1, <2>3, <3>1
  <2> QED BY <2>2, <2>3
<1>8. Gate'
  <2>1. \A s \in Streams : Holds(s)' <=> Holds(s)
    BY <1>1 DEF Holds, Exact
  <2> QED BY <1>1, <1>7, <2>1 DEF Gate
<1> QED BY <1>5, <1>6, <1>8

\* The end of the connection leaves nothing to keep.
LEMMA EndKeepsGate ==
    ASSUME TaskTypeOK', EndConnection
    PROVE  HandlesOwned' /\ EntriesOwned' /\ Cancelling' /\ Gate'
<1>1. /\ \A s \in Streams : pc'[s] = "idle"
      /\ DOMAIN controls' = {} /\ mainPc' = "closed" /\ pending' = {}
  BY DEF EndConnection
<1> QED BY <1>1 DEF HandlesOwned, EntriesOwned, Cancelling, Gate, Bound,
                    Cancellable, Forwarding

\* A step of one stream that is neither the registration nor the end of its
\* entry: it does not go on after it has stopped, nor past the re-check
\* without its authority.
LEMMA MoveKeepsGate ==
    ASSUME GateInv, [Next]_vars, NEW s \in Streams, NEW from, NEW to,
           Move(s, from, to), UNCHANGED controls,
           DOMAIN active' \subseteq DOMAIN active,
           \/ UNCHANGED binding
           \/ /\ pc[s] \notin Bound
              /\ \A r \in Streams : r # s => binding'[r] = binding[r],
           pc[s] \in Registered => to \in Registered,
           pc[s] \in {"finished", "done"} => to \in {"finished", "done"},
           to \in Cancellable => pc[s] \in Cancellable,
           to \in Forwarding => pc[s] \in Forwarding \/ Holds(s)
    PROVE  EntriesOwned' /\ Cancelling' /\ Gate'
<1>0. TaskTypeOK /\ Cancelling
  BY DEF GateInv, ServerInv
<1>1. /\ pc'[s] = to /\ \A r \in Streams : r # s => pc'[r] = pc[r]
      /\ UNCHANGED <<mainPc, pending, awaiting>>
  BY <1>0 DEF Move, TaskTypeOK
<1>2. ASSUME NEW r \in Streams
      PROVE  /\ binding'[r] = binding[r] \/ pc[r] \notin Bound
             /\ pc[r] \in Registered => pc'[r] \in Registered
             /\ pc[r] \in {"finished", "done"} => pc'[r] \in {"finished", "done"}
             /\ pc'[r] \in Cancellable => pc[r] \in Cancellable
             /\ pc'[r] \in Forwarding => pc[r] \in Forwarding \/ Holds(r)
  BY <1>1
<1>3. /\ mainPc' \notin {"cancel", "wait"} => pending' = {}
      /\ pending' \cap DOMAIN active' = {}
      /\ pending \subseteq pending'
      /\ mainPc' = "wait" => mainPc = "wait" /\ awaiting' = awaiting
      /\ mainPc = "wait" /\ pc[awaiting] \in Forwarding => mainPc' = "wait"
  BY <1>0, <1>1 DEF Cancelling
<1> QED BY <1>2, <1>3, QuietStep

\* Every step of a stream task.
LEMMA StreamKeepsGate ==
    ASSUME FewTokens, GateInv, [Next]_vars, NEW s \in Streams,
           StreamRuns(s) \/ StreamPeer(s)
    PROVE  HandlesOwned' /\ EntriesOwned' /\ Cancelling' /\ Gate'
<1>0. TaskTypeOK
  BY DEF GateInv, ServerInv
<1> DEFINE Stays(to) ==
      /\ pc[s] \in Registered => to \in Registered
      /\ pc[s] \in {"finished", "done"} => to \in {"finished", "done"}
      /\ to \in Cancellable => pc[s] \in Cancellable
      /\ to \in Forwarding => pc[s] \in Forwarding \/ Holds(s)
<1>h. ASSUME NEW from, NEW to, Move(s, from, to), UNCHANGED binding,
             to \in Bound => pc[s] \in Bound
      PROVE  HandlesOwned'
  <2>1. \A r \in Streams : pc'[r] \in Bound =>
            pc[r] \in Bound /\ binding'[r] = binding[r]
    BY <1>0, <1>h DEF Move, TaskTypeOK
  <2> QED BY <2>1, HandlesKept
<1>r. ASSUME UNCHANGED registryVars PROVE DOMAIN active' \subseteq DOMAIN active
  BY <1>r DEF registryVars
<1>l. ASSUME NEW hs, Release(hs) PROVE DOMAIN active' \subseteq DOMAIN active
  BY <1>l DEF Release, Without
<1> USE DEF Bound, Cancellable, Registered, Forwarding
<1>1. CASE RejectRefused(s)
  <2>1. /\ Move(s, {"refused"}, "done") /\ UNCHANGED <<binding, controls>>
        /\ DOMAIN active' \subseteq DOMAIN active
    BY <1>1, <1>l DEF RejectRefused, close_unbound_if_exact
  <2>2. pc[s] = "refused" /\ Stays("done")
    BY <2>1 DEF Move
  <2> QED BY <1>h, <2>1, <2>2, MoveKeepsGate
<1>2. CASE RegisterControl(s)
  <2>1. pc[s] = "accepted" /\ Move(s, {"accepted"}, "registered") /\ UNCHANGED binding
    BY <1>2 DEF RegisterControl, Move
  <2> QED BY <1>2, <1>h, <2>1, RegisterKeepsGate
<1>3. CASE RecheckAuthority(s)
  <2>1. PICK to : /\ to = IF active_bound_exact(binding[s]) THEN "connecting" ELSE "finish"
                  /\ Move(s, {"registered"}, to) /\ UNCHANGED <<binding, controls>>
    BY <1>3 DEF RecheckAuthority
  <2>2. pc[s] = "registered" /\ Stays(to)
    BY <2>1 DEF Move, active_bound_exact, Holds
  <2>3. DOMAIN active' \subseteq DOMAIN active
    BY <1>3, <1>r DEF RecheckAuthority
  <2> QED BY <1>h, <2>1, <2>2, <2>3, MoveKeepsGate
<1>4. CASE StartBridge(s)
  <2>1. PICK to : /\ to = IF active_bound_exact(binding[s]) THEN "bridging" ELSE "finish"
                  /\ Move(s, {"written"}, to) /\ UNCHANGED <<binding, controls>>
    BY <1>4 DEF StartBridge
  <2>2. pc[s] = "written" /\ Stays(to)
    BY <2>1 DEF Move
  <2>3. DOMAIN active' \subseteq DOMAIN active
    BY <1>4, <1>r DEF StartBridge
  <2> QED BY <1>h, <2>1, <2>2, <2>3, MoveKeepsGate
<1>5. ASSUME NEW from, NEW to, Move(s, from, to), UNCHANGED <<binding, controls>>,
             DOMAIN active' \subseteq DOMAIN active,
             from \subseteq Registered, to \in Registered \ {"registered"},
             to \in Forwarding => from \subseteq Forwarding
      PROVE  HandlesOwned' /\ EntriesOwned' /\ Cancelling' /\ Gate'
  <2>1. pc[s] \in Registered /\ Stays(to)
    BY <1>5 DEF Move
  <2> QED BY <1>h, <1>5, <2>1, MoveKeepsGate
<1>6. CASE Connected(s)
  BY <1>5, <1>6, <1>r DEF Connected
<1>7. CASE ConnectFailed(s)
  BY <1>5, <1>7, <1>l DEF ConnectFailed, close_exact
<1>8. CASE RejectionWritten(s)
  BY <1>5, <1>8, <1>r DEF RejectionWritten
<1>9. CASE LeaseTick(s)
  BY <1>5, <1>9, <1>r DEF LeaseTick
<1>10. CASE Cancelled(s)
  BY <1>5, <1>10, <1>r DEF Cancelled
<1>11. CASE AcceptanceWritten(s)
  BY <1>5, <1>11, <1>r DEF AcceptanceWritten
<1>12. CASE AcceptanceFailed(s)
  BY <1>5, <1>12, <1>r DEF AcceptanceFailed
<1>13. CASE BridgeEnds(s)
  BY <1>5, <1>13, <1>r DEF BridgeEnds
<1>14. CASE FinishControl(s)
  <2>1. pc[s] = "finish" /\ Move(s, {"finish"}, "finished") /\ UNCHANGED binding
    BY <1>14 DEF FinishControl, Move
  <2> QED BY <1>14, <1>h, <2>1, FinishKeepsGate
<1>15. CASE FinishRegistry(s)
  <2>1. /\ Move(s, {"finished"}, "done") /\ UNCHANGED <<binding, controls>>
        /\ DOMAIN active' \subseteq DOMAIN active
    BY <1>15, <1>l DEF FinishRegistry, close
  <2>2. pc[s] = "finished" /\ Stays("done")
    BY <2>1 DEF Move
  <2> QED BY <1>h, <2>1, <2>2, MoveKeepsGate
<1>16. CASE MalformedPreface(s)
  <2>1. /\ Move(s, {"preface"}, "done") /\ UNCHANGED <<binding, controls>>
        /\ DOMAIN active' \subseteq DOMAIN active
    BY <1>16, <1>r DEF MalformedPreface
  <2>2. pc[s] = "preface" /\ Stays("done")
    BY <2>1 DEF Move
  <2> QED BY <1>h, <2>1, <2>2, MoveKeepsGate
<1>17. ASSUME NEW b \in Bindings, ReadBinding(s, b)
       PROVE  HandlesOwned' /\ EntriesOwned' /\ Cancelling' /\ Gate'
  <2>1. PICK to : /\ to = IF AcceptResult(b) = "Accepted" THEN "accepted" ELSE "refused"
                  /\ Move(s, {"preface"}, to)
    BY <1>17 DEF ReadBinding
  <2>2. pc[s] = "preface" /\ Stays(to)
    BY <2>1 DEF Move
  <2>3. /\ binding' = [binding EXCEPT ![s] = b]
        /\ UNCHANGED controls /\ DOMAIN active' = DOMAIN active
    BY <1>17 DEF ReadBinding, accept_active
  <2>4. \A r \in Streams : r # s => binding'[r] = binding[r]
    BY <1>0, <2>3 DEF TaskTypeOK
  <2>5. EntriesOwned' /\ Cancelling' /\ Gate'
    BY <2>1, <2>2, <2>3, <2>4, MoveKeepsGate
  <2>6. CASE AcceptResult(b) = "Accepted"
    BY <1>17, <2>5, <2>6, HandlesAccepted
  <2>7. CASE AcceptResult(b) # "Accepted"
    <3>1. \A r \in Streams : pc'[r] \in Bound =>
              pc[r] \in Bound /\ binding'[r] = binding[r]
      BY <1>0, <2>1, <2>4, <2>7 DEF Move, TaskTypeOK
    <3> QED BY <2>5, <3>1, HandlesKept
  <2> QED BY <2>6, <2>7
<1> QED
  BY <1>1, <1>2, <1>3, <1>4, <1>6, <1>7, <1>8, <1>9, <1>10, <1>11, <1>12,
     <1>13, <1>14, <1>15, <1>16, <1>17 DEF StreamRuns, StreamPeer

\* Every step of the server.
LEMMA GateStep ==
    ASSUME FewTokens, GateInv, [Next]_vars
    PROVE  GateInv'
<1> DEFINE Goal == HandlesOwned' /\ EntriesOwned' /\ Cancelling' /\ Gate'
<1>0. /\ ServerInv /\ RegistryInv /\ TaskTypeOK
      /\ HandlesFresh /\ HandlesOwned /\ Cancelling
  BY DEF GateInv, ServerInv
<1>1. [RegistryNext]_registryVars
  BY <1>0, ServerRegistryStep
<1>2. ServerInv' /\ TaskTypeOK'
  BY <1>0, <1>1, RegistryStep, TaskTypeStep DEF ServerInv
<1>3. HandlesFresh'
  BY <1>0, <1>1, HandleStep
<1> SUFFICES Goal
  BY <1>2, <1>3 DEF GateInv
<1>k. ASSUME UNCHANGED <<pc, binding>> PROVE HandlesOwned'
  BY <1>k, HandlesKept
<1>q. ASSUME UNCHANGED <<pc, binding, controls>>,
             mainPc' \notin {"cancel", "wait"} => pending' = {},
             pending' \cap DOMAIN active' = {},
             pending \subseteq pending',
             mainPc' = "wait" => mainPc = "wait" /\ awaiting' = awaiting,
             mainPc = "wait" /\ pc[awaiting] \in Forwarding => mainPc' = "wait"
      PROVE  Goal
  <2>1. \A s \in Streams :
            /\ binding'[s] = binding[s] \/ pc[s] \notin Bound
            /\ pc[s] \in Registered => pc'[s] \in Registered
            /\ pc[s] \in {"finished", "done"} =>
                  pc'[s] \in {"finished", "done"} \/ mainPc = "loop"
            /\ pc'[s] \in Cancellable => pc[s] \in Cancellable
            /\ pc'[s] \in Forwarding => pc[s] \in Forwarding \/ Holds(s)
    BY <1>q
  <2> QED BY <1>k, <1>q, <2>1, QuietStep
<1>t. ASSUME UNCHANGED <<pending, awaiting, pc, binding, controls>>,
             \/ DOMAIN active' \subseteq DOMAIN active /\ mainPc' = mainPc
             \/ {mainPc, mainPc'} \cap {"cancel", "wait"} = {}
      PROVE  Goal
  BY <1>0, <1>t, <1>q DEF Cancelling
<1>4. CASE UNCHANGED vars
  BY <1>4, <1>t DEF vars, taskVars, registryVars
<1>5. CASE FrameCarriedOut
  <2>1. ASSUME NEW s \in Sessions, NEW f \in Fingerprints,
               NEW g \in Generations, NEW t \in Tokens, SessionPrepare(s, f, g, t)
        PROVE  Goal
    BY <1>t, <2>1 DEF SessionPrepare, CarryOut
  <2>2. ASSUME NEW t \in Tokens, NEW c \in Claims, SessionOpen(t, c)
        PROVE  Goal
    BY <1>t, <2>2 DEF SessionOpen, CarryOut
  <2>3. ASSUME NEW h \in Handles, SessionClose(h)
        PROVE  Goal
    <3>1. /\ mainPc = "close" /\ pending = {} /\ pending' = {h} /\ mainPc' = "cancel"
          /\ h \notin DOMAIN active' /\ UNCHANGED <<pc, binding, controls>>
      BY <1>0, <2>3 DEF SessionClose, CarryOut, Cancelling, close, Release, Without
    <3> QED BY <1>q, <3>1
  <2>4. ASSUME NEW e \in Heartbeats, Heartbeat(e)
        PROVE  Goal
    BY <1>t, <2>4 DEF Heartbeat, CarryOut
  <2> QED BY <1>5, <2>1, <2>2, <2>3, <2>4 DEF FrameCarriedOut
<1>6. CASE ControlEnds \/ DrainDeadline
  BY <1>2, <1>6, EndKeepsGate DEF ControlEnds, DrainDeadline
<1>7. CASE ReapExpired
  <2>1. /\ mainPc = "sweep" /\ pending = {} /\ pending' = ExpiredHandles
        /\ mainPc' = IF ExpiredHandles = {} THEN "loop" ELSE "cancel"
        /\ DOMAIN active' = DOMAIN active \ ExpiredHandles
        /\ UNCHANGED <<pc, binding, controls>>
    BY <1>0, <1>7 DEF ReapExpired, Cancelling, reap_expired_handles, Without
  <2> QED BY <1>q, <2>1
<1>8. CASE TimePasses
  <2>1. DOMAIN active' = DOMAIN active /\ UNCHANGED taskVars
    BY <1>8 DEF TimePasses, Tick, Elapse
  <2> QED BY <1>t, <2>1 DEF taskVars
<1>9. CASE CancelSession
  <2>1. UNCHANGED <<pc, binding>>
    BY <1>9 DEF CancelSession
  <2> QED BY <1>9, <1>k, <2>1, CancelKeepsGate
<1>10. CASE CancelWaited
  <2>1. /\ mainPc = "wait" /\ pc[awaiting] \in {"done", "rejecting"}
        /\ mainPc' = IF pending = {} THEN "loop" ELSE "cancel"
        /\ UNCHANGED <<pending, pc, binding, controls>> /\ UNCHANGED active
    BY <1>10 DEF CancelWaited, registryVars
  <2>2. pc[awaiting] \notin Forwarding
    BY <2>1 DEF Forwarding
  <2>3. pending' \cap DOMAIN active' = {}
    BY <1>0, <2>1 DEF Cancelling
  <2> QED BY <1>q, <2>1, <2>2, <2>3
<1>11. CASE DrainStarts \/ RevokePeer \/ ConnectionLost \/ Gone
  BY <1>11, <1>t DEF DrainStarts, RevokePeer, ConnectionLost, Gone, vars,
                     taskVars, registryVars
<1>15. CASE FrameChecked \/ ExpiryTick
  BY <1>15, <1>t DEF FrameChecked, CheckFrame, ExpiryTick, FrameKinds,
                     registryVars
<1>12. ASSUME NEW s \in Streams, AcceptStream(s)
       PROVE  Goal
  <2>1. Move(s, {"idle"}, "preface") /\ UNCHANGED <<binding, controls>>
    BY <1>12 DEF AcceptStream, Move
  <2>2. DOMAIN active' \subseteq DOMAIN active /\ pc[s] = "idle"
    BY <1>12 DEF AcceptStream, registryVars
  <2>3. /\ "idle" \notin Bound /\ "preface" \notin Bound /\ "idle" \notin Registered
        /\ "preface" \notin Cancellable /\ "preface" \notin Forwarding
    BY DEF Bound, Registered, Cancellable, Forwarding
  <2>4. EntriesOwned' /\ Cancelling' /\ Gate'
    BY <2>1, <2>2, <2>3, MoveKeepsGate
  <2>5. \A r \in Streams : pc'[r] \in Bound =>
            pc[r] \in Bound /\ binding'[r] = binding[r]
    BY <1>0, <2>1, <2>3 DEF Move, TaskTypeOK
  <2> QED BY <2>4, <2>5, HandlesKept
<1>13. ASSUME NEW s \in Streams, JoinStream(s)
       PROVE  Goal
  <2>1. CASE EndConnection
    BY <1>2, <2>1, EndKeepsGate
  <2>2. CASE ~EndConnection
    <3>1. /\ mainPc = "loop" /\ pc[s] = "done" /\ pc' = [pc EXCEPT ![s] = "idle"]
          /\ binding' = [binding EXCEPT ![s] = NoBinding]
          /\ UNCHANGED <<mainPc, pending, awaiting, controls>> /\ UNCHANGED active
      BY <1>13, <2>2 DEF JoinStream, registryVars
    <3>2. /\ "idle" \notin Bound /\ "done" \notin Bound /\ "done" \notin Registered
          /\ "idle" \notin Cancellable /\ "idle" \notin Forwarding
      BY DEF Bound, Registered, Cancellable, Forwarding
    <3>3. ASSUME NEW r \in Streams
          PROVE  /\ pc'[r] = IF r = s THEN "idle" ELSE pc[r]
                 /\ r # s => binding'[r] = binding[r]
      BY <1>0, <3>1 DEF TaskTypeOK
    <3>4. \A r \in Streams : pc'[r] \in Bound =>
              pc[r] \in Bound /\ binding'[r] = binding[r]
      BY <3>2, <3>3
    <3>5. ASSUME NEW r \in Streams
          PROVE  /\ binding'[r] = binding[r] \/ pc[r] \notin Bound
                 /\ pc[r] \in Registered => pc'[r] \in Registered
                 /\ pc'[r] \in Cancellable => pc[r] \in Cancellable
                 /\ pc'[r] \in Forwarding => pc[r] \in Forwarding
      BY <3>1, <3>2, <3>3
    <3>6. /\ mainPc' \notin {"cancel", "wait"} => pending' = {}
          /\ pending' \cap DOMAIN active' = {}
      BY <1>0, <3>1 DEF Cancelling
    <3>7. EntriesOwned' /\ Cancelling' /\ Gate'
      BY <3>1, <3>5, <3>6, QuietStep
    <3> QED BY <3>4, <3>7, HandlesKept
  <2> QED BY <2>1, <2>2
<1>14. ASSUME NEW s \in Streams, StreamRuns(s) \/ StreamPeer(s)
       PROVE  Goal
  BY <1>14, StreamKeepsGate
<1> QED
  BY <1>4, <1>5, <1>6, <1>7, <1>8, <1>9, <1>10, <1>11, <1>12, <1>13, <1>14,
     <1>15 DEF Next

\* The gate is shut at first.
LEMMA GateInitial ==
    ASSUME Init
    PROVE  GateInv
<1>1. /\ \A s \in Streams : pc[s] = "idle"
      /\ DOMAIN controls = {} /\ mainPc = "loop" /\ pending = {}
  BY DEF Init
<1>2. RegistryInv /\ HandlesFresh
  BY RegistryInitial, HandlesInitiallyFresh DEF Init
<1>3. TaskTypeOK
  BY <1>1 DEF Init, TaskTypeOK, StreamStates, Bound, Cancellable
<1> QED BY <1>1, <1>2, <1>3 DEF GateInv, ServerInv, HandlesOwned, EntriesOwned,
                                Cancelling, Gate, Bound, Cancellable, Forwarding

\* The inductive invariant of the cancellation gate.
THEOREM ServerGate ==
    ASSUME FewTokens
    PROVE  Safe => []GateInv
<1>1. Init => GateInv
  BY GateInitial
<1>2. GateInv /\ [Next]_vars => GateInv'
  BY GateStep
<1> QED BY <1>1, <1>2, PTL DEF Safe

\* No stream forwards unnoticed: past its re-check a task holds its authority
\* or is cancelled, however closes, sweeps and streams interleave.
THEOREM ServerForwardAuthorised ==
    ASSUME FewTokens
    PROVE  Safe => []ForwardAuthorised
<1>1. ASSUME GateInv, NEW s \in Streams, pc[s] \in Forwarding
      PROVE  \/ Holds(s) \/ CancelSignalled(s) \/ binding[s].handle \in pending
  BY <1>1 DEF GateInv, Gate, Cancelling
<1>2. GateInv => ForwardAuthorised
  BY <1>1 DEF ForwardAuthorised, Forwarding
<1> QED BY <1>2, ServerGate, PTL

\* Once the connection task is back at its select, so that SESSION_CLOSED is
\* answered, no bridge runs without its authority.
THEOREM ServerClosedMeansStopped ==
    ASSUME FewTokens
    PROVE  Safe => []ClosedMeansStopped
<1>1. ASSUME GateInv, mainPc = "loop", NEW s \in Streams, pc[s] = "bridging"
      PROVE  Holds(s)
  <2>1. pc[s] \in Forwarding
    BY <1>1 DEF Forwarding
  <2> QED BY <1>1, <2>1 DEF GateInv, Gate, Cancelling
<1>2. GateInv => ClosedMeansStopped
  BY <1>1 DEF ClosedMeansStopped
<1> QED BY <1>2, ServerGate, PTL

\* A bound authority goes only with the connection, by the connection task
\* that cancels its stream, or by that stream itself.
THEOREM ServerOnlyOwnerReleases ==
    ASSUME FewTokens
    PROVE  Safe => OnlyOwnerReleases
<1> DEFINE Released ==
      \A h \in DOMAIN active \ DOMAIN active' :
          active[h].bound =>
             \/ mainPc' = "closed"
             \/ mainPc \in {"close", "sweep"} /\ h \in pending'
             \/ \E s \in Streams : /\ pc'[s] # pc[s] /\ pc[s] \in Bound
                                   /\ Holds(s) /\ binding[s].handle = h
<1>1. ASSUME GateInv, [Next]_vars
      PROVE  [Released]_vars
  BY <1>1, ReleaseStep DEF EndConnection
<1>2. GateInv /\ [Next]_vars => [Released]_vars
  BY <1>1
<1> QED BY <1>2, ServerGate, PTL DEF Safe, OnlyOwnerReleases
=============================================================================
