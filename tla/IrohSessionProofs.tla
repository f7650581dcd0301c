------------------------- MODULE IrohSessionProofs ---------------------------
(***************************************************************************)
(* A paired connection of the iroh relay, for every number of streams,     *)
(* sessions and tokens: it implements the registry, and a stream that      *)
(* forwards holds its authority, is being cancelled, or was closed while   *)
(* it was still connecting.                                                *)
(***************************************************************************)
EXTENDS IrohSession, SessionRegistryProofs

\* The type of the tasks' state, without the registry's.
TaskTypeOK ==
    /\ {serving, shutdown} \subseteq BOOLEAN
    /\ pc \in [Streams -> StreamStates]
    /\ binding \in [Streams -> Bindings \cup {NoBinding}]
    /\ \A s \in Streams : pc[s] \in Bound => binding[s] \in Bindings
    /\ DOMAIN controls \subseteq Handles
    /\ \A h \in DOMAIN controls : controls[h] \in Streams \cup {NoStream}
    /\ closedEarly \subseteq Streams

Accepted(s) == pc[s] \in {"accepting", "bridging"}

\* A bound stream's token is spent, and where it is still active it is the
\* authority the stream is bound to; no two streams are bound by one token.
Owned ==
    /\ \A s \in Streams : pc[s] \in Bound =>
          /\ binding[s].token \in minted /\ binding[s].token \notin DOMAIN prepared
          /\ \A h \in DOMAIN active : active[h].token = binding[s].token =>
                active[h].bound /\ h = binding[s].handle
                /\ active[h].claim = binding[s].claim
    /\ \A s, r \in Streams : pc[s] \in Bound /\ pc[r] \in Bound /\ s # r =>
          binding[s].token # binding[r].token

\* A cancellation entry is its stream's own.
EntriesOwned ==
    \A h \in DOMAIN controls : controls[h] # NoStream =>
        Accepted(controls[h]) /\ binding[controls[h]].handle = h

\* A stream that lost its authority is being cancelled, unless it lost it
\* while it was connecting.
Guarded ==
    \A s \in Streams :
        /\ pc[s] = "connecting" => Holds(s) \/ s \in closedEarly
        /\ Accepted(s) => Holds(s) \/ CancelSignalled(s) \/ s \in closedEarly

IrohInv == RegistryInv /\ TaskTypeOK /\ Owned /\ EntriesOwned /\ Guarded

-----------------------------------------------------------------------------
(* The connection implements the registry.                                  *)

\* Every step of the connection is a step of the registry or leaves it alone.
LEMMA IrohRegistryStep ==
    ASSUME TaskTypeOK, [Next]_vars
    PROVE  [RegistryNext]_registryVars
<1>1. CASE UNCHANGED vars
  BY <1>1 DEF vars
<1>2. ASSUME EndConnection
      PROVE  RegistryNext
  BY <1>2 DEF EndConnection, RegistryNext
<1>3. CASE ControlFrame
  BY <1>2, <1>3 DEF ControlFrame, SessionPrepare, SessionOpen, SessionClose,
                    RegistryNext, Prepare, Open, Close
<1>4. CASE ControlEnds \/ ShutdownBranch
  BY <1>2, <1>4 DEF ControlEnds, ShutdownBranch
<1>5. CASE TimePasses \/ BeginShutdown \/ Gone
  BY <1>5 DEF TimePasses, BeginShutdown, Gone, vars, RegistryNext
<1>6. ASSUME NEW s \in Streams, AcceptStream(s)
      PROVE  [RegistryNext]_registryVars
  BY <1>6 DEF AcceptStream
<1>7. ASSUME NEW s \in Streams, StreamStep(s)
      PROVE  [RegistryNext]_registryVars
  <2>1. ASSUME NEW b \in Bindings, ReadBinding(s, b)
        PROVE  RegistryNext
    BY <2>1 DEF ReadBinding, RegistryNext, Accept
  <2>2. CASE PrefaceFails(s) \/ Answered(s) \/ AcceptanceWritten(s) \/ AcceptanceFailed(s)
    BY <2>2 DEF PrefaceFails, Answered, AcceptanceWritten, AcceptanceFailed
  <2>3. CASE SocketUnavailable(s) \/ Connected(s) \/ Finish(s)
    <3>1. binding[s] \in Bindings
      BY <2>3 DEF SocketUnavailable, Connected, Finish, TaskTypeOK, Bound
    <3> QED BY <2>3, <3>1 DEF SocketUnavailable, Connected, Finish, close_binding,
                              RegistryNext, CloseExact
  <2> QED BY <1>7, <2>1, <2>2, <2>3 DEF StreamStep, BridgeEnds, Cancelled
<1> QED BY <1>1, <1>3, <1>4, <1>5, <1>6, <1>7 DEF Next

-----------------------------------------------------------------------------
(* How a stream moves on.                                                   *)

\* The end of the connection leaves no stream.
LEMMA EndKeepsInv ==
    ASSUME IrohInv, EndConnection, UNCHANGED shutdown
    PROVE  TaskTypeOK' /\ Owned' /\ EntriesOwned' /\ Guarded'
<1>1. /\ DOMAIN controls' = {} /\ closedEarly' = {} /\ serving' = FALSE
      /\ \A s \in Streams : pc'[s] = "idle"
      /\ pc' \in [Streams -> StreamStates]
      /\ binding' \in [Streams -> Bindings \cup {NoBinding}]
  BY DEF EndConnection, StreamStates
<1>2. TaskTypeOK'
  BY <1>1 DEF IrohInv, TaskTypeOK, Bound
<1>3. Owned' /\ EntriesOwned' /\ Guarded'
  BY <1>1 DEF Owned, EntriesOwned, Guarded, Accepted, Bound
<1> QED BY <1>2, <1>3

\* Streams that stay bound, or let go, keep their tokens to themselves.
LEMMA OwnedKept ==
    ASSUME IrohInv, [RegistryNext]_registryVars,
           \A s \in Streams : pc'[s] \in Bound =>
               pc[s] \in Bound /\ binding'[s] = binding[s]
    PROVE  Owned'
<1>1. ASSUME NEW s \in Streams, pc'[s] \in Bound
      PROVE  /\ binding'[s].token \in minted' /\ binding'[s].token \notin DOMAIN prepared'
             /\ \A h \in DOMAIN active' : active'[h].token = binding'[s].token =>
                   active'[h].bound /\ h = binding'[s].handle
                   /\ active'[h].claim = binding'[s].claim
  <2>1. /\ binding'[s] = binding[s]
        /\ binding[s].token \in minted /\ binding[s].token \notin DOMAIN prepared
        /\ \A h \in DOMAIN active : active[h].token = binding[s].token =>
              active[h].bound /\ h = binding[s].handle
              /\ active[h].claim = binding[s].claim
    BY <1>1 DEF IrohInv, Owned
  <2> QED BY <2>1, TokenStep DEF IrohInv
<1>2. \A s, r \in Streams : pc'[s] \in Bound /\ pc'[r] \in Bound /\ s # r =>
          binding'[s].token # binding'[r].token
  BY DEF IrohInv, Owned
<1> QED BY <1>1, <1>2 DEF Owned

\* A stream that holds its authority keeps it for as long as its handle is
\* active, whatever the step does to the registry.
LEMMA HoldsKept ==
    ASSUME IrohInv, [RegistryNext]_registryVars, NEW s \in Streams, Holds(s),
           binding'[s] = binding[s], binding[s].handle \in DOMAIN active'
    PROVE  Holds(s)'
<1>1. Exact(binding[s]) /\ active[binding[s].handle].bound
  BY DEF Holds
<1>2. binding[s].handle \in DOMAIN active
  BY <1>1 DEF Exact
<1>3. /\ active'[binding[s].handle].token = active[binding[s].handle].token
      /\ active'[binding[s].handle].claim = active[binding[s].handle].claim
      /\ active'[binding[s].handle].bound
  BY <1>1, <1>2, EntryStep DEF IrohInv
<1> QED BY <1>1, <1>3 DEF Holds, Exact

\* What a step may do to a stream without unguarding it.
KeepsGuard(s) ==
    /\ pc'[s] \in Bound => pc[s] \in Bound /\ binding'[s] = binding[s]
    /\ pc'[s] = "connecting" => pc[s] = "connecting"
    /\ Accepted(s)' => Accepted(s)
    /\ pc'[s] \in Bound /\ s \in closedEarly => s \in closedEarly'
    /\ Accepted(s)' /\ CancelSignalled(s) => CancelSignalled(s)'
    /\ pc'[s] \in Bound /\ Holds(s) =>
          \/ binding[s].handle \in DOMAIN active'
          \/ s \in closedEarly'
          \/ Accepted(s)' /\ CancelSignalled(s)'

\* Such steps keep the streams owned and guarded.
LEMMA GuardKept ==
    ASSUME IrohInv, [RegistryNext]_registryVars, TaskTypeOK',
           \A s \in Streams : KeepsGuard(s)
    PROVE  Owned' /\ Guarded'
<1>1. Owned'
  BY OwnedKept DEF KeepsGuard
<1>2. ASSUME NEW s \in Streams
      PROVE  /\ pc'[s] = "connecting" => Holds(s)' \/ s \in closedEarly'
             /\ Accepted(s)' => Holds(s)' \/ CancelSignalled(s)' \/ s \in closedEarly'
  <2>1. CASE pc'[s] = "connecting"
    <3>1. pc'[s] \in Bound /\ pc[s] = "connecting" /\ ~Accepted(s)'
      BY <2>1 DEF Bound, KeepsGuard, Accepted
    <3>2. Holds(s) \/ s \in closedEarly
      BY <3>1 DEF IrohInv, Guarded
    <3> QED BY <3>1, <3>2, HoldsKept DEF KeepsGuard
  <2>2. CASE Accepted(s)'
    <3>1. pc'[s] \in Bound /\ Accepted(s) /\ pc'[s] # "connecting"
      BY <2>2 DEF Bound, KeepsGuard, Accepted
    <3>2. Holds(s) \/ CancelSignalled(s) \/ s \in closedEarly
      BY <3>1 DEF IrohInv, Guarded
    <3> QED BY <2>2, <3>1, <3>2, HoldsKept DEF KeepsGuard
  <2> QED BY <2>1, <2>2
<1> QED BY <1>1, <1>2 DEF Guarded

\* A step that drops no authority, touches no entry and moves streams only
\* from the acceptance to the bridge or outside of what is bound.
LEMMA CalmStep ==
    ASSUME IrohInv, [RegistryNext]_registryVars, TaskTypeOK',
           UNCHANGED controls, DOMAIN active \subseteq DOMAIN active',
           \A s \in Streams :
               /\ \/ pc'[s] = pc[s]
                  \/ pc[s] = "accepting" /\ pc'[s] = "bridging"
                  \/ pc[s] \notin Bound /\ pc'[s] \notin Bound
               /\ pc'[s] \in Bound => /\ binding'[s] = binding[s]
                                      /\ s \in closedEarly => s \in closedEarly'
    PROVE  Owned' /\ EntriesOwned' /\ Guarded'
<1>1. \A s \in Streams : Accepted(s)' <=> Accepted(s)
  BY DEF Accepted, Bound
<1>2. \A s \in Streams : CancelSignalled(s)' <=> CancelSignalled(s)
  BY DEF CancelSignalled
<1>3. \A s \in Streams : Holds(s) => binding[s].handle \in DOMAIN active'
  BY DEF Holds, Exact
<1>4. \A s \in Streams : KeepsGuard(s)
  BY <1>1, <1>2, <1>3 DEF KeepsGuard, Bound
<1>5. EntriesOwned'
  BY <1>1, IrohAssumption DEF IrohInv, EntriesOwned, TaskTypeOK, Accepted, Bound
<1> QED BY <1>4, <1>5, GuardKept

-----------------------------------------------------------------------------
(* The type of the tasks' state.                                            *)

\* Every step of the connection keeps the type of the tasks' state.
LEMMA IrohTypeStep ==
    ASSUME IrohInv, [Next]_vars
    PROVE  TaskTypeOK'
<1>0. TaskTypeOK
  BY DEF IrohInv
<1>1. CASE UNCHANGED vars
  BY <1>0, <1>1 DEF vars, taskVars, TaskTypeOK
<1>2. ASSUME EndConnection, UNCHANGED shutdown PROVE TaskTypeOK'
  BY <1>2, EndKeepsInv
<1>3. CASE ControlFrame
  <2>1. ASSUME NEW s \in Sessions, NEW f \in Fingerprints,
               NEW g \in Generations, NEW t \in Tokens, SessionPrepare(s, f, g, t)
        PROVE  TaskTypeOK'
    BY <1>0, <1>2, <2>1 DEF SessionPrepare, taskVars, TaskTypeOK
  <2>2. ASSUME NEW t \in Tokens, NEW c \in Claims, SessionOpen(t, c)
        PROVE  TaskTypeOK'
    BY <1>0, <2>2 DEF SessionOpen, taskVars, TaskTypeOK
  <2>3. ASSUME NEW h \in Handles, SessionClose(h)
        PROVE  TaskTypeOK'
    BY <1>0, <2>3 DEF SessionClose, Without, TaskTypeOK
  <2> QED BY <1>3, <2>1, <2>2, <2>3 DEF ControlFrame
<1>4. CASE ControlEnds \/ ShutdownBranch
  BY <1>2, <1>4 DEF ControlEnds, ShutdownBranch
<1>5. CASE TimePasses \/ BeginShutdown \/ Gone
  BY <1>0, <1>5 DEF TimePasses, BeginShutdown, Gone, vars, taskVars, TaskTypeOK
<1>6. ASSUME NEW s \in Streams, AcceptStream(s)
      PROVE  TaskTypeOK'
  BY <1>0, <1>6 DEF AcceptStream, TaskTypeOK, StreamStates, Bound
<1>7. ASSUME NEW s \in Streams, StreamStep(s)
      PROVE  TaskTypeOK'
  <2>1. ASSUME NEW b \in Bindings, ReadBinding(s, b)
        PROVE  TaskTypeOK'
    BY <1>0, <2>1 DEF ReadBinding, Advance, TaskTypeOK, StreamStates, Bound
  <2>2. CASE PrefaceFails(s) \/ Answered(s)
    BY <1>0, <2>2 DEF PrefaceFails, Answered, Return, TaskTypeOK, StreamStates, Bound
  <2>3. CASE AcceptanceWritten(s) \/ SocketUnavailable(s)
    BY <1>0, <2>3 DEF AcceptanceWritten, SocketUnavailable, Advance, TaskTypeOK,
                      StreamStates, Bound
  <2>4. CASE AcceptanceFailed(s)
    BY <1>0, <2>4 DEF AcceptanceFailed, Return, TaskTypeOK, StreamStates, Bound
  <2>5. CASE Connected(s)
    <3>1. binding[s].handle \in Handles
      BY <1>0, <2>5 DEF Connected, TaskTypeOK, Bound, Bindings
    <3>2. CASE binding[s].handle \in DOMAIN controls
      BY <1>0, <2>5, <3>1, <3>2 DEF Connected, Return, With, TaskTypeOK, StreamStates, Bound
    <3>3. CASE binding[s].handle \notin DOMAIN controls
      BY <1>0, <2>5, <3>1, <3>3 DEF Connected, Advance, With, TaskTypeOK, StreamStates, Bound
    <3> QED BY <3>2, <3>3
  <2>6. CASE Finish(s)
    BY <1>0, <2>6 DEF Finish, Return, Without, TaskTypeOK, StreamStates, Bound
  <2> QED BY <1>7, <2>1, <2>2, <2>3, <2>4, <2>5, <2>6
          DEF StreamStep, BridgeEnds, Cancelled
<1> QED BY <1>1, <1>3, <1>4, <1>5, <1>6, <1>7 DEF Next
-----------------------------------------------------------------------------
(* The steps that drop authority or touch a cancellation.                   *)

\* SESSION_CLOSE: the entry under the handle goes with the authority, so a
\* stream that loses it is cancelled, unless it has no entry yet.
LEMMA CloseKeepsGuard ==
    ASSUME IrohInv, [RegistryNext]_registryVars, TaskTypeOK',
           NEW h \in Handles, SessionClose(h)
    PROVE  Owned' /\ EntriesOwned' /\ Guarded'
<1>0. /\ UNCHANGED <<pc, binding>>
      /\ controls' = Without(controls, {h})
      /\ active' = Without(active, {h})
      /\ closedEarly' = closedEarly \cup
            {s \in Streams : pc[s] = "connecting" /\ binding[s].handle = h}
  BY DEF SessionClose, close, Release
<1>1. /\ DOMAIN controls' = DOMAIN controls \ {h}
      /\ \A g \in DOMAIN controls' : controls'[g] = controls[g]
      /\ DOMAIN active' = DOMAIN active \ {h}
  BY <1>0 DEF Without
<1>2. EntriesOwned'
  BY <1>0, <1>1 DEF IrohInv, EntriesOwned, Accepted
<1>3. ASSUME NEW s \in Streams PROVE KeepsGuard(s)
  <2>1. CancelSignalled(s) => CancelSignalled(s)'
    BY <1>1 DEF CancelSignalled
  <2>2. binding[s].handle = h => CancelSignalled(s)'
    BY <1>0, <1>1, <1>2, IrohAssumption DEF CancelSignalled, EntriesOwned
  <2>3. Holds(s) => binding[s].handle \in DOMAIN active' \/ binding[s].handle = h
    BY <1>1 DEF Holds, Exact
  <2>4. pc[s] \in Bound => pc[s] = "connecting" \/ Accepted(s)
    BY DEF Bound, Accepted
  <2> QED BY <1>0, <2>1, <2>2, <2>3, <2>4 DEF KeepsGuard, Accepted
<1> QED BY <1>2, <1>3, GuardKept

\* close_binding drops no authority another stream holds.
LEMMA CloseBindingSpares ==
    ASSUME IrohInv, NEW r \in Streams, pc[r] \in Bound, close_binding(r)
    PROVE  \A s \in Streams : pc[s] \in Bound /\ s # r /\ Holds(s) =>
               binding[s].handle \in DOMAIN active'
<1> SUFFICES ASSUME NEW s \in Streams, pc[s] \in Bound, s # r, Holds(s)
             PROVE  binding[s].handle \in DOMAIN active'
  OBVIOUS
<1>1. binding[s].handle \in DOMAIN active /\ active[binding[s].handle].token = binding[s].token
  BY DEF Holds, Exact
<1>2. Exact(binding[r]) => binding[r].handle # binding[s].handle
  BY <1>1 DEF Exact, IrohInv, Owned
<1> QED BY <1>1, <1>2 DEF close_binding, close_exact, Release, Without

\* One stream lets go: its entry goes, or loses its receiver, and no other
\* stream's does unless that stream is cancelled by it.
LEMMA LetGo ==
    ASSUME IrohInv, [RegistryNext]_registryVars, TaskTypeOK',
           NEW r \in Streams, pc[r] \in Bound, pc'[r] \notin Bound,
           \A s \in Streams \ {r} : pc'[s] = pc[s] /\ binding'[s] = binding[s]
                                    /\ (s \in closedEarly => s \in closedEarly'),
           \A s \in Streams : pc[s] \in Bound /\ s # r /\ Holds(s) =>
               binding[s].handle \in DOMAIN active',
           \A h \in DOMAIN controls' :
               \/ controls'[h] = NoStream
               \/ h \in DOMAIN controls /\ controls'[h] = controls[h] /\ controls[h] # r
    PROVE  Owned' /\ EntriesOwned' /\ Guarded'
<1>1. ASSUME NEW s \in Streams PROVE KeepsGuard(s)
  <2>1. CancelSignalled(s) => CancelSignalled(s)'
    BY IrohAssumption DEF CancelSignalled
  <2>2. s = r => ~Accepted(s)' /\ pc'[s] # "connecting"
    BY DEF Accepted, Bound
  <2> QED BY <2>1, <2>2 DEF KeepsGuard, Accepted
<1>2. EntriesOwned'
  BY IrohAssumption DEF IrohInv, EntriesOwned, TaskTypeOK, Accepted
<1> QED BY <1>1, <1>2, GuardKept

\* A stream is accepted: its token was bound by nobody before.
LEMMA AcceptedIsGuarded ==
    ASSUME IrohInv, [RegistryNext]_registryVars, TaskTypeOK',
           NEW r \in Streams, NEW b \in Bindings, ReadBinding(r, b),
           AcceptResult(b) = "Accepted"
    PROVE  Owned' /\ EntriesOwned' /\ Guarded'
<1>1. /\ pc[r] = "preface" /\ Exact(b) /\ ~active[b.handle].bound
      /\ pc' = [pc EXCEPT ![r] = "connecting"]
      /\ binding' = [binding EXCEPT ![r] = b]
      /\ active' = [active EXCEPT ![b.handle].bound = TRUE]
      /\ UNCHANGED <<prepared, minted, controls, closedEarly>>
  BY DEF ReadBinding, Advance, accept_active, AcceptResult
<1>2. /\ pc'[r] = "connecting" /\ binding'[r] = b
      /\ \A s \in Streams \ {r} : pc'[s] = pc[s] /\ binding'[s] = binding[s]
  BY <1>1 DEF IrohInv, TaskTypeOK
<1>3. b.handle \in DOMAIN active /\ active[b.handle] \in ActiveSession
      /\ active[b.handle].token = b.token /\ active[b.handle].claim = b.claim
  BY <1>1 DEF Exact, IrohInv, RegistryInv, RegistryTypeOK
<1>4. /\ DOMAIN active' = DOMAIN active
      /\ active'[b.handle].bound /\ active'[b.handle].token = b.token
      /\ active'[b.handle].claim = b.claim
      /\ \A h \in DOMAIN active : h # b.handle => active'[h] = active[h]
  BY <1>1, <1>3 DEF ActiveSession
<1>5. b.token \in minted /\ b.token \notin DOMAIN prepared
      /\ \A h \in DOMAIN active : active[h].token = b.token => h = b.handle
  BY <1>3 DEF IrohInv, RegistryInv, RegistryTypeOK, TokenInOnePlace
<1>6. \A s \in Streams : pc[s] \in Bound => s # r /\ binding[s].token # b.token
  BY <1>1, <1>3 DEF IrohInv, Owned, Bound
<1>7. Owned'
  <2>1. ASSUME NEW s \in Streams, pc'[s] \in Bound, s # r
        PROVE  /\ pc[s] \in Bound /\ binding'[s] = binding[s]
               /\ binding[s].token \in minted' /\ binding[s].token \notin DOMAIN prepared'
               /\ \A h \in DOMAIN active' : active'[h].token = binding[s].token =>
                     active'[h].bound /\ h = binding[s].handle
                     /\ active'[h].claim = binding[s].claim
    BY <1>1, <1>2, <1>4, <1>6, <2>1 DEF IrohInv, Owned
  <2>2. \A h \in DOMAIN active' : active'[h].token = b.token => h = b.handle
    BY <1>4, <1>5
  <2>3. \A s \in Streams : pc'[s] \in Bound =>
          /\ binding'[s].token \in minted' /\ binding'[s].token \notin DOMAIN prepared'
          /\ \A h \in DOMAIN active' : active'[h].token = binding'[s].token =>
                active'[h].bound /\ h = binding'[s].handle
                /\ active'[h].claim = binding'[s].claim
    BY <1>1, <1>2, <1>4, <1>5, <2>1, <2>2
  <2>4. \A s, q \in Streams : pc'[s] \in Bound /\ pc'[q] \in Bound /\ s # q =>
           binding'[s].token # binding'[q].token
    BY <1>2, <1>6, <2>1 DEF IrohInv, Owned
  <2> QED BY <2>3, <2>4 DEF Owned
<1>8. EntriesOwned'
  BY <1>1, <1>2, IrohAssumption DEF IrohInv, EntriesOwned, TaskTypeOK, Accepted
<1>9. Guarded'
  <2>1. Holds(r)'
    BY <1>2, <1>3, <1>4 DEF Holds, Exact
  <2>2. \A s \in Streams : CancelSignalled(s)' <=> CancelSignalled(s)
    BY <1>1 DEF CancelSignalled
  <2>3. \A s \in Streams \ {r} : Holds(s) => Holds(s)'
    <3> SUFFICES ASSUME NEW s \in Streams \ {r}, Holds(s) PROVE Holds(s)'
      OBVIOUS
    <3>1. binding[s].handle \in DOMAIN active'
      BY <1>4 DEF Holds, Exact
    <3> QED BY <1>2, <3>1, HoldsKept
  <2> QED BY <1>1, <1>2, <2>1, <2>2, <2>3 DEF IrohInv, Guarded, Accepted
<1> QED BY <1>7, <1>8, <1>9

\* The socket is connected and the cancellation registered.
LEMMA ConnectedIsGuarded ==
    ASSUME IrohInv, [RegistryNext]_registryVars, TaskTypeOK',
           NEW r \in Streams, Connected(r)
    PROVE  Owned' /\ EntriesOwned' /\ Guarded'
<1> DEFINE h == binding[r].handle
<1>0. pc[r] = "connecting" /\ pc[r] \in Bound /\ ~Accepted(r)
  BY DEF Connected, Bound, Accepted
<1>n. \A g \in DOMAIN controls : controls[g] # r
  BY <1>0, IrohAssumption DEF IrohInv, EntriesOwned
<1>1. CASE h \in DOMAIN controls
  <2>1. /\ controls' = With(controls, h, NoStream) /\ close_binding(r)
        /\ pc' = [pc EXCEPT ![r] = "idle"]
        /\ binding' = [binding EXCEPT ![r] = NoBinding]
        /\ closedEarly' = closedEarly \ {r}
    BY <1>1 DEF Connected, Return
  <2>2. /\ pc'[r] \notin Bound
        /\ \A s \in Streams \ {r} : pc'[s] = pc[s] /\ binding'[s] = binding[s]
    BY <2>1 DEF IrohInv, TaskTypeOK, Bound
  <2>3. \A g \in DOMAIN controls' :
            \/ controls'[g] = NoStream
            \/ g \in DOMAIN controls /\ controls'[g] = controls[g] /\ controls[g] # r
    BY <1>n, <2>1 DEF With
  <2> QED BY <1>0, <2>1, <2>2, <2>3, CloseBindingSpares, LetGo
<1>2. CASE h \notin DOMAIN controls
  <2>1. /\ controls' = With(controls, h, r)
        /\ pc' = [pc EXCEPT ![r] = "accepting"]
        /\ UNCHANGED <<binding, active, prepared, minted, closedEarly>>
    BY <1>2 DEF Connected, Advance, registryVars
  <2>2. /\ pc'[r] = "accepting"
        /\ \A s \in Streams \ {r} : pc'[s] = pc[s]
    BY <2>1 DEF IrohInv, TaskTypeOK
  <2>3. Owned'
    <3>1. \A s \in Streams : pc'[s] \in Bound =>
              pc[s] \in Bound /\ binding'[s] = binding[s]
      BY <1>0, <2>1, <2>2
    <3> QED BY <3>1, OwnedKept
  <2>4. EntriesOwned'
    <3>1. DOMAIN controls' = DOMAIN controls \cup {h} /\ controls'[h] = r
          /\ \A g \in DOMAIN controls : g # h => controls'[g] = controls[g]
      BY <2>1 DEF With
    <3> QED BY <2>1, <2>2, <3>1, IrohAssumption
            DEF IrohInv, EntriesOwned, TaskTypeOK, Accepted
  <2>5. Guarded'
    <3>1. \A s \in Streams \ {r} : CancelSignalled(s) => CancelSignalled(s)'
      BY <2>1 DEF CancelSignalled, With
    <3>2. \A s \in Streams : Holds(s)' <=> Holds(s)
      BY <2>1 DEF Holds, Exact
    <3> QED BY <1>0, <2>1, <2>2, <3>1, <3>2 DEF IrohInv, Guarded, Accepted
  <2> QED BY <2>3, <2>4, <2>5
<1> QED BY <1>1, <1>2

\* A stream that gives up, fails or finishes.
LEMMA LetsGo ==
    ASSUME IrohInv, [RegistryNext]_registryVars, TaskTypeOK', NEW r \in Streams,
           SocketUnavailable(r) \/ AcceptanceFailed(r) \/ Finish(r)
    PROVE  Owned' /\ EntriesOwned' /\ Guarded'
<1>0. pc[r] \in Bound
  BY DEF SocketUnavailable, AcceptanceFailed, Finish, Bound
<1>1. /\ pc'[r] \notin Bound
      /\ \A s \in Streams \ {r} : pc'[s] = pc[s] /\ binding'[s] = binding[s]
                                  /\ (s \in closedEarly => s \in closedEarly')
  BY DEF SocketUnavailable, AcceptanceFailed, Finish, Advance, Return, IrohInv,
         TaskTypeOK, Bound
<1>2. CASE AcceptanceFailed(r)
  <2>1. /\ UNCHANGED active
        /\ controls' = [g \in DOMAIN controls |->
                          IF controls[g] = r THEN NoStream ELSE controls[g]]
    BY <1>2 DEF AcceptanceFailed, registryVars
  <2>2. \A s \in Streams : Holds(s) => binding[s].handle \in DOMAIN active'
    BY <2>1 DEF Holds, Exact
  <2> QED BY <1>0, <1>1, <2>1, <2>2, LetGo
<1>3. CASE SocketUnavailable(r)
  <2>1. close_binding(r) /\ UNCHANGED controls /\ ~Accepted(r)
    BY <1>3 DEF SocketUnavailable, Accepted
  <2>2. \A g \in DOMAIN controls : controls[g] # r
    BY <2>1, IrohAssumption DEF IrohInv, EntriesOwned
  <2> QED BY <1>0, <1>1, <2>1, <2>2, CloseBindingSpares, LetGo
<1>4. CASE Finish(r)
  <2>1. close_binding(r) /\ controls' = Without(controls, {binding[r].handle})
    BY <1>4 DEF Finish
  <2>2. \A g \in DOMAIN controls' : /\ g \in DOMAIN controls /\ g # binding[r].handle
                                    /\ controls'[g] = controls[g]
    BY <2>1 DEF Without
  <2>3. \A g \in DOMAIN controls' : controls[g] # r
    BY <2>2, IrohAssumption DEF IrohInv, EntriesOwned
  <2> QED BY <1>0, <1>1, <2>1, <2>2, <2>3, CloseBindingSpares, LetGo
<1> QED BY <1>2, <1>3, <1>4

-----------------------------------------------------------------------------
(* The theorems.                                                            *)

\* The operations that only add authority, or none, drop none.
LEMMA KeepsActive ==
    ASSUME RegistryInv,
           \/ \E s \in Sessions, f \in Fingerprints, g \in Generations, t \in Tokens :
                 prepare(s, f, g, t)
           \/ \E t \in Tokens, c \in Claims : open_request(t, c)
           \/ \E b \in Bindings : accept_active(b)
           \/ Tick
    PROVE  DOMAIN active \subseteq DOMAIN active'
<1>1. ASSUME NEW t \in Tokens, NEW c \in Claims, open_request(t, c)
      PROVE  DOMAIN active \subseteq DOMAIN active'
  BY <1>1 DEF open_request, With
<1> QED BY <1>1 DEF prepare, accept_active, Tick, Elapse

\* Every step of the connection keeps its streams guarded.
LEMMA IrohStep == IrohInv /\ [Next]_vars => IrohInv'
<1> SUFFICES ASSUME IrohInv, [Next]_vars PROVE IrohInv'
  OBVIOUS
<1>t. TaskTypeOK' /\ TaskTypeOK
  BY IrohTypeStep DEF IrohInv
<1>g. [RegistryNext]_registryVars
  BY <1>t, IrohRegistryStep
<1>r. RegistryInv' /\ RegistryInv
  BY <1>g, RegistryStep DEF IrohInv
<1> SUFFICES Owned' /\ EntriesOwned' /\ Guarded'
  BY <1>t, <1>r DEF IrohInv
<1>c. ASSUME UNCHANGED <<pc, binding, controls, closedEarly>>,
             DOMAIN active \subseteq DOMAIN active'
      PROVE  Owned' /\ EntriesOwned' /\ Guarded'
  BY <1>c, <1>g, <1>t, CalmStep
<1>1. CASE UNCHANGED vars
  BY <1>c, <1>1 DEF vars, taskVars, registryVars
<1>2. CASE ControlFrame
  <2>1. ASSUME NEW s \in Sessions, NEW f \in Fingerprints,
               NEW g \in Generations, NEW t \in Tokens, SessionPrepare(s, f, g, t)
        PROVE  Owned' /\ EntriesOwned' /\ Guarded'
    BY <1>c, <1>r, <2>1, KeepsActive, EndKeepsInv DEF SessionPrepare, taskVars
  <2>2. ASSUME NEW t \in Tokens, NEW c \in Claims, SessionOpen(t, c)
        PROVE  Owned' /\ EntriesOwned' /\ Guarded'
    BY <1>c, <1>r, <2>2, KeepsActive DEF SessionOpen, taskVars
  <2>3. ASSUME NEW h \in Handles, SessionClose(h)
        PROVE  Owned' /\ EntriesOwned' /\ Guarded'
    BY <1>g, <1>t, <2>3, CloseKeepsGuard
  <2> QED BY <1>2, <2>1, <2>2, <2>3 DEF ControlFrame
<1>3. CASE ControlEnds \/ ShutdownBranch
  BY <1>3, EndKeepsInv DEF ControlEnds, ShutdownBranch
<1>4. CASE TimePasses \/ BeginShutdown \/ Gone
  BY <1>c, <1>r, <1>4, KeepsActive
  DEF TimePasses, BeginShutdown, Gone, vars, taskVars, registryVars
<1>5. ASSUME NEW r \in Streams,
             \/ AcceptStream(r) \/ PrefaceFails(r) \/ Answered(r) \/ AcceptanceWritten(r)
             \/ \E b \in Bindings : ReadBinding(r, b) /\ AcceptResult(b) # "Accepted"
      PROVE  Owned' /\ EntriesOwned' /\ Guarded'
  <2>1. UNCHANGED <<controls, active>>
    BY <1>5 DEF AcceptStream, PrefaceFails, Answered, AcceptanceWritten, ReadBinding,
                accept_active, registryVars
  <2>2. \A s \in Streams :
            /\ \/ pc'[s] = pc[s]
               \/ pc[s] = "accepting" /\ pc'[s] = "bridging"
               \/ pc[s] \notin Bound /\ pc'[s] \notin Bound
            /\ pc'[s] \in Bound => /\ binding'[s] = binding[s]
                                   /\ s \in closedEarly => s \in closedEarly'
    BY <1>5, <1>t DEF AcceptStream, PrefaceFails, Answered, AcceptanceWritten,
                      ReadBinding, Advance, Return, TaskTypeOK, Bound
  <2> QED BY <1>g, <1>t, <2>1, <2>2, CalmStep
<1>6. ASSUME NEW r \in Streams, StreamStep(r)
      PROVE  Owned' /\ EntriesOwned' /\ Guarded'
  BY <1>g, <1>t, <1>5, <1>6, AcceptedIsGuarded, ConnectedIsGuarded, LetsGo
  DEF StreamStep, BridgeEnds, Cancelled
<1> QED BY <1>1, <1>2, <1>3, <1>4, <1>5, <1>6 DEF Next

\* A new connection has no streams and no authority.
LEMMA IrohInitial == Init => IrohInv
<1> SUFFICES ASSUME Init PROVE IrohInv
  OBVIOUS
<1>1. RegistryInv
  BY RegistryInitial DEF Init
<1>2. DOMAIN controls = {} /\ \A s \in Streams : pc[s] = "idle"
  BY DEF Init
<1>3. TaskTypeOK
  BY <1>2 DEF Init, TaskTypeOK, StreamStates, Bound
<1>4. Owned /\ EntriesOwned /\ Guarded
  BY <1>2 DEF Owned, EntriesOwned, Guarded, Accepted, Bound
<1> QED BY <1>1, <1>3, <1>4 DEF IrohInv

\* The inductive invariant of the connection: the registry's, who owns which
\* token and entry, and who is guarded.
THEOREM IrohInvariant == Spec => []IrohInv
BY IrohInitial, IrohStep, PTL DEF Spec

\* Type correctness of the connection.
THEOREM IrohTypeCorrect == Spec => []TypeOK
<1>1. IrohInv => TypeOK
  BY DEF IrohInv, RegistryInv, TaskTypeOK, TypeOK
<1> QED BY <1>1, IrohInvariant, PTL

\* The control loop and the stream tasks, interleaved in any way, change the
\* registry only by its operations: what is proved of RegistrySpec holds.
THEOREM IrohImplementsRegistry == Spec => RegistrySpec
<1>1. Init => new
  BY DEF Init
<1>2. IrohInv /\ [Next]_vars => [RegistryNext]_registryVars
  BY IrohRegistryStep DEF IrohInv
<1> QED BY <1>1, <1>2, IrohInvariant, PTL DEF Spec, RegistrySpec

\* The only way to forward without authority and beyond the reach of a
\* cancellation is a SESSION_CLOSE that came while the stream was connecting.
THEOREM IrohUnguarded == Spec => []UnguardedOnlyIfClosedEarly
<1>1. IrohInv => UnguardedOnlyIfClosedEarly
  BY DEF IrohInv, Guarded, Accepted, UnguardedOnlyIfClosedEarly
<1> QED BY <1>1, IrohInvariant, PTL

-----------------------------------------------------------------------------
(* A close reaches its stream, as long as no handle is handed out twice.    *)

\* A bound stream's handle is nobody else's.
HandlesOwned ==
    /\ \A s \in Streams : pc[s] \in Bound =>
          /\ Spent \/ binding[s].handle < next_handle
          /\ binding[s].handle \in DOMAIN active =>
                active[binding[s].handle].token = binding[s].token
    /\ \A s, r \in Streams : pc[s] \in Bound /\ pc[r] \in Bound /\ s # r =>
          binding[s].handle # binding[r].handle

ReachInv == IrohInv /\ HandlesFresh /\ HandlesOwned /\ CloseReachesStream

\* Streams that stay bound, or let go, keep their handles to themselves.
LEMMA HandlesKept ==
    ASSUME FewTokens, ReachInv, [RegistryNext]_registryVars,
           \A s \in Streams : pc'[s] \in Bound =>
               pc[s] \in Bound /\ binding'[s] = binding[s]
    PROVE  HandlesOwned'
<1>0. RegistryInv /\ HandlesFresh
  BY DEF ReachInv, IrohInv
<1>1. ASSUME NEW s \in Streams, pc'[s] \in Bound
      PROVE  /\ Spent' \/ binding'[s].handle < next_handle'
             /\ binding'[s].handle \in DOMAIN active' =>
                   active'[binding'[s].handle].token = binding'[s].token
  <2> DEFINE h == binding[s].handle
  <2>1. /\ binding'[s] = binding[s]
        /\ Spent \/ h < next_handle
        /\ h \in DOMAIN active => active[h].token = binding[s].token
    BY <1>1 DEF ReachInv, HandlesOwned
  <2>2. h \in Nat /\ next_handle \in Nat /\ next_handle' \in Nat
    <3>1. binding[s] \in Bindings
      BY <1>1 DEF ReachInv, IrohInv, TaskTypeOK
    <3>2. RegistryInv'
      BY <1>0, RegistryStep
    <3> QED BY <1>0, <3>1, <3>2 DEF Bindings, Handles, RegistryInv, RegistryTypeOK
  <2>3. /\ Spent => Spent'
        /\ ~Spent' => next_handle' >= next_handle
        /\ \A g \in DOMAIN active' :
              \/ g \in DOMAIN active /\ active'[g].token = active[g].token
              \/ ~Spent /\ g = next_handle
    BY <1>0, HandleStep
  <2>4. Spent' \/ h < next_handle'
    <3> HIDE DEF h, Spent
    <3> QED BY <2>1, <2>2, <2>3
  <2>5. h \in DOMAIN active' => active'[h].token = binding[s].token
    <3> HIDE DEF h, Spent
    <3> QED BY <2>1, <2>2, <2>3
  <2> QED BY <2>1, <2>4, <2>5
<1>2. \A s, r \in Streams : pc'[s] \in Bound /\ pc'[r] \in Bound /\ s # r =>
          binding'[s].handle # binding'[r].handle
  BY DEF ReachInv, HandlesOwned
<1> QED BY <1>1, <1>2 DEF HandlesOwned

\* No step gives a stream back what it has lost.
LEMMA HeldBefore ==
    ASSUME IrohInv, [RegistryNext]_registryVars, NEW s \in Streams, pc[s] \in Bound,
           binding'[s] = binding[s], Holds(s)'
    PROVE  Holds(s) /\ binding[s].handle \in DOMAIN active'
<1> DEFINE h == binding[s].handle
<1>1. h \in DOMAIN active' /\ active'[h].token = binding[s].token
  BY DEF Holds, Exact
<1>2. binding[s].token \in minted /\ binding[s].token \notin DOMAIN prepared
  BY DEF IrohInv, Owned
<1>3. h \in DOMAIN active /\ active[h].token = binding[s].token
  BY <1>1, <1>2, TokenStep DEF IrohInv
<1>4. active[h].bound /\ active[h].claim = binding[s].claim
  BY <1>3 DEF IrohInv, Owned
<1> QED BY <1>1, <1>3, <1>4 DEF Holds, Exact

\* A stream's entry stays, or its handle is not active any more.
LEMMA EntryKept ==
    ASSUME ReachInv, [RegistryNext]_registryVars,
           \A s \in Streams : Accepted(s)' =>
               \/ /\ Accepted(s) /\ binding'[s] = binding[s]
                  /\ \/ binding[s].handle \notin DOMAIN active'
                     \/ binding[s].handle \in DOMAIN controls /\ controls[binding[s].handle] = s
                        => /\ binding[s].handle \in DOMAIN controls'
                           /\ controls'[binding[s].handle] = s
               \/ /\ binding'[s].handle \in DOMAIN controls'
                  /\ controls'[binding'[s].handle] = s
    PROVE  CloseReachesStream'
<1> SUFFICES ASSUME NEW s \in Streams, Accepted(s)', Holds(s)'
             PROVE  /\ binding'[s].handle \in DOMAIN controls'
                    /\ controls'[binding'[s].handle] = s
  BY DEF CloseReachesStream, Accepted
<1>1. CASE Accepted(s) /\ binding'[s] = binding[s]
  <2>1. Holds(s) /\ binding[s].handle \in DOMAIN active'
    BY <1>1, HeldBefore DEF ReachInv, Accepted, Bound
  <2>2. binding[s].handle \in DOMAIN controls /\ controls[binding[s].handle] = s
    BY <1>1, <2>1 DEF ReachInv, CloseReachesStream, Accepted
  <2> QED BY <1>1, <2>1, <2>2
<1> QED BY <1>1

\* Every step of the connection.
LEMMA ReachStep ==
    ASSUME FewTokens, ReachInv, [Next]_vars
    PROVE  ReachInv'
<1>i. IrohInv /\ IrohInv'
  BY IrohStep DEF ReachInv
<1>t. TaskTypeOK /\ TaskTypeOK'
  BY <1>i DEF IrohInv
<1>g. [RegistryNext]_registryVars
  BY <1>t, IrohRegistryStep
<1>f. HandlesFresh'
  BY <1>g, <1>i, HandleStep DEF ReachInv, IrohInv
<1> SUFFICES HandlesOwned' /\ CloseReachesStream'
  BY <1>i, <1>f DEF ReachInv
<1>c. ASSUME UNCHANGED controls,
             \A s \in Streams : pc'[s] \in Bound =>
                 pc[s] \in Bound /\ binding'[s] = binding[s],
             \A s \in Streams : Accepted(s)' => Accepted(s)
      PROVE  HandlesOwned' /\ CloseReachesStream'
  <2>1. \A s \in Streams : Accepted(s)' => binding'[s] = binding[s]
    BY <1>c DEF Accepted, Bound
  <2> QED BY <1>c, <1>g, <2>1, HandlesKept, EntryKept
<1>e. ASSUME EndConnection PROVE HandlesOwned' /\ CloseReachesStream'
  <2>1. \A s \in Streams : pc'[s] = "idle"
    BY <1>e DEF EndConnection
  <2> QED BY <2>1 DEF HandlesOwned, CloseReachesStream, Bound
<1>u. ASSUME UNCHANGED <<pc, binding, controls>>
      PROVE  HandlesOwned' /\ CloseReachesStream'
  BY <1>c, <1>u DEF Accepted
<1>1. CASE UNCHANGED vars
  BY <1>u, <1>1 DEF vars, taskVars
<1>2. CASE ControlFrame
  <2>1. ASSUME NEW s \in Sessions, NEW f \in Fingerprints,
               NEW g \in Generations, NEW t \in Tokens, SessionPrepare(s, f, g, t)
        PROVE  HandlesOwned' /\ CloseReachesStream'
    BY <1>e, <1>u, <2>1 DEF SessionPrepare, taskVars
  <2>2. ASSUME NEW t \in Tokens, NEW c \in Claims, SessionOpen(t, c)
        PROVE  HandlesOwned' /\ CloseReachesStream'
    BY <1>u, <2>2 DEF SessionOpen, taskVars
  <2>3. ASSUME NEW h \in Handles, SessionClose(h)
        PROVE  HandlesOwned' /\ CloseReachesStream'
    <3>1. /\ UNCHANGED <<pc, binding>>
          /\ controls' = Without(controls, {h}) /\ active' = Without(active, {h})
      BY <2>3 DEF SessionClose, close, Release
    <3>2. \A s \in Streams : Accepted(s)' =>
              /\ Accepted(s) /\ binding'[s] = binding[s]
              /\ \/ binding[s].handle \notin DOMAIN active'
                 \/ binding[s].handle \in DOMAIN controls /\ controls[binding[s].handle] = s
                    => /\ binding[s].handle \in DOMAIN controls'
                       /\ controls'[binding[s].handle] = s
      BY <3>1 DEF Without, Accepted
    <3>3. HandlesOwned'
      BY <1>g, <3>1, HandlesKept
    <3> QED BY <1>g, <3>2, <3>3, EntryKept
  <2> QED BY <1>2, <2>1, <2>2, <2>3 DEF ControlFrame
<1>3. CASE ControlEnds \/ ShutdownBranch
  BY <1>e, <1>3 DEF ControlEnds, ShutdownBranch
<1>4. CASE TimePasses \/ BeginShutdown \/ Gone
  BY <1>u, <1>4 DEF TimePasses, BeginShutdown, Gone, vars, taskVars
<1>5. ASSUME NEW r \in Streams,
             \/ AcceptStream(r) \/ PrefaceFails(r) \/ Answered(r)
             \/ AcceptanceWritten(r) \/ SocketUnavailable(r)
             \/ \E b \in Bindings : ReadBinding(r, b) /\ AcceptResult(b) # "Accepted"
      PROVE  HandlesOwned' /\ CloseReachesStream'
  <2>1. UNCHANGED controls
    BY <1>5 DEF AcceptStream, PrefaceFails, Answered, AcceptanceWritten,
                SocketUnavailable, ReadBinding
  <2>2. \A s \in Streams :
            /\ pc'[s] \in Bound => pc[s] \in Bound /\ binding'[s] = binding[s]
            /\ Accepted(s)' => Accepted(s)
    BY <1>5, <1>t DEF AcceptStream, PrefaceFails, Answered, AcceptanceWritten,
                      SocketUnavailable, ReadBinding, Advance, Return, TaskTypeOK,
                      Bound, Accepted
  <2> QED BY <1>c, <2>1, <2>2
<1>6. ASSUME NEW r \in Streams, NEW b \in Bindings, ReadBinding(r, b),
             AcceptResult(b) = "Accepted"
      PROVE  HandlesOwned' /\ CloseReachesStream'
  <2>1. /\ pc[r] = "preface" /\ Exact(b) /\ ~active[b.handle].bound
        /\ pc' = [pc EXCEPT ![r] = "connecting"]
        /\ binding' = [binding EXCEPT ![r] = b]
        /\ UNCHANGED <<prepared, minted, next_handle, controls>>
    BY <1>6 DEF ReadBinding, Advance, accept_active, AcceptResult
  <2>2. /\ pc'[r] = "connecting" /\ binding'[r] = b
        /\ \A s \in Streams \ {r} : pc'[s] = pc[s] /\ binding'[s] = binding[s]
    BY <1>t, <2>1 DEF TaskTypeOK
  <2>3. b.handle \in DOMAIN active /\ active[b.handle].token = b.token
    BY <2>1 DEF Exact
  <2>4. /\ DOMAIN active' = DOMAIN active
        /\ \A h \in DOMAIN active : active'[h].token = active[h].token
    <3>1. DOMAIN active' = DOMAIN active
      BY <1>6 DEF ReadBinding, accept_active
    <3> QED BY <1>g, <1>i, <3>1, EntryStep DEF IrohInv
  <2>5. Spent' <=> Spent
    BY <2>1 DEF Spent
  <2>6. Spent \/ b.handle < next_handle
    BY <2>3 DEF ReachInv, HandlesFresh
  <2>7. \A s \in Streams : pc[s] \in Bound => s # r /\ binding[s].handle # b.handle
    <3> SUFFICES ASSUME NEW s \in Streams, pc[s] \in Bound, binding[s].handle = b.handle
                 PROVE  FALSE
      BY <2>1 DEF Bound
    <3>1. active[b.handle].token = binding[s].token
      BY <2>3 DEF ReachInv, HandlesOwned
    <3> QED BY <1>i, <2>1, <2>3, <3>1 DEF IrohInv, Owned
  <2>8. HandlesOwned'
    <3>1. \A s \in Streams : pc'[s] \in Bound =>
            /\ Spent' \/ binding'[s].handle < next_handle'
            /\ binding'[s].handle \in DOMAIN active' =>
                  active'[binding'[s].handle].token = binding'[s].token
      BY <2>1, <2>2, <2>3, <2>4, <2>5, <2>6 DEF ReachInv, HandlesOwned
    <3>2. \A s, q \in Streams : pc'[s] \in Bound /\ pc'[q] \in Bound /\ s # q =>
            binding'[s].handle # binding'[q].handle
      BY <2>2, <2>7 DEF ReachInv, HandlesOwned
    <3> QED BY <3>1, <3>2 DEF HandlesOwned
  <2>9. \A s \in Streams : Accepted(s)' => Accepted(s) /\ binding'[s] = binding[s]
    BY <2>2 DEF Accepted
  <2> QED BY <1>g, <2>1, <2>8, <2>9, EntryKept
<1>d. \A s, r \in Streams : pc[s] \in Bound /\ pc[r] \in Bound /\ s # r =>
          binding[s].handle # binding[r].handle
  BY DEF ReachInv, HandlesOwned
<1>7. ASSUME NEW r \in Streams, Connected(r)
      PROVE  HandlesOwned' /\ CloseReachesStream'
  <2> DEFINE h == binding[r].handle
  <2>0. pc[r] = "connecting" /\ pc[r] \in Bound
    BY <1>7 DEF Connected, Bound
  <2>1. /\ \E x \in Streams \cup {NoStream} : controls' = With(controls, h, x)
        /\ pc'[r] \in {"idle", "accepting"}
        /\ pc'[r] = "accepting" => controls' = With(controls, h, r) /\ binding'[r] = binding[r]
        /\ \A s \in Streams \ {r} : pc'[s] = pc[s] /\ binding'[s] = binding[s]
    BY <1>7, <1>t DEF Connected, Return, Advance, TaskTypeOK
  <2>2. \A s \in Streams : pc'[s] \in Bound => pc[s] \in Bound /\ binding'[s] = binding[s]
    BY <2>0, <2>1 DEF Bound
  <2>3. \A s \in Streams \ {r} : Accepted(s)' =>
            /\ Accepted(s) /\ binding'[s] = binding[s]
            /\ binding[s].handle \in DOMAIN controls /\ controls[binding[s].handle] = s
                => /\ binding[s].handle \in DOMAIN controls'
                   /\ controls'[binding[s].handle] = s
    BY <1>d, <2>0, <2>1 DEF With, Accepted, Bound
  <2>4. Accepted(r)' => /\ binding'[r].handle \in DOMAIN controls'
                        /\ controls'[binding'[r].handle] = r
    BY <2>1 DEF With, Accepted
  <2> QED BY <1>g, <2>2, <2>3, <2>4, HandlesKept, EntryKept
<1>8. ASSUME NEW r \in Streams, AcceptanceFailed(r) \/ Finish(r)
      PROVE  HandlesOwned' /\ CloseReachesStream'
  <2>0. pc[r] \in Bound
    BY <1>8 DEF AcceptanceFailed, Finish, Bound
  <2>1. /\ pc'[r] = "idle"
        /\ \A s \in Streams \ {r} : pc'[s] = pc[s] /\ binding'[s] = binding[s]
    BY <1>8, <1>t DEF AcceptanceFailed, Finish, Return, TaskTypeOK
  <2>2. \A s \in Streams : pc'[s] \in Bound => pc[s] \in Bound /\ binding'[s] = binding[s]
    BY <2>1 DEF Bound
  <2>3. \/ controls' = Without(controls, {binding[r].handle})
        \/ controls' = [g \in DOMAIN controls |->
                          IF controls[g] = r THEN NoStream ELSE controls[g]]
    BY <1>8 DEF AcceptanceFailed, Finish
  <2>4. \A s \in Streams : Accepted(s)' =>
            /\ s # r /\ Accepted(s) /\ binding'[s] = binding[s]
            /\ binding[s].handle \in DOMAIN controls /\ controls[binding[s].handle] = s
                => /\ binding[s].handle \in DOMAIN controls'
                   /\ controls'[binding[s].handle] = s
    <3> SUFFICES ASSUME NEW s \in Streams, Accepted(s)'
                 PROVE  /\ s # r /\ Accepted(s) /\ binding'[s] = binding[s]
                        /\ binding[s].handle \in DOMAIN controls
                           /\ controls[binding[s].handle] = s
                            => /\ binding[s].handle \in DOMAIN controls'
                               /\ controls'[binding[s].handle] = s
      OBVIOUS
    <3>1. s # r /\ Accepted(s) /\ binding'[s] = binding[s] /\ pc[s] \in Bound
      BY <2>1 DEF Accepted, Bound
    <3>2. binding[s].handle # binding[r].handle
      BY <1>d, <2>0, <3>1
    <3> QED BY <2>3, <3>1, <3>2 DEF Without
  <2> QED BY <1>g, <2>2, <2>4, HandlesKept, EntryKept
<1> QED
  BY <1>1, <1>2, <1>3, <1>4, <1>5, <1>6, <1>7, <1>8
  DEF Next, StreamStep, BridgeEnds, Cancelled

\* On a connection that prepares no more sessions than there are handles, a
\* SESSION_CLOSE that comes once the socket is connected finds the stream's
\* own entry: with a handle that is handed out again, a stream left over from
\* its earlier use could remove the entry of the later one.
THEOREM IrohCloseReaches == ASSUME FewTokens PROVE Spec => []CloseReachesStream
<1>1. Init => ReachInv
  <2> SUFFICES ASSUME Init PROVE ReachInv
    OBVIOUS
  <2>1. IrohInv /\ HandlesFresh
    BY IrohInitial, HandlesInitiallyFresh DEF Init
  <2>2. \A s \in Streams : pc[s] = "idle"
    BY DEF Init
  <2> QED BY <2>1, <2>2 DEF ReachInv, HandlesOwned, CloseReachesStream, Bound
<1>2. ReachInv /\ [Next]_vars => ReachInv'
  BY ReachStep
<1>3. ReachInv => CloseReachesStream
  BY DEF ReachInv
<1> QED BY <1>1, <1>2, <1>3, PTL DEF Spec
=============================================================================
