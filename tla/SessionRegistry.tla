--------------------------- MODULE SessionRegistry ---------------------------
(***************************************************************************)
(* The per-connection session authority registry (session_registry.rs).    *)
(*                                                                         *)
(* A Core first prepares a session (the relay mints a token), then opens   *)
(* it (the token becomes an active authority under a handle) and finally   *)
(* binds one stream to the handle.  Every operation below runs under the   *)
(* mutex that guards the registry, so each one is a single step.  The      *)
(* operators are shared: QuicSession and IrohSession conjoin them with the *)
(* steps of their connection and stream tasks.                             *)
(*                                                                         *)
(* Time: an `expires_at' instant is represented by the time that is left   *)
(* until it, `left'; `now >= expires_at' is `left = 0'.                    *)
(***************************************************************************)
EXTENDS Naturals, FiniteSets

CONSTANTS
    Sessions,               \* canonical session names (SessionName)
    Fingerprints,           \* session fingerprints
    Generations,            \* generation and epoch numbers a peer may claim
    Tokens,                 \* the non-zero tokens the relay may mint
    Heartbeats,             \* the (handle, token) batches a peer may claim
    relay_generation,       \* generation of this relay process
    connection_epoch,       \* epoch of this connection
    max_sessions,           \* bound on prepared plus active authorities
    MaxHandle,              \* u16::MAX in the code
    TokenTTL                \* SESSION_TOKEN_TTL_SECS, in clock ticks

(***************************************************************************)
(* What `new' enforces, and u16::MAX > MAX_SESSION_STREAMS.                *)
(***************************************************************************)
ASSUME RegistryAssumption ==
    /\ Generations \subseteq Nat
    /\ relay_generation \in Generations \ {0}
    /\ connection_epoch \in Generations \ {0}
    /\ max_sessions \in Nat \ {0}
    /\ MaxHandle \in Nat
    /\ MaxHandle > max_sessions
    /\ TokenTTL \in Nat \ {0}
    /\ Heartbeats \subseteq SUBSET ((1..MaxHandle) \X Tokens)

VARIABLES
    next_handle,            \* the handle tried first by the next open
    prepared,               \* token  -> prepared authority
    active,                 \* handle -> active authority
    minted                  \* tokens drawn so far: a CSPRNG never repeats one

registryVars == <<next_handle, prepared, active, minted>>

Handles == 1..MaxHandle

(***************************************************************************)
(* The five authority fields every comparison in the registry goes over.   *)
(***************************************************************************)
Claims == [session : Sessions, fingerprint : Fingerprints,
           configuration_generation : Generations,
           relay_generation : Generations, connection_epoch : Generations]

PreparedSession == [claim : Claims, left : 0..TokenTTL]

ActiveSession == [claim : Claims, token : Tokens,
                  left : 0..TokenTTL, bound : BOOLEAN]

\* What a stream presents: HdqsBinding.
Bindings == [handle : Handles, token : Tokens, claim : Claims]

-----------------------------------------------------------------------------
(* Maps with a changing domain (BTreeMap).                                  *)

Without(map, keys) == [k \in DOMAIN map \ keys |-> map[k]]

With(map, key, value) ==
    [k \in DOMAIN map \cup {key} |-> IF k = key THEN value ELSE map[k]]

-----------------------------------------------------------------------------
\* Mutant: handle 0, which is reserved, would be handed out first.
NewFromZero ==
    /\ next_handle = 0
    /\ prepared = << >>
    /\ active = << >>
    /\ minted = {}

new ==
    /\ next_handle = 1
    /\ prepared = << >>
    /\ active = << >>
    /\ minted = {}

Expired(authority) == authority.left = 0

reap_expired_prepared ==
    Without(prepared, {t \in DOMAIN prepared : Expired(prepared[t])})

MintedClaim(session, fingerprint, generation) ==
    [session |-> session, fingerprint |-> fingerprint,
     configuration_generation |-> generation,
     relay_generation |-> relay_generation,
     connection_epoch |-> connection_epoch]

\* Mutant: the bound forgets the authorities that are already active.
PrepareResultIgnoringActive(generation) ==
    IF Cardinality(DOMAIN reap_expired_prepared) >= max_sessions
    THEN "ResourceLimit"
    ELSE IF generation = 0 THEN "SessionAuthority" ELSE "Prepared"

(***************************************************************************)
(* SESSION_PREPARE.  Both servers reap under the same lock before they     *)
(* call `prepare', so the two are one step.                                *)
(***************************************************************************)
PrepareResult(generation) ==
    IF Cardinality(DOMAIN active) + Cardinality(DOMAIN reap_expired_prepared)
         >= max_sessions
    THEN "ResourceLimit"
    ELSE IF generation = 0 THEN "SessionAuthority" ELSE "Prepared"

prepare(session, fingerprint, generation, token) ==
    /\ token \notin minted
    /\ minted' = minted \cup {token}
    /\ IF PrepareResult(generation) = "Prepared"
       THEN prepared' =
              With(reap_expired_prepared, token,
                   [claim |-> MintedClaim(session, fingerprint, generation),
                    left |-> TokenTTL])
       ELSE prepared' = reap_expired_prepared
    /\ UNCHANGED <<next_handle, active>>

(***************************************************************************)
(* Handles are handed out round robin, skipping the active ones.           *)
(***************************************************************************)
FreeHandles == Handles \ DOMAIN active

Following(handle) == IF handle = MaxHandle THEN 1 ELSE handle + 1

StepsTo(handle) ==
    IF handle >= next_handle THEN handle - next_handle
                             ELSE handle + MaxHandle - next_handle

allocate_handle ==
    CHOOSE h \in FreeHandles : \A g \in FreeHandles : StepsTo(h) <= StepsTo(g)

\* Mutant: an open session of the same name is not looked for.
OpenResultNoDuplicateCheck(token, claim) ==
    IF token \notin DOMAIN prepared THEN "TokenMismatch"
    ELSE IF prepared[token].claim # claim THEN "GenerationMismatch"
    ELSE IF Expired(prepared[token]) THEN "TokenMismatch"
    ELSE IF FreeHandles = {} THEN "CapacityExhausted"
    ELSE "Accepted"

(***************************************************************************)
(* SESSION_OPEN: open_request followed by open_at.                         *)
(***************************************************************************)
OpenResult(token, claim) ==
    IF token \notin DOMAIN prepared THEN "TokenMismatch"
    ELSE IF prepared[token].claim # claim THEN "GenerationMismatch"
    ELSE IF Expired(prepared[token]) THEN "TokenMismatch"
    ELSE IF \E h \in DOMAIN active : active[h].claim.session = claim.session
         THEN "SessionAlreadyOpen"
    ELSE IF FreeHandles = {} THEN "CapacityExhausted"
    ELSE "Accepted"

\* Mutant: an accepted open leaves the token prepared.
OpenRequestKeepsToken(token, claim) ==
    /\ IF OpenResult(token, claim) = "Accepted"
       THEN /\ active' = With(active, allocate_handle,
                              [claim |-> claim, token |-> token,
                               left |-> TokenTTL, bound |-> FALSE])
            /\ next_handle' = Following(allocate_handle)
       ELSE UNCHANGED <<active, next_handle>>
    /\ UNCHANGED <<prepared, minted>>

\* Whatever the answer, a token that was found is consumed.
open_request(token, claim) ==
    /\ prepared' = Without(prepared, {token})
    /\ CASE OpenResult(token, claim) = "Accepted" ->
              /\ active' = With(active, allocate_handle,
                                [claim |-> claim, token |-> token,
                                 left |-> TokenTTL, bound |-> FALSE])
              /\ next_handle' = Following(allocate_handle)
         [] OpenResult(token, claim) = "CapacityExhausted" ->
              /\ next_handle' = Following(next_handle)
              /\ UNCHANGED active
         [] OTHER -> UNCHANGED <<active, next_handle>>
    /\ UNCHANGED minted

-----------------------------------------------------------------------------
(* Stream binding.                                                          *)

Exact(binding) ==
    /\ binding.handle \in DOMAIN active
    /\ active[binding.handle].claim = binding.claim
    /\ active[binding.handle].token = binding.token

AcceptResult(binding) ==
    IF binding.handle \notin DOMAIN active THEN "SessionNotFound"
    ELSE IF active[binding.handle].bound THEN "SessionAlreadyOpen"
    ELSE IF ~Exact(binding) \/ Expired(active[binding.handle])
         THEN "GenerationMismatch"
    ELSE "Accepted"

accept_active(binding) ==
    /\ IF AcceptResult(binding) = "Accepted"
       THEN active' = [active EXCEPT ![binding.handle].bound = TRUE]
       ELSE UNCHANGED active
    /\ UNCHANGED <<next_handle, prepared, minted>>

active_bound_exact(binding) ==
    /\ Exact(binding)
    /\ active[binding.handle].bound
    /\ ~Expired(active[binding.handle])

-----------------------------------------------------------------------------
(* Release and expiry.                                                      *)

Release(handles) ==
    /\ active' = Without(active, handles)
    /\ UNCHANGED <<next_handle, prepared, minted>>

close(handle) == Release({handle})

close_exact(binding) ==
    Release(IF Exact(binding) THEN {binding.handle} ELSE {})

close_unbound_if_exact(binding) ==
    Release(IF Exact(binding) /\ ~active[binding.handle].bound
            THEN {binding.handle} ELSE {})

ExpiredHandles == {h \in DOMAIN active : Expired(active[h])}

reap_expired_handles ==
    /\ prepared' = reap_expired_prepared
    /\ active' = Without(active, ExpiredHandles)
    /\ UNCHANGED <<next_handle, minted>>

invalidate_connection ==
    /\ prepared' = << >>
    /\ active' = << >>
    /\ UNCHANGED <<next_handle, minted>>

\* Mutant: a lease that has run out can still be renewed.
RenewableLate(entry) ==
    /\ entry[1] \in DOMAIN active
    /\ active[entry[1]].token = entry[2]

(***************************************************************************)
(* HEARTBEAT: a batch of (handle, token) pairs, renewed all or not at all. *)
(***************************************************************************)
Renewable(entry) ==
    /\ entry[1] \in DOMAIN active
    /\ active[entry[1]].token = entry[2]
    /\ ~Expired(active[entry[1]])

renew_batch(entries) ==
    /\ IF \A e \in entries : Renewable(e)
       THEN active' = [h \in DOMAIN active |->
                         IF \E e \in entries : e[1] = h
                         THEN [active[h] EXCEPT !.left = TokenTTL]
                         ELSE active[h]]
       ELSE UNCHANGED active
    /\ UNCHANGED <<next_handle, prepared, minted>>

-----------------------------------------------------------------------------
Elapse(map) ==
    [k \in DOMAIN map |->
        [map[k] EXCEPT !.left = IF @ = 0 THEN 0 ELSE @ - 1]]

\* The monotonic clock advances by one unit.
Tick ==
    /\ prepared' = Elapse(prepared)
    /\ active' = Elapse(active)
    /\ UNCHANGED <<next_handle, minted>>

-----------------------------------------------------------------------------
Prepare ==
    \E s \in Sessions, f \in Fingerprints, g \in Generations, t \in Tokens :
        prepare(s, f, g, t)

Open == \E t \in Tokens, c \in Claims : open_request(t, c)

Accept == \E b \in Bindings : accept_active(b)

Close == \E h \in Handles : close(h)

CloseExact ==
    \E b \in Bindings : close_exact(b) \/ close_unbound_if_exact(b)

Renew == \E entries \in Heartbeats : renew_batch(entries)

RegistryNext ==
    \/ Prepare \/ Open \/ Accept
    \/ Close \/ CloseExact \/ reap_expired_handles \/ invalidate_connection
    \/ Renew \/ Tick

RegistrySpec == new /\ [][RegistryNext]_registryVars

-----------------------------------------------------------------------------
(* Properties.                                                              *)

\* The type of the registry's state: prepared tokens were minted, and a
\* claim held by the registry carries this process's and connection's epochs.
RegistryTypeOK ==
    /\ next_handle \in Handles
    /\ minted \subseteq Tokens
    /\ DOMAIN prepared \subseteq minted
    /\ \A t \in DOMAIN prepared : prepared[t] \in PreparedSession
    /\ DOMAIN active \subseteq Handles
    /\ \A h \in DOMAIN active :
          active[h] \in ActiveSession /\ active[h].token \in minted

\* Prepared and active authorities together never exceed the configured bound,
\* whatever mix of prepares, opens, lapses and closes led here; this is the
\* bound `prepare_at' is meant to keep although `open_at' checks nothing.
CapacityBound ==
    Cardinality(DOMAIN prepared) + Cardinality(DOMAIN active) <= max_sessions

\* An open always finds a free handle, so the CapacityExhausted answer of
\* `open_at' is never given and no active authority is overwritten.
HandleAvailable == FreeHandles # {}

\* At most one authority is active for a session name (open_at).
OneAuthorityPerSession ==
    \A h, g \in DOMAIN active :
        active[h].claim.session = active[g].claim.session => h = g

\* A token is in one place only: prepared, or active under one handle.
TokenInOnePlace ==
    /\ \A h, g \in DOMAIN active : active[h].token = active[g].token => h = g
    /\ \A h \in DOMAIN active : active[h].token \notin DOMAIN prepared

Valid(token) ==
    \/ token \in DOMAIN prepared /\ ~Expired(prepared[token])
    \/ \E h \in DOMAIN active :
          active[h].token = token /\ ~Expired(active[h])

\* A token that is no longer good for anything (consumed, mismatched, closed
\* or lapsed) never becomes good again, by whatever later operation: "a caller
\* cannot repair and replay the same token".
NoRevival ==
    [][\A t \in minted : ~Valid(t) => ~Valid(t)']_registryVars

\* The authority a stream is bound to is never unbound, moved to another
\* handle or handed to another claim: it stays as it is until it is removed.
BoundIsFinal ==
    [][\A h \in DOMAIN active \cap DOMAIN active' :
          active[h].bound =>
             /\ active'[h].bound
             /\ active'[h].token = active[h].token
             /\ active'[h].claim = active[h].claim]_registryVars
=============================================================================
