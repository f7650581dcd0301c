------------------------ MODULE SessionRegistryProofs ------------------------
(***************************************************************************)
(* The invariants and action properties of the session registry, for every *)
(* number of sessions, tokens and handles and every token lifetime.        *)
(*                                                                         *)
(* Only an accepted prepare and an accepted open add an authority.  Every  *)
(* other operation, and the clock, can only drop authorities, bind them or *)
(* change their remaining time: `Shrinks' says so once, and the invariant  *)
(* has to be argued for three kinds of step instead of a dozen.            *)
(***************************************************************************)
EXTENDS SessionRegistry, FiniteSetTheorems, WellFoundedInduction, TLAPS

\* The inductive invariant: the checked invariants and finiteness, which the
\* cardinalities of CapacityBound need.
RegistryInv ==
    /\ RegistryTypeOK
    /\ IsFiniteSet(DOMAIN prepared)
    /\ IsFiniteSet(DOMAIN active)
    /\ CapacityBound
    /\ OneAuthorityPerSession
    /\ TokenInOnePlace

Shrinks ==
    /\ next_handle' \in Handles
    /\ minted \subseteq minted'
    /\ minted' \subseteq Tokens
    /\ DOMAIN prepared' \subseteq DOMAIN prepared
    /\ \A t \in DOMAIN prepared' :
          /\ prepared'[t] \in PreparedSession
          /\ Expired(prepared[t]) => Expired(prepared'[t])
    /\ DOMAIN active' \subseteq DOMAIN active
    /\ \A h \in DOMAIN active' :
          /\ active'[h] \in ActiveSession
          /\ active'[h].token = active[h].token
          /\ active'[h].claim = active[h].claim
          /\ active[h].bound => active'[h].bound
          /\ Expired(active[h]) => Expired(active'[h])

-----------------------------------------------------------------------------
(* Lemmas about the operators of the model.                                 *)

\* A set of natural numbers that is not empty has a least element.
LEMMA LeastExists ==
    ASSUME NEW S \in SUBSET Nat, S # {}
    PROVE  \E x \in S : \A y \in S : x <= y
<1>1. PICK n \in S : \A m \in S : ~(<<m, n>> \in OpToRel(<, Nat))
  BY WFMin, NatLessThanWellFounded
<1>2. \A m \in S : ~(m < n)
  BY <1>1 DEF OpToRel
<1> QED BY <1>2

\* The capacity bound leaves a handle free: there are more handles than
\* authorities, so `allocate_handle' never comes back empty.
LEMMA FreeHandleLemma ==
    ASSUME RegistryInv
    PROVE  FreeHandles # {}
<1> USE RegistryAssumption
<1>1. Cardinality(Handles) = MaxHandle /\ IsFiniteSet(Handles)
  BY FS_Interval DEF Handles
<1>2. Cardinality(DOMAIN active) <= max_sessions
  BY FS_CardinalityType DEF RegistryInv, CapacityBound
<1>3. DOMAIN active # Handles
  BY <1>1, <1>2, FS_CardinalityType DEF RegistryInv
<1> QED
  BY <1>3 DEF FreeHandles, RegistryInv, RegistryTypeOK

\* `allocate_handle' returns a handle that is not active.
LEMMA AllocateLemma ==
    ASSUME RegistryInv
    PROVE  allocate_handle \in FreeHandles
<1> USE RegistryAssumption
<1> DEFINE Steps == {StepsTo(h) : h \in FreeHandles}
<1>1. \A h \in FreeHandles : StepsTo(h) \in Nat
  BY DEF FreeHandles, Handles, StepsTo, RegistryInv, RegistryTypeOK
<1>2. Steps \subseteq Nat /\ Steps # {}
  BY <1>1, FreeHandleLemma
<1>3. PICK n \in Steps : \A m \in Steps : ~(<<m, n>> \in OpToRel(<, Nat))
  BY <1>2, WFMin, NatLessThanWellFounded
<1>4. \A m \in Steps : n <= m
  <2>1. SUFFICES ASSUME NEW m \in Steps, ~(n <= m) PROVE FALSE
    OBVIOUS
  <2>2. m \in Nat /\ n \in Nat /\ m < n
    BY <1>2, <2>1
  <2>3. <<m, n>> \in OpToRel(<, Nat)
    BY <2>2 DEF OpToRel
  <2> QED BY <1>3, <2>3
<1>5. \E h \in FreeHandles : \A g \in FreeHandles : StepsTo(h) <= StepsTo(g)
  BY <1>4
<1> QED
  BY <1>5 DEF allocate_handle

\* A claim minted here has the type of a claim.
LEMMA MintedClaimLemma ==
    ASSUME NEW s \in Sessions, NEW f \in Fingerprints, NEW g \in Generations
    PROVE  MintedClaim(s, f, g) \in Claims
BY RegistryAssumption DEF MintedClaim, Claims

-----------------------------------------------------------------------------
(* Which steps shrink.                                                      *)

\* Reaping leaves a restriction of `prepared'.
LEMMA ReapLemma ==
    /\ DOMAIN reap_expired_prepared \subseteq DOMAIN prepared
    /\ \A t \in DOMAIN reap_expired_prepared :
          reap_expired_prepared[t] = prepared[t]
BY DEF reap_expired_prepared, Without

\* Every release of handles is a shrinking step.
LEMMA ReleaseLemma ==
    ASSUME RegistryTypeOK, NEW hs, Release(hs)
    PROVE  Shrinks
BY DEF Release, Without, Shrinks, RegistryTypeOK

\* Binding a stream shrinks: it sets `bound' and nothing else.
LEMMA AcceptLemma ==
    ASSUME RegistryTypeOK, NEW b \in Bindings, accept_active(b)
    PROVE  Shrinks
<1>1. CASE AcceptResult(b) = "Accepted"
  <2>1. active' = [active EXCEPT ![b.handle].bound = TRUE]
    BY <1>1 DEF accept_active
  <2>2. DOMAIN active' = DOMAIN active
    BY <2>1
  <2>3. ASSUME NEW h \in DOMAIN active
        PROVE  /\ active'[h] \in ActiveSession
               /\ active'[h].token = active[h].token
               /\ active'[h].claim = active[h].claim
               /\ active[h].bound => active'[h].bound
               /\ active'[h].left = active[h].left
    <3>1. active[h] \in ActiveSession
      BY DEF RegistryTypeOK
    <3>2. active'[h] = IF h = b.handle THEN [active[h] EXCEPT !.bound = TRUE]
                                       ELSE active[h]
      BY <2>1
    <3> QED BY <3>1, <3>2 DEF ActiveSession
  <2> QED BY <2>2, <2>3 DEF accept_active, Shrinks, RegistryTypeOK, Expired
<1>2. CASE AcceptResult(b) # "Accepted"
  BY <1>2 DEF accept_active, Shrinks, RegistryTypeOK
<1> QED BY <1>1, <1>2

\* The sweep of lapsed authorities shrinks.
LEMMA ReapHandlesLemma ==
    ASSUME RegistryTypeOK, reap_expired_handles
    PROVE  Shrinks
BY ReapLemma DEF reap_expired_handles, Without, Shrinks, RegistryTypeOK

\* Dropping all authority with the connection shrinks.
LEMMA InvalidateLemma ==
    ASSUME RegistryTypeOK, invalidate_connection
    PROVE  Shrinks
<1>1. DOMAIN active' = {} /\ DOMAIN prepared' = {}
  BY DEF invalidate_connection
<1> QED BY <1>1 DEF invalidate_connection, Shrinks, RegistryTypeOK

\* A heartbeat shrinks: it never renews a lease that has run out.
LEMMA RenewLemma ==
    ASSUME RegistryTypeOK, NEW entries \in Heartbeats, renew_batch(entries)
    PROVE  Shrinks
<1>1. CASE \A e \in entries : Renewable(e)
  <2>1. active' = [h \in DOMAIN active |->
                     IF \E e \in entries : e[1] = h
                     THEN [active[h] EXCEPT !.left = TokenTTL]
                     ELSE active[h]]
    BY <1>1 DEF renew_batch
  <2>2. ASSUME NEW h \in DOMAIN active
        PROVE  /\ active'[h] \in ActiveSession
               /\ active'[h].token = active[h].token
               /\ active'[h].claim = active[h].claim
               /\ active[h].bound => active'[h].bound
               /\ Expired(active[h]) => Expired(active'[h])
    <3>1. active[h] \in ActiveSession
      BY DEF RegistryTypeOK
    <3>2. CASE \E e \in entries : e[1] = h
      <4>1. ~Expired(active[h])
        BY <1>1, <3>2 DEF Renewable
      <4>2. active'[h] = [active[h] EXCEPT !.left = TokenTTL]
        BY <2>1, <3>2
      <4> QED BY <3>1, <4>1, <4>2, RegistryAssumption DEF ActiveSession
    <3>3. CASE ~ \E e \in entries : e[1] = h
      BY <2>1, <3>1, <3>3
    <3> QED BY <3>2, <3>3
  <2> QED BY <2>1, <2>2 DEF renew_batch, Shrinks, RegistryTypeOK
<1>2. CASE ~ \A e \in entries : Renewable(e)
  BY <1>2 DEF renew_batch, Shrinks, RegistryTypeOK
<1> QED BY <1>1, <1>2

\* The passing of time shrinks.
LEMMA TickLemma ==
    ASSUME RegistryTypeOK, Tick
    PROVE  Shrinks
<1>1. ASSUME NEW t \in DOMAIN prepared
      PROVE  /\ prepared'[t] \in PreparedSession
             /\ Expired(prepared[t]) => Expired(prepared'[t])
  <2>1. prepared[t] \in PreparedSession
    BY DEF RegistryTypeOK
  <2>2. prepared'[t] =
          [prepared[t] EXCEPT !.left = IF @ = 0 THEN 0 ELSE @ - 1]
    BY DEF Tick, Elapse
  <2> QED BY <2>1, <2>2, RegistryAssumption DEF PreparedSession, Expired
<1>2. ASSUME NEW h \in DOMAIN active
      PROVE  /\ active'[h] \in ActiveSession
             /\ active'[h].token = active[h].token
             /\ active'[h].claim = active[h].claim
             /\ active[h].bound => active'[h].bound
             /\ Expired(active[h]) => Expired(active'[h])
  <2>1. active[h] \in ActiveSession
    BY DEF RegistryTypeOK
  <2>2. active'[h] = [active[h] EXCEPT !.left = IF @ = 0 THEN 0 ELSE @ - 1]
    BY DEF Tick, Elapse
  <2> QED BY <2>1, <2>2, RegistryAssumption DEF ActiveSession, Expired
<1>3. DOMAIN prepared' = DOMAIN prepared /\ DOMAIN active' = DOMAIN active
  BY DEF Tick, Elapse
<1> QED BY <1>1, <1>2, <1>3 DEF Tick, Shrinks, RegistryTypeOK

\* A step that shrinks keeps the invariant.
LEMMA ShrinkLemma ==
    ASSUME RegistryInv, Shrinks
    PROVE  RegistryInv'
<1>1. RegistryTypeOK'
  BY DEF RegistryInv, RegistryTypeOK, Shrinks
<1>2. /\ IsFiniteSet(DOMAIN prepared') /\ IsFiniteSet(DOMAIN active')
      /\ Cardinality(DOMAIN prepared') <= Cardinality(DOMAIN prepared)
      /\ Cardinality(DOMAIN active') <= Cardinality(DOMAIN active)
  BY FS_Subset DEF RegistryInv, Shrinks
<1>3. CapacityBound'
  <2>1. /\ Cardinality(DOMAIN prepared') \in Nat
        /\ Cardinality(DOMAIN active') \in Nat
        /\ Cardinality(DOMAIN prepared) \in Nat
        /\ Cardinality(DOMAIN active) \in Nat
    BY <1>2, FS_CardinalityType DEF RegistryInv
  <2> QED BY <1>2, <2>1, RegistryAssumption DEF RegistryInv, CapacityBound
<1>4. OneAuthorityPerSession'
  BY DEF RegistryInv, OneAuthorityPerSession, Shrinks
<1>5. TokenInOnePlace'
  BY DEF RegistryInv, TokenInOnePlace, Shrinks
<1> QED BY <1>1, <1>2, <1>3, <1>4, <1>5 DEF RegistryInv

-----------------------------------------------------------------------------
(* The two steps that add an authority.                                     *)

\* A prepare that is refused shrinks.
LEMMA RefusedPrepareLemma ==
    ASSUME RegistryTypeOK, NEW s, NEW f, NEW g, NEW t \in Tokens,
           prepare(s, f, g, t), PrepareResult(g) # "Prepared"
    PROVE  Shrinks
BY ReapLemma DEF prepare, Shrinks, RegistryTypeOK

\* A prepare that is granted adds one fresh token, below the bound.
LEMMA PrepareLemma ==
    ASSUME RegistryInv,
           NEW s \in Sessions, NEW f \in Fingerprints, NEW g \in Generations,
           NEW t \in Tokens,
           prepare(s, f, g, t), PrepareResult(g) = "Prepared"
    PROVE  RegistryInv'
<1> DEFINE reaped == reap_expired_prepared
           record == [claim |-> MintedClaim(s, f, g), left |-> TokenTTL]
<1>1. /\ t \notin minted
      /\ minted' = minted \cup {t}
      /\ prepared' = With(reaped, t, record)
      /\ next_handle' = next_handle
      /\ active' = active
  BY DEF prepare
<1>2. record \in PreparedSession
  BY MintedClaimLemma, RegistryAssumption DEF PreparedSession
<1>3. /\ DOMAIN reaped \subseteq DOMAIN prepared
      /\ \A k \in DOMAIN reaped : reaped[k] = prepared[k]
  BY ReapLemma
<1> HIDE DEF reaped, record
<1>4. DOMAIN prepared' = DOMAIN reaped \cup {t}
  BY <1>1 DEF With
<1>5. \A k \in DOMAIN prepared' : prepared'[k] \in PreparedSession
  BY <1>1, <1>2, <1>3, <1>4 DEF With, RegistryInv, RegistryTypeOK
<1>6. RegistryTypeOK'
  BY <1>1, <1>3, <1>4, <1>5 DEF RegistryInv, RegistryTypeOK
<1>7. IsFiniteSet(DOMAIN reaped)
  BY <1>3, FS_Subset DEF RegistryInv
<1>8. /\ IsFiniteSet(DOMAIN prepared')
      /\ Cardinality(DOMAIN prepared') <= Cardinality(DOMAIN reaped) + 1
      /\ Cardinality(DOMAIN reaped) \in Nat
      /\ Cardinality(DOMAIN prepared') \in Nat
  <2>1. /\ IsFiniteSet(DOMAIN reaped \cup {t})
        /\ Cardinality(DOMAIN reaped) \in Nat
    BY <1>7, FS_AddElement, FS_CardinalityType
  <2>2. /\ Cardinality(DOMAIN reaped \cup {t}) =
             IF t \in DOMAIN reaped THEN Cardinality(DOMAIN reaped)
                                    ELSE Cardinality(DOMAIN reaped) + 1
    BY <1>7, FS_AddElement
  <2> QED BY <1>4, <2>1, <2>2
<1>9. Cardinality(DOMAIN active) + Cardinality(DOMAIN reaped) < max_sessions
  <2>1. Cardinality(DOMAIN active) \in Nat
    BY FS_CardinalityType DEF RegistryInv
  <2> QED BY <2>1, <1>8, RegistryAssumption DEF PrepareResult, reaped
<1>10. CapacityBound'
  <2>1. Cardinality(DOMAIN active) \in Nat
    BY FS_CardinalityType DEF RegistryInv
  <2> QED BY <1>1, <1>8, <1>9, <2>1, RegistryAssumption DEF CapacityBound
<1>11. OneAuthorityPerSession'
  BY <1>1 DEF RegistryInv, OneAuthorityPerSession
<1>12. TokenInOnePlace'
  BY <1>1, <1>3, <1>4 DEF RegistryInv, RegistryTypeOK, TokenInOnePlace
<1> QED
  BY <1>1, <1>6, <1>8, <1>10, <1>11, <1>12 DEF RegistryInv

\* An open that is refused shrinks: at most it consumes the token.
LEMMA RefusedOpenLemma ==
    ASSUME RegistryTypeOK, NEW t \in Tokens, NEW c \in Claims,
           open_request(t, c), OpenResult(t, c) # "Accepted"
    PROVE  Shrinks
<1>1. next_handle' \in Handles /\ active' = active
  BY RegistryAssumption
     DEF open_request, RegistryTypeOK, Following, Handles
<1>2. prepared' = Without(prepared, {t}) /\ minted' = minted
  BY DEF open_request
<1> QED BY <1>1, <1>2 DEF Without, Shrinks, RegistryTypeOK

\* What an accepted open does.
LEMMA OpenShape ==
    ASSUME RegistryInv, NEW t \in Tokens, NEW c \in Claims,
           open_request(t, c), OpenResult(t, c) = "Accepted"
    PROVE  /\ allocate_handle \in FreeHandles
           /\ t \in DOMAIN prepared
           /\ prepared[t].claim = c
           /\ ~Expired(prepared[t])
           /\ \A h \in DOMAIN active : active[h].claim.session # c.session
           /\ prepared' = Without(prepared, {t})
           /\ active' = With(active, allocate_handle,
                             [claim |-> c, token |-> t,
                              left |-> TokenTTL, bound |-> FALSE])
           /\ next_handle' = Following(allocate_handle)
           /\ minted' = minted
<1>1. allocate_handle \in FreeHandles
  BY AllocateLemma
<1>2. /\ t \in DOMAIN prepared
      /\ prepared[t].claim = c
      /\ ~Expired(prepared[t])
      /\ \A h \in DOMAIN active : active[h].claim.session # c.session
  BY DEF OpenResult
<1> QED BY <1>1, <1>2 DEF open_request

\* An accepted open moves one authority from prepared to active.
LEMMA OpenLemma ==
    ASSUME RegistryInv, NEW t \in Tokens, NEW c \in Claims,
           open_request(t, c), OpenResult(t, c) = "Accepted"
    PROVE  RegistryInv'
<1> DEFINE handle == allocate_handle
           record == [claim |-> c, token |-> t,
                      left |-> TokenTTL, bound |-> FALSE]
<1>1. /\ handle \in Handles
      /\ handle \notin DOMAIN active
      /\ t \in DOMAIN prepared
      /\ \A h \in DOMAIN active : active[h].claim.session # c.session
      /\ prepared' = Without(prepared, {t})
      /\ active' = With(active, handle, record)
      /\ next_handle' = Following(handle)
      /\ minted' = minted
  BY OpenShape DEF FreeHandles
<1>2. record \in ActiveSession /\ record.token = t /\ record.claim = c
  BY RegistryAssumption DEF ActiveSession
<1> HIDE DEF handle, record
<1>3. /\ DOMAIN prepared' = DOMAIN prepared \ {t}
      /\ \A k \in DOMAIN prepared' : prepared'[k] = prepared[k]
  BY <1>1 DEF Without
<1>4. /\ DOMAIN active' = DOMAIN active \cup {handle}
      /\ active'[handle] = record
      /\ \A h \in DOMAIN active : active'[h] = active[h]
  BY <1>1 DEF With
<1>5. next_handle' \in Handles
  BY <1>1, RegistryAssumption DEF Following, Handles
<1>6. RegistryTypeOK'
  BY <1>1, <1>2, <1>3, <1>4, <1>5 DEF RegistryInv, RegistryTypeOK
<1>7. /\ IsFiniteSet(DOMAIN prepared')
      /\ Cardinality(DOMAIN prepared') = Cardinality(DOMAIN prepared) - 1
  BY <1>1, <1>3, FS_RemoveElement DEF RegistryInv
<1>8. /\ IsFiniteSet(DOMAIN active')
      /\ Cardinality(DOMAIN active') = Cardinality(DOMAIN active) + 1
  BY <1>1, <1>4, FS_AddElement DEF RegistryInv
<1>9. CapacityBound'
  <2>1. /\ Cardinality(DOMAIN active) \in Nat
        /\ Cardinality(DOMAIN prepared) \in Nat
    BY FS_CardinalityType DEF RegistryInv
  <2> QED BY <1>7, <1>8, <2>1, RegistryAssumption
          DEF CapacityBound, RegistryInv
<1>10. OneAuthorityPerSession'
  BY <1>1, <1>2, <1>4 DEF RegistryInv, OneAuthorityPerSession
<1>11. TokenInOnePlace'
  BY <1>1, <1>2, <1>3, <1>4 DEF RegistryInv, TokenInOnePlace
<1> QED
  BY <1>6, <1>7, <1>8, <1>9, <1>10, <1>11 DEF RegistryInv

-----------------------------------------------------------------------------
(* Every step is of one of the three kinds.                                 *)

\* A step of the registry shrinks it, grants a prepare or grants an open.
LEMMA StepKinds ==
    ASSUME RegistryTypeOK, RegistryNext
    PROVE  \/ Shrinks
           \/ \E s \in Sessions, f \in Fingerprints, g \in Generations,
                 t \in Tokens :
                   prepare(s, f, g, t) /\ PrepareResult(g) = "Prepared"
           \/ \E t \in Tokens, c \in Claims :
                   open_request(t, c) /\ OpenResult(t, c) = "Accepted"
<1>1. CASE Prepare
  BY <1>1, RefusedPrepareLemma DEF Prepare
<1>2. CASE Open
  BY <1>2, RefusedOpenLemma DEF Open
<1>3. CASE Accept
  BY <1>3, AcceptLemma DEF Accept
<1>4. CASE Close
  BY <1>4, ReleaseLemma DEF Close, close
<1>5. CASE CloseExact
  BY <1>5, ReleaseLemma DEF CloseExact, close_exact, close_unbound_if_exact
<1>6. CASE reap_expired_handles
  BY <1>6, ReapHandlesLemma
<1>7. CASE invalidate_connection
  BY <1>7, InvalidateLemma
<1>8. CASE Renew
  BY <1>8, RenewLemma DEF Renew
<1>9. CASE Tick
  BY <1>9, TickLemma
<1> QED
  BY <1>1, <1>2, <1>3, <1>4, <1>5, <1>6, <1>7, <1>8, <1>9 DEF RegistryNext

\* A new registry satisfies the inductive invariant.
LEMMA RegistryInitial ==
    ASSUME new
    PROVE  RegistryInv
<1>1. DOMAIN prepared = {} /\ DOMAIN active = {}
  BY DEF new
<1> QED
  BY <1>1, FS_EmptySet, RegistryAssumption
  DEF new, RegistryInv, RegistryTypeOK, Handles, CapacityBound,
      OneAuthorityPerSession, TokenInOnePlace

\* Every step of the registry keeps the inductive invariant.
LEMMA RegistryStep ==
    ASSUME RegistryInv, [RegistryNext]_registryVars
    PROVE  RegistryInv'
<1>1. CASE RegistryNext
  BY <1>1, StepKinds, ShrinkLemma, PrepareLemma, OpenLemma DEF RegistryInv
<1>2. CASE UNCHANGED registryVars
  BY <1>2 DEF registryVars, RegistryInv, RegistryTypeOK, CapacityBound,
              OneAuthorityPerSession, TokenInOnePlace
<1> QED BY <1>1, <1>2

\* The inductive invariant holds in every reachable state of the registry.
THEOREM RegistryInvariant == RegistrySpec => []RegistryInv
<1>1. new => RegistryInv
  BY RegistryInitial
<1>2. RegistryInv /\ [RegistryNext]_registryVars => RegistryInv'
  BY RegistryStep
<1> QED BY <1>1, <1>2, PTL DEF RegistrySpec

\* Type correctness of the registry.
THEOREM RegistryTypeCorrect == RegistrySpec => []RegistryTypeOK
<1>1. RegistryInv => RegistryTypeOK
  BY DEF RegistryInv
<1> QED BY <1>1, RegistryInvariant, PTL

\* Prepared plus active authorities never exceed the configured bound.
THEOREM RegistryBounded == RegistrySpec => []CapacityBound
<1>1. RegistryInv => CapacityBound
  BY DEF RegistryInv
<1> QED BY <1>1, RegistryInvariant, PTL

\* A session name is held by at most one active authority.
THEOREM RegistryExclusive == RegistrySpec => []OneAuthorityPerSession
<1>1. RegistryInv => OneAuthorityPerSession
  BY DEF RegistryInv
<1> QED BY <1>1, RegistryInvariant, PTL

\* An open never runs out of handles.
THEOREM RegistryHandleFree == RegistrySpec => []HandleAvailable
<1>1. RegistryInv => HandleAvailable
  BY FreeHandleLemma DEF HandleAvailable
<1> QED BY <1>1, RegistryInvariant, PTL

\* A token is prepared or active under one handle, never both.
THEOREM RegistryTokenUnique == RegistrySpec => []TokenInOnePlace
<1>1. RegistryInv => TokenInOnePlace
  BY DEF RegistryInv
<1> QED BY <1>1, RegistryInvariant, PTL

\* No operation makes a spent, closed or lapsed token good again.
THEOREM RegistryNoRevival == RegistrySpec => NoRevival
<1> DEFINE Keeps == \A t \in minted : ~Valid(t) => ~Valid(t)'
<1>1. ASSUME RegistryInv, [RegistryNext]_registryVars
      PROVE  [Keeps]_registryVars
  <2>1. CASE UNCHANGED registryVars
    BY <2>1
  <2>2. CASE Shrinks
    BY <2>2 DEF Shrinks, Valid
  <2>3. ASSUME NEW s \in Sessions, NEW f \in Fingerprints,
               NEW g \in Generations, NEW t \in Tokens,
               prepare(s, f, g, t), PrepareResult(g) = "Prepared"
        PROVE  Keeps
    <3> DEFINE reaped == reap_expired_prepared
               record == [claim |-> MintedClaim(s, f, g), left |-> TokenTTL]
    <3>1. /\ t \notin minted
          /\ prepared' = With(reaped, t, record)
          /\ active' = active
      BY <2>3 DEF prepare
    <3> HIDE DEF record
    <3>2. \A k \in DOMAIN prepared' \ {t} :
             k \in DOMAIN prepared /\ prepared'[k] = prepared[k]
      BY <3>1, ReapLemma DEF With
    <3> QED BY <3>1, <3>2 DEF Valid
  <2>4. ASSUME NEW t \in Tokens, NEW c \in Claims,
               open_request(t, c), OpenResult(t, c) = "Accepted"
        PROVE  Keeps
    <3> DEFINE record == [claim |-> c, token |-> t,
                          left |-> TokenTTL, bound |-> FALSE]
    <3>1. /\ t \in DOMAIN prepared
          /\ ~Expired(prepared[t])
          /\ prepared' = Without(prepared, {t})
          /\ active' = With(active, allocate_handle, record)
      BY <1>1, <2>4, OpenShape
    <3>2. record.token = t
      OBVIOUS
    <3> HIDE DEF record
    <3>3. /\ DOMAIN prepared' \subseteq DOMAIN prepared
          /\ \A k \in DOMAIN prepared' : prepared'[k] = prepared[k]
      BY <3>1 DEF Without
    <3>4. /\ active'[allocate_handle] = record
          /\ \A h \in DOMAIN active' \ {allocate_handle} :
                h \in DOMAIN active /\ active'[h] = active[h]
      BY <3>1 DEF With
    <3> QED BY <3>1, <3>2, <3>3, <3>4 DEF Valid
  <2> QED BY <1>1, <2>1, <2>2, <2>3, <2>4, StepKinds DEF RegistryInv
<1>2. RegistryInv /\ [RegistryNext]_registryVars => [Keeps]_registryVars
  BY <1>1
<1> QED BY <1>2, RegistryInvariant, PTL DEF RegistrySpec, NoRevival

\* A bound authority keeps its token and claim until it is removed.
THEOREM RegistryBoundIsFinal == RegistrySpec => BoundIsFinal
<1> DEFINE Stays ==
      \A h \in DOMAIN active \cap DOMAIN active' :
          active[h].bound =>
             /\ active'[h].bound
             /\ active'[h].token = active[h].token
             /\ active'[h].claim = active[h].claim
<1>1. ASSUME RegistryInv, [RegistryNext]_registryVars
      PROVE  [Stays]_registryVars
  <2>1. CASE UNCHANGED registryVars
    BY <2>1
  <2>2. CASE Shrinks
    BY <2>2 DEF Shrinks
  <2>3. ASSUME NEW s \in Sessions, NEW f \in Fingerprints,
               NEW g \in Generations, NEW t \in Tokens,
               prepare(s, f, g, t)
        PROVE  Stays
    BY <2>3 DEF prepare
  <2>4. ASSUME NEW t \in Tokens, NEW c \in Claims,
               open_request(t, c), OpenResult(t, c) = "Accepted"
        PROVE  Stays
    <3> DEFINE record == [claim |-> c, token |-> t,
                          left |-> TokenTTL, bound |-> FALSE]
    <3>1. /\ allocate_handle \notin DOMAIN active
          /\ active' = With(active, allocate_handle, record)
      BY <1>1, <2>4, OpenShape DEF FreeHandles
    <3> HIDE DEF record
    <3>2. \A h \in DOMAIN active : active'[h] = active[h]
      BY <3>1 DEF With
    <3> QED BY <3>2
  <2> QED BY <1>1, <2>1, <2>2, <2>3, <2>4, StepKinds DEF RegistryInv
<1>2. RegistryInv /\ [RegistryNext]_registryVars => [Stays]_registryVars
  BY <1>1
<1> QED BY <1>2, RegistryInvariant, PTL DEF RegistrySpec, BoundIsFinal

-----------------------------------------------------------------------------
(* Tokens and handles over time: what the servers' proofs rest on.          *)

\* A token that was opened or dropped is at most where it was opened.
LEMMA TokenStep ==
    ASSUME RegistryInv, [RegistryNext]_registryVars, NEW t \in minted,
           t \notin DOMAIN prepared
    PROVE  /\ t \in minted' /\ t \notin DOMAIN prepared'
           /\ \A h \in DOMAIN active' : active'[h].token = t =>
                 /\ h \in DOMAIN active /\ active[h].token = t
                 /\ active'[h].claim = active[h].claim
                 /\ active[h].bound => active'[h].bound
<1>1. CASE UNCHANGED registryVars
  BY <1>1 DEF registryVars
<1>2. CASE Shrinks
  BY <1>2 DEF Shrinks
<1>3. ASSUME NEW s \in Sessions, NEW f \in Fingerprints, NEW g \in Generations,
             NEW u \in Tokens, prepare(s, f, g, u)
      PROVE  /\ active' = active /\ t \in minted' /\ t \notin DOMAIN prepared'
  BY <1>3, ReapLemma DEF prepare, With
<1>4. ASSUME NEW u \in Tokens, NEW c \in Claims,
             open_request(u, c), OpenResult(u, c) = "Accepted"
      PROVE  /\ t \in minted' /\ t \notin DOMAIN prepared'
             /\ \A h \in DOMAIN active' : active'[h].token = t =>
                   h \in DOMAIN active /\ active'[h] = active[h]
  <2> DEFINE record == [claim |-> c, token |-> u, left |-> TokenTTL, bound |-> FALSE]
  <2>1. /\ u \in DOMAIN prepared /\ prepared' = Without(prepared, {u})
        /\ active' = With(active, allocate_handle, record)
        /\ minted' = minted
    BY <1>4, OpenShape DEF open_request
  <2>2. record.token = u
    OBVIOUS
  <2> HIDE DEF record
  <2> QED BY <2>1, <2>2 DEF With, Without
<1> QED BY <1>1, <1>2, <1>3, <1>4, StepKinds DEF RegistryInv

\* An authority that stays keeps its token and claim, and stays bound.
LEMMA EntryStep ==
    ASSUME RegistryInv, [RegistryNext]_registryVars, NEW h \in DOMAIN active,
           h \in DOMAIN active'
    PROVE  /\ active'[h].token = active[h].token
           /\ active'[h].claim = active[h].claim
           /\ active[h].bound => active'[h].bound
<1>1. CASE UNCHANGED registryVars
  BY <1>1 DEF registryVars
<1>2. CASE Shrinks
  BY <1>2 DEF Shrinks
<1>3. ASSUME NEW s \in Sessions, NEW f \in Fingerprints, NEW g \in Generations,
             NEW t \in Tokens, prepare(s, f, g, t)
      PROVE  active' = active
  BY <1>3 DEF prepare
<1>4. ASSUME NEW t \in Tokens, NEW c \in Claims,
             open_request(t, c), OpenResult(t, c) = "Accepted"
      PROVE  active'[h] = active[h]
  BY <1>4, OpenShape DEF FreeHandles, With
<1> QED BY <1>1, <1>2, <1>3, <1>4, StepKinds DEF RegistryInv

\* A connection in whose life no more sessions are prepared than there are
\* handles: the code has 65535 of them.
FewTokens == IsFiniteSet(Tokens) /\ Cardinality(Tokens) <= MaxHandle

\* Every token was used: nothing can be opened any more.
Spent == DOMAIN prepared = {} /\ minted = Tokens

Consumed == minted \ DOMAIN prepared

\* Until then the handles that were ever handed out are below the next one.
HandlesFresh ==
    \/ Spent
    \/ /\ \A h \in DOMAIN active : h < next_handle
       /\ next_handle <= Cardinality(Consumed) + 1

\* Initially no handle was handed out.
LEMMA HandlesInitiallyFresh ==
    ASSUME new
    PROVE  HandlesFresh
<1>1. DOMAIN active = {} /\ Consumed = {} /\ next_handle = 1
  BY DEF new, Consumed
<1> QED BY <1>1, FS_EmptySet DEF HandlesFresh

\* A fresh registry hands out the next handle itself.
LEMMA FreshAllocation ==
    ASSUME RegistryInv, \A h \in DOMAIN active : h < next_handle
    PROVE  allocate_handle = next_handle
<1>1. next_handle \in FreeHandles /\ next_handle \in Nat
  BY RegistryAssumption DEF RegistryInv, RegistryTypeOK, FreeHandles, Handles
<1>2. StepsTo(next_handle) = 0
  BY <1>1 DEF StepsTo
<1>3. \A h \in FreeHandles : StepsTo(h) \in Nat /\ (StepsTo(h) = 0 => h = next_handle)
  BY RegistryAssumption DEF FreeHandles, Handles, StepsTo, RegistryInv, RegistryTypeOK
<1>4. \E h \in FreeHandles : \A g \in FreeHandles : StepsTo(h) <= StepsTo(g)
  BY <1>1, <1>2, <1>3
<1>5. /\ allocate_handle \in FreeHandles
      /\ \A g \in FreeHandles : StepsTo(allocate_handle) <= StepsTo(g)
  BY <1>4 DEF allocate_handle
<1>6. StepsTo(allocate_handle) <= 0
  BY <1>1, <1>2, <1>5
<1> QED BY <1>3, <1>5, <1>6

\* A step that opens nothing hands out nothing.
LEMMA NoOpenKeepsHandles ==
    ASSUME RegistryInv, RegistryNext,
           ~\E t \in Tokens, c \in Claims :
                open_request(t, c) /\ OpenResult(t, c) = "Accepted"
    PROVE  /\ next_handle' = next_handle
           /\ DOMAIN active' \subseteq DOMAIN active
           /\ \A h \in DOMAIN active' : active'[h].token = active[h].token
           /\ minted \subseteq minted' /\ minted' \subseteq Tokens
           /\ Consumed \subseteq Consumed'
           /\ Spent => Spent'
<1>f. FreeHandles # {}
  BY FreeHandleLemma
<1>1. next_handle' = next_handle
  <2>1. ASSUME NEW t \in Tokens, NEW c \in Claims, open_request(t, c)
        PROVE  next_handle' = next_handle
    BY <1>f, <2>1 DEF open_request, OpenResult
  <2> QED
    BY <2>1 DEF RegistryNext, Prepare, prepare, Open, Accept, accept_active, Close, close,
                CloseExact, close_exact, close_unbound_if_exact, Release,
                reap_expired_handles, invalidate_connection, Renew, renew_batch, Tick
<1>2. CASE Shrinks
  <2>1. /\ DOMAIN active' \subseteq DOMAIN active
        /\ \A h \in DOMAIN active' : active'[h].token = active[h].token
        /\ minted \subseteq minted' /\ minted' \subseteq Tokens
        /\ DOMAIN prepared' \subseteq DOMAIN prepared
    BY <1>2 DEF Shrinks
  <2> QED BY <1>1, <2>1 DEF Consumed, Spent
<1>3. ASSUME NEW s \in Sessions, NEW f \in Fingerprints, NEW g \in Generations,
             NEW t \in Tokens, prepare(s, f, g, t)
      PROVE  /\ active' = active
             /\ minted \subseteq minted' /\ minted' \subseteq Tokens
             /\ Consumed \subseteq Consumed'
             /\ ~Spent
  BY <1>3, ReapLemma DEF prepare, With, Consumed, Spent, RegistryInv, RegistryTypeOK
<1> QED BY <1>1, <1>2, <1>3, StepKinds DEF RegistryInv

\* As long as there are no more tokens than handles, no handle is handed out
\* twice: an open takes the next one, above all that were ever active.
LEMMA HandleStep ==
    ASSUME FewTokens, RegistryInv, HandlesFresh, [RegistryNext]_registryVars
    PROVE  /\ HandlesFresh'
           /\ Spent => Spent'
           /\ ~Spent' => next_handle' >= next_handle
           /\ \A h \in DOMAIN active' :
                 \/ h \in DOMAIN active /\ active'[h].token = active[h].token
                 \/ /\ ~Spent /\ h = next_handle /\ h \notin DOMAIN active
                    /\ Spent' \/ next_handle' = next_handle + 1
<1>t. next_handle \in Nat /\ next_handle \in Handles /\ minted \subseteq Tokens
  BY DEF RegistryInv, RegistryTypeOK, Handles
<1>1. CASE UNCHANGED registryVars
  <2>1. UNCHANGED <<next_handle, prepared, active, minted>>
    BY <1>1 DEF registryVars
  <2> QED BY <1>t, <2>1 DEF HandlesFresh, Spent, Consumed
<1>2. CASE RegistryNext /\ ~\E t \in Tokens, c \in Claims :
                open_request(t, c) /\ OpenResult(t, c) = "Accepted"
  <2>1. /\ next_handle' = next_handle
        /\ DOMAIN active' \subseteq DOMAIN active
        /\ \A h \in DOMAIN active' : active'[h].token = active[h].token
        /\ minted' \subseteq Tokens
        /\ Consumed \subseteq Consumed'
        /\ Spent => Spent'
    BY <1>2, NoOpenKeepsHandles
  <2>2. Consumed' \in SUBSET Tokens
    BY <2>1 DEF Consumed
  <2>3. IsFiniteSet(Consumed')
    BY <2>2, FS_Subset DEF FewTokens
  <2>4. /\ IsFiniteSet(Consumed) /\ Cardinality(Consumed) <= Cardinality(Consumed')
    BY <2>1, <2>3, FS_Subset
  <2>5. Cardinality(Consumed) \in Nat /\ Cardinality(Consumed') \in Nat
    BY <2>3, <2>4, FS_CardinalityType
  <2>6. HandlesFresh'
    BY <1>t, <2>1, <2>4, <2>5 DEF HandlesFresh
  <2> QED BY <1>t, <2>1, <2>6
<1>3. ASSUME NEW t \in Tokens, NEW c \in Claims,
             open_request(t, c), OpenResult(t, c) = "Accepted"
      PROVE  /\ HandlesFresh' /\ ~Spent
             /\ ~Spent' => next_handle' >= next_handle
             /\ \A h \in DOMAIN active' :
                   \/ h \in DOMAIN active /\ active'[h].token = active[h].token
                   \/ /\ h = next_handle /\ h \notin DOMAIN active
                      /\ Spent' \/ next_handle' = next_handle + 1
  <2> DEFINE record == [claim |-> c, token |-> t, left |-> TokenTTL, bound |-> FALSE]
  <2>1. /\ t \in DOMAIN prepared /\ prepared' = Without(prepared, {t})
        /\ active' = With(active, allocate_handle, record)
        /\ next_handle' = Following(allocate_handle)
        /\ minted' = minted
        /\ allocate_handle \notin DOMAIN active
    BY <1>3, OpenShape DEF open_request, FreeHandles
  <2> HIDE DEF record
  <2>2. ~Spent
    BY <2>1 DEF Spent
  <2>3. /\ \A h \in DOMAIN active : h < next_handle
        /\ next_handle <= Cardinality(Consumed) + 1
    BY <2>2 DEF HandlesFresh
  <2>4. allocate_handle = next_handle
    BY <2>3, FreshAllocation
  <2>5. t \in minted /\ t \notin Consumed /\ Consumed' = Consumed \cup {t}
    BY <2>1 DEF Consumed, Without, RegistryInv, RegistryTypeOK
  <2>6. Consumed \in SUBSET Tokens /\ Consumed' \in SUBSET Tokens
    BY <1>t, <2>5 DEF Consumed
  <2>7. IsFiniteSet(Consumed) /\ IsFiniteSet(Consumed')
    BY <2>6, FS_Subset DEF FewTokens
  <2>8. /\ Cardinality(Consumed') = Cardinality(Consumed) + 1
        /\ Cardinality(Consumed) \in Nat
    BY <2>5, <2>7, FS_AddElement, FS_CardinalityType
  <2>9. /\ Cardinality(Consumed') <= Cardinality(Tokens) /\ Cardinality(Tokens) \in Nat
        /\ Cardinality(Consumed') = Cardinality(Tokens) => Consumed' = Tokens
    <3>1. IsFiniteSet(Tokens)
      BY DEF FewTokens
    <3> QED BY <2>6, <3>1, FS_Subset, FS_CardinalityType
  <2>10. \A h \in DOMAIN active' :
             \/ h \in DOMAIN active /\ active'[h] = active[h]
             \/ h = next_handle /\ h \notin DOMAIN active
    BY <2>1, <2>4 DEF With
  <2>11. CASE next_handle < MaxHandle
    <3>1. next_handle' = next_handle + 1
      BY <1>t, <2>1, <2>4, <2>11 DEF Following
    <3>2. \A h \in DOMAIN active' : h < next_handle'
      BY <1>t, <2>3, <2>10, <3>1 DEF RegistryInv, RegistryTypeOK, Handles
    <3>3. next_handle' <= Cardinality(Consumed') + 1
      BY <1>t, <2>3, <2>8, <3>1
    <3> QED BY <1>t, <2>2, <2>10, <3>1, <3>2, <3>3 DEF HandlesFresh
  <2>12. CASE ~(next_handle < MaxHandle)
    <3>1. next_handle = MaxHandle
      BY <1>t, <2>12, RegistryAssumption DEF Handles
    <3>2. Cardinality(Consumed') = Cardinality(Tokens)
      BY <2>3, <2>8, <2>9, <3>1, RegistryAssumption DEF FewTokens
    <3>3. Consumed' = Tokens
      BY <2>9, <3>2
    <3>4. DOMAIN prepared' \subseteq minted' /\ minted' \subseteq Tokens
      BY <1>t, <2>1 DEF Without, RegistryInv, RegistryTypeOK
    <3>5. Spent'
      BY <3>3, <3>4 DEF Spent, Consumed
    <3> QED BY <2>2, <2>10, <3>5 DEF HandlesFresh
  <2> QED BY <2>11, <2>12
<1> QED BY <1>1, <1>2, <1>3

\* What a stream has for good once `accept_active' let its binding through: if
\* an authority is active under its handle, it is the one it is bound to.
OwnerOf(b) ==
    /\ b.token \in minted /\ b.token \notin DOMAIN prepared
    /\ b.handle \in DOMAIN active =>
          /\ active[b.handle].token = b.token
          /\ active[b.handle].claim = b.claim
          /\ active[b.handle].bound
    /\ Spent \/ b.handle < next_handle

\* No operation of the registry takes that from the stream.
LEMMA OwnershipStep ==
    ASSUME FewTokens, RegistryInv, HandlesFresh, [RegistryNext]_registryVars,
           NEW b \in Bindings, OwnerOf(b)
    PROVE  OwnerOf(b)'
<1>1. b.token \in minted' /\ b.token \notin DOMAIN prepared'
  BY TokenStep DEF OwnerOf
<1>2. /\ Spent => Spent'
      /\ ~Spent' => next_handle' >= next_handle
      /\ \A h \in DOMAIN active' :
            \/ h \in DOMAIN active
            \/ ~Spent /\ h = next_handle
  BY HandleStep
<1>3. RegistryInv'
  BY RegistryStep
<1>4. b.handle \in Nat /\ next_handle \in Nat /\ next_handle' \in Nat
  BY <1>3 DEF Bindings, Handles, RegistryInv, RegistryTypeOK
<1>5. Spent' \/ b.handle < next_handle'
  <2>1. Spent \/ b.handle < next_handle
    BY DEF OwnerOf
  <2> HIDE DEF Spent
  <2> QED BY <1>2, <1>4, <2>1
<1>6. ASSUME b.handle \in DOMAIN active'
      PROVE  /\ active'[b.handle].token = b.token
             /\ active'[b.handle].claim = b.claim
             /\ active'[b.handle].bound
  <2>1. b.handle \in DOMAIN active
    <3>1. Spent \/ b.handle < next_handle
      BY DEF OwnerOf
    <3> HIDE DEF Spent
    <3> QED BY <1>2, <1>4, <1>6, <3>1
  <2> QED BY <1>6, <2>1, EntryStep DEF OwnerOf
<1> QED BY <1>1, <1>5, <1>6 DEF OwnerOf

\* An accepted binding has it.
LEMMA AcceptedOwns ==
    ASSUME RegistryInv, HandlesFresh,
           NEW b \in Bindings, accept_active(b), AcceptResult(b) = "Accepted"
    PROVE  OwnerOf(b)'
<1>1. /\ b.handle \in DOMAIN active
      /\ active[b.handle].claim = b.claim /\ active[b.handle].token = b.token
      /\ active' = [active EXCEPT ![b.handle].bound = TRUE]
      /\ UNCHANGED <<next_handle, prepared, minted>>
  BY DEF accept_active, AcceptResult, Exact
<1>2. active[b.handle] \in ActiveSession /\ active[b.handle].token \in minted
  BY <1>1 DEF RegistryInv, RegistryTypeOK
<1>3. /\ active'[b.handle].token = b.token
      /\ active'[b.handle].claim = b.claim
      /\ active'[b.handle].bound
  BY <1>1, <1>2 DEF ActiveSession
<1>4. b.token \in minted /\ b.token \notin DOMAIN prepared
  BY <1>1, <1>2 DEF RegistryInv, TokenInOnePlace
<1>5. Spent \/ b.handle < next_handle
  BY <1>1 DEF HandlesFresh
<1> QED BY <1>1, <1>3, <1>4, <1>5 DEF OwnerOf, Spent
=============================================================================
