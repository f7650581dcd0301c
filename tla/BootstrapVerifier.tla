------------------------- MODULE BootstrapVerifier -------------------------
(***************************************************************************)
(* The contract verifier of the first bootstrap (bootstrap.rs) behind its  *)
(* HDB1 session (bootstrap_session.rs): attempts, the fence of each Herdr  *)
(* session, hidden verification workspaces, the start rate of a peer, and  *)
(* the issuer, with the failures that can be injected.  A session borrows  *)
(* the verifier from Start to the terminal answer and uses one clock value *)
(* throughout.                                                             *)
(***************************************************************************)
EXTENDS Naturals, FiniteSets

CONSTANTS Sessions,      \* Herdr sessions
          Peers,         \* peer addresses
          MaxIds,        \* bound: attempts minted
          MaxTime,       \* bound: clock values
          CodeTTL,       \* BOOTSTRAP_CODE_TTL_SECS
          HardTTL,       \* BOOTSTRAP_HARD_LIFETIME_SECS
          RecoveryTTL,   \* ISSUED_RECOVERY_TTL_SECS
          Window,        \* BOOTSTRAP_START_WINDOW_SECS
          MaxPeerStarts, \* MAX_PEER_STARTS
          MaxActive,     \* MAX_ACTIVE_BOOTSTRAPS
          MaxRetained,   \* MAX_RETAINED_BOOTSTRAPS
          MaxFailures    \* MAX_CODE_FAILURES_PER_CHALLENGE

ASSUME VerifierAssumption ==
    /\ {MaxIds, CodeTTL, HardTTL, RecoveryTTL, Window} \subseteq Nat
    /\ {MaxTime, MaxPeerStarts, MaxActive, MaxRetained, MaxFailures} \subseteq Nat \ {0}
    /\ CodeTTL <= HardTTL

VARIABLES now,     \* the clock; zero is refused everywhere
          minted,  \* ids minted so far
          state,   \* what the verifier keeps: see TypeOK
          serving, \* the HDB1 session in progress: its attempt and clock value
          fault,   \* injected failures: the next read, close, issue
          tried,   \* history: wrong codes compared for an attempt
          issued,  \* history: certificates issued for an attempt
          created  \* history: start times of every peer, as <<id, time>>

verifierVars == <<now, minted, state, serving, fault, tried, issued, created>>

Ids  == 1 .. MaxIds
Live == {"awaiting", "cleanup", "issued"}
NoSession == "none"
Gone == [st |-> "none", session |-> NoSession, at |-> 0, fails |-> 0, iss |-> 0]

NoServing == [id |-> 0, at |-> 0]

TypeOK ==
    /\ now \in 1 .. MaxTime /\ minted \in 0 .. MaxIds
    /\ state \in [attempts : [Ids -> [st : Live \cup {"none", "rejected", "expired"},
                                      session : Sessions \cup {NoSession},
                                      at : 0 .. MaxTime, fails : 0 .. MaxFailures, iss : 0 .. MaxTime]],
                  fence : [Sessions -> {0} \cup Ids],
                  spaces : SUBSET (Ids \X Sessions),
                  starts : [Peers -> SUBSET (Ids \X (1 .. MaxTime))]]
    /\ serving \in [id : {0} \cup Ids, at : 0 .. MaxTime]
    /\ fault \subseteq {"read", "close", "issue"}
    /\ tried \in [Ids -> Nat] /\ issued \in [Ids -> Nat]
    /\ created \in [Peers -> SUBSET (Ids \X (1 .. MaxTime))]
    /\ Cardinality({i \in Ids : state.attempts[i].st # "none"}) <= MaxRetained
    /\ Cardinality({s \in Sessions : state.fence[s] # 0}) <= MaxActive

Init ==
    /\ now = 1 /\ minted = 0 /\ fault = {} /\ serving = NoServing
    /\ state = [attempts |-> [i \in Ids |-> Gone], fence |-> [s \in Sessions |-> 0],
                spaces |-> {}, starts |-> [p \in Peers |-> {}]]
    /\ tried = [i \in Ids |-> 0] /\ issued = tried
    /\ created = [p \in Peers |-> {}]

-----------------------------------------------------------------------------
(* Workspaces and terminal states *)

Space(v, i)    == {w \in v.spaces : w[1] = i}

\* close fails once when that is injected, and for a workspace that is gone.
CanClose(v, i) == "close" \notin fault /\ Space(v, i) # {}
Closed(v, i)   == [v EXCEPT !.spaces = @ \ Space(v, i)]
UsesFault(f)   == fault' = fault \ {f}

\* The fence of the session goes, whichever attempt it names.
MarkTerminal(v, i, st) ==
    [v EXCEPT !.attempts[i].st = st, !.fence[v.attempts[i].session] = 0]

\* What a call that has to close the workspace first leaves behind.
CloseThen(v, i, st) ==
    IF CanClose(v, i) THEN MarkTerminal(Closed(v, i), i, st)
                      ELSE [v EXCEPT !.attempts[i].st = "cleanup"]

RecoveryOver(a, t) == a.st = "issued" /\ t > a.iss + RecoveryTTL
HardOver(a, t)     == a.st \in {"awaiting", "cleanup"} /\ t > a.at + HardTTL

Reapable(v, t) == {i \in Ids : HardOver(v.attempts[i], t)}

\* reap_expired: one of the workspaces due meets the injected failure.
Reaped(v, t, bad) ==
    LET due  == Reapable(v, t)
        ends == {i \in Ids : RecoveryOver(v.attempts[i], t)}
                \cup {i \in due : i # bad /\ Space(v, i) # {}}
    IN [v EXCEPT !.attempts = [i \in Ids |-> [v.attempts[i] EXCEPT !.st =
                                 IF i \in ends THEN "expired" ELSE IF i \in due THEN "cleanup" ELSE @]],
                 !.fence = [s \in Sessions |->
                              IF \E i \in ends : v.attempts[i].session = s THEN 0 ELSE v.fence[s]],
                 !.spaces = {w \in v.spaces : w[1] \notin due \cap ends}]

\* The one that fails, zero if nothing is injected or nothing is due.
Failing(v, t) == IF "close" \in fault /\ Reapable(v, t) # {} THEN Reapable(v, t) ELSE {0}

\* prune_retained_attempts
Pruned(v, t) ==
    LET drop == {i \in Ids : \/ v.attempts[i].st \in {"rejected", "expired"}
                             \/ RecoveryOver(v.attempts[i], t)}
    IN [v EXCEPT !.attempts = [i \in Ids |-> IF i \in drop THEN Gone ELSE v.attempts[i]],
                 !.fence = [s \in Sessions |-> IF v.fence[s] \in drop THEN 0 ELSE v.fence[s]]]

Recent(h, t) == {e \in h : t - e[2] < Window}

-----------------------------------------------------------------------------
(* Start *)

\* Mutant: a session that is fenced is started again.
AdmitFenced(v, p, s) ==
    /\ Cardinality({i \in Ids : v.attempts[i].st # "none"}) < MaxRetained
    /\ Cardinality({x \in Sessions : v.fence[x] # 0}) < MaxActive
    /\ Cardinality(v.starts[p]) < MaxPeerStarts

Admit(v, p, s) ==
    /\ Cardinality({i \in Ids : v.attempts[i].st # "none"}) < MaxRetained
    /\ v.fence[s] = 0 /\ ~\E w \in v.spaces : w[2] = s
    /\ Cardinality({x \in Sessions : v.fence[x] # 0}) < MaxActive
    /\ Cardinality(v.starts[p]) < MaxPeerStarts

\* A start that is refused has still reaped and pruned.
Start(p, s) ==
    /\ serving = NoServing
    /\ \E bad \in Failing(state, now) :
       LET r  == Pruned(Reaped(state, now, bad), now)
           v  == [r EXCEPT !.starts = [q \in Peers |-> Recent(r.starts[q], now)]]
           i  == minted + 1
           v1 == [v EXCEPT !.starts[p] = @ \cup {<<i, now>>}]
           left == IF bad = 0 THEN fault ELSE fault \ {"close"}
       IN \/ /\ ~Admit(v, p, s)
             /\ state' = v /\ fault' = left
             /\ UNCHANGED <<minted, serving, created>>
          \/ /\ Admit(v, p, s) /\ minted < MaxIds
             /\ minted' = i
             /\ created' = [created EXCEPT ![p] = @ \cup {<<i, now>>}]
             /\ IF "read" \in left
                  THEN \* rolled back, unless the close fails too: an orphan
                       /\ state' = IF "close" \in left
                                     THEN [v1 EXCEPT !.spaces = @ \cup {<<i, s>>}] ELSE v1
                       /\ fault' = left \ {"read", "close"}
                       /\ UNCHANGED serving
                  ELSE /\ state' = [v1 EXCEPT
                              !.spaces = @ \cup {<<i, s>>}, !.fence[s] = i,
                              !.attempts[i] = [Gone EXCEPT !.st = "awaiting", !.session = s,
                                                           !.at = now]]
                       /\ fault' = left
                       /\ serving' = [id |-> i, at |-> now]
    /\ UNCHANGED <<now, tried, issued>>

\* The stream fails or times out before a Submit comes: the attempt stays.
SessionLost ==
    /\ serving # NoServing
    /\ serving' = NoServing
    /\ UNCHANGED <<now, minted, state, fault, tried, issued, created>>

-----------------------------------------------------------------------------
(* Submit: of the attempt just started, or of an earlier one *)

\* Mutant: at the limit the attempt waits on while its workspace cannot be closed.
WrongCodeWaits(v, i) ==
    LET w == [v EXCEPT !.attempts[i].fails = IF @ < MaxFailures THEN @ + 1 ELSE @] IN
    IF w.attempts[i].fails < MaxFailures THEN w
    ELSE IF CanClose(w, i) THEN MarkTerminal(Closed(w, i), i, "rejected") ELSE w

\* The failures an attempt may have before its end.
WrongCode(v, i) ==
    LET w == [v EXCEPT !.attempts[i].fails = @ + 1] IN
    IF w.attempts[i].fails < MaxFailures THEN w ELSE CloseThen(w, i, "rejected")

ClosesOnWrong(i) == state.attempts[i].fails + 1 >= MaxFailures

Issue(v, i, t) == [v EXCEPT !.attempts[i].st = "issued", !.attempts[i].iss = t]

Submittable(i) == state.attempts[i].st = "awaiting"

Submit(i, code) ==
    /\ serving # NoServing
    /\ serving' = NoServing
    /\ LET t == serving.at
           a == state.attempts[i]
       IN \/ ~Submittable(i) /\ UNCHANGED <<state, fault, tried, issued>>
          \/ /\ Submittable(i) /\ t > a.at + CodeTTL
             /\ state' = CloseThen(state, i, "expired")
             /\ UsesFault("close") /\ UNCHANGED <<tried, issued>>
          \/ /\ Submittable(i) /\ t <= a.at + CodeTTL /\ code = "wrong"
             /\ state' = WrongCode(state, i)
             /\ tried' = [tried EXCEPT ![i] = @ + 1]
             /\ IF ClosesOnWrong(i) THEN UsesFault("close") ELSE UNCHANGED fault
             /\ UNCHANGED issued
          \/ /\ Submittable(i) /\ t <= a.at + CodeTTL /\ code = "right"
             /\ IF ~CanClose(state, i)
                  THEN /\ state' = [state EXCEPT !.attempts[i].st = "cleanup"]
                       /\ UsesFault("close") /\ UNCHANGED issued
                  ELSE IF "issue" \in fault
                  THEN /\ state' = MarkTerminal(Closed(state, i), i, "rejected")
                       /\ UsesFault("issue") /\ UNCHANGED issued
                  ELSE /\ state' = Issue(Closed(state, i), i, t)
                       /\ issued' = [issued EXCEPT ![i] = @ + 1]
                       /\ UNCHANGED fault
             /\ UNCHANGED tried
    /\ UNCHANGED <<now, minted, created>>

-----------------------------------------------------------------------------
(* Recovery and cleanup *)

Reconcile(i) ==
    /\ serving = NoServing /\ state.attempts[i].st # "none"
    /\ LET a == state.attempts[i] IN
       \/ /\ a.st = "awaiting" /\ now > a.at + HardTTL
          /\ state' = CloseThen(state, i, "expired") /\ UsesFault("close")
       \/ /\ RecoveryOver(a, now)
          /\ state' = MarkTerminal(state, i, "expired") /\ UNCHANGED fault
    /\ UNCHANGED <<now, minted, serving, tried, issued, created>>

ReapExpired ==
    /\ serving = NoServing
    /\ \E bad \in Failing(state, now) :
          /\ state' = Reaped(state, now, bad)
          /\ IF bad = 0 THEN UNCHANGED fault ELSE UsesFault("close")
    /\ UNCHANGED <<now, minted, serving, tried, issued, created>>

RetryCleanup(i) ==
    /\ serving = NoServing /\ state.attempts[i].st = "cleanup"
    /\ state' = IF CanClose(state, i) THEN MarkTerminal(Closed(state, i), i, "rejected")
                                      ELSE state
    /\ UsesFault("close")
    /\ UNCHANGED <<now, minted, serving, tried, issued, created>>

\* Any workspace of the session.
RetryOrphanedWorkspace(s) ==
    /\ serving = NoServing
    /\ \E w \in state.spaces : w[2] = s
          /\ state' = IF "close" \in fault THEN state ELSE [state EXCEPT !.spaces = @ \ {w}]
    /\ UsesFault("close")
    /\ UNCHANGED <<now, minted, serving, tried, issued, created>>

-----------------------------------------------------------------------------
FailNext(f) ==
    /\ serving = NoServing /\ f \notin fault
    /\ fault' = fault \cup {f}
    /\ UNCHANGED <<now, minted, state, serving, tried, issued, created>>

Tick ==
    /\ now < MaxTime /\ now' = now + 1
    /\ UNCHANGED <<minted, state, serving, fault, tried, issued, created>>

Next ==
    \/ \E p \in Peers, s \in Sessions : Start(p, s)
    \/ SessionLost
    \/ \E i \in Ids, code \in {"right", "wrong"} : Submit(i, code)
    \/ \E i \in Ids : Reconcile(i) \/ RetryCleanup(i)
    \/ ReapExpired
    \/ \E s \in Sessions : RetryOrphanedWorkspace(s)
    \/ \E f \in {"read", "close", "issue"} : FailNext(f)
    \/ Tick

Spec == Init /\ [][Next]_verifierVars

-----------------------------------------------------------------------------
(* Properties *)

\* active_by_session and the attempts agree: a session is fenced by exactly
\* the one attempt of it that has not ended, through failed closes, expiry
\* inside another call, pruning and cleanup.
FenceMatches ==
    /\ \A s \in Sessions : state.fence[s] # 0 =>
          /\ state.attempts[state.fence[s]].st \in Live
          /\ state.attempts[state.fence[s]].session = s
    /\ \A i \in Ids : state.attempts[i].st \in Live =>
          state.fence[state.attempts[i].session] = i

\* An attempt gives one certificate at most, and none once its budget of
\* wrong codes is used up, also when the close at the limit failed.
OneCertificateInBudget ==
    \A i \in Ids : /\ issued[i] <= 1
                   /\ tried[i] <= MaxFailures
                   /\ issued[i] = 1 => tried[i] < MaxFailures

\* In any window a peer makes at most MAX_PEER_STARTS starts, failed ones
\* included, whatever is reaped and pruned in between.
StartRateHolds ==
    \A p \in Peers : Cardinality({e \in created[p] : now - e[2] < Window}) <= MaxPeerStarts

\* The verifier's limits: see the parts.
LimitsHold == TypeOK /\ OneCertificateInBudget /\ StartRateHolds
=============================================================================
