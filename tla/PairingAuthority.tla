-------------------------- MODULE PairingAuthority ---------------------------
(***************************************************************************)
(* The pairing authority of the iroh relay (IrohRelayState of              *)
(* iroh_endpoint.rs): which Core endpoints are paired, how their           *)
(* connections come and go, and how the relation map is committed to, and  *)
(* restored from, the authority file.                                      *)
(*                                                                         *)
(* The functions that change the map are synchronous and hold its mutex    *)
(* throughout, the file commit included; the connection handlers           *)
(* interleave between them.  A commit may succeed, fail, or end in the     *)
(* store's `Unknown': the file was replaced and an error is returned       *)
(* nevertheless.  The process may crash at any time.                       *)
(***************************************************************************)
EXTENDS Naturals, FiniteSets, FiniteSetsExt

CONSTANTS
    Peers,              \* authenticated Core endpoints
    max_connections,    \* connection slots of the endpoint
    MAX_PAIRING_RECORDS, \* bound on records in memory and on relations on disk
    MaxChallenges,      \* MAX_PAIRING_CHALLENGES_PER_WINDOW
    MaxFailures,        \* MAX_PAIRING_ATTEMPTS
    MaxGeneration,      \* bound of the exploration on generations
    MaxRevision,        \* bound of the exploration on file revisions
    MaxIdentity         \* bound of the exploration on identity generations

ASSUME PairingAssumption ==
    /\ max_connections \in Nat \ {0}
    /\ MAX_PAIRING_RECORDS \in Nat \ {0}
    /\ MaxChallenges \in Nat \ {0}
    /\ MaxFailures \in Nat \ {0}
    /\ {MaxGeneration, MaxRevision, MaxIdentity} \subseteq Nat

VARIABLES
    disk,       \* the committed record; revision 0 stands for a missing file
    identity,   \* generation of the relay identity on disk
    process,    \* "down", "up" or "stopping"
    pairings,   \* peer -> pairing record, in memory
    revision,   \* pairing_revision: the revision the next commit expects
    generation, \* pairing_authority_generation
    conn,       \* where the handler of each peer's connection is
    closed,     \* peers whose connection the relay closed under the handler
    barred      \* history: durably revoked, and not paired again since

diskVars == <<disk, identity>>
memoryVars == <<pairings, revision, generation>>
vars == <<diskVars, process, memoryVars, conn, closed, barred>>

Records == [generation : Nat, paired : BOOLEAN, revoked : BOOLEAN,
            challenges : 0..MaxChallenges, failures : 0..MaxFailures]

Relations == [generation : Nat, revoked : BOOLEAN, identity : Nat]

HandlerStates == {"none", "admitted", "known", "control", "challenged",
                  "verifying", "ready", "ending"}

Outcomes == {"ok", "fail", "unknown"}

max_pairing_records == Min({max_connections, MAX_PAIRING_RECORDS})

Without(map, keys) == [k \in DOMAIN map \ keys |-> map[k]]

With(map, key, value) ==
    [k \in DOMAIN map \cup {key} |-> IF k = key THEN value ELSE map[k]]

\* The memory of a process that is not running.
NoMemory ==
    /\ pairings' = << >> /\ revision' = 0 /\ generation' = 0
    /\ conn' = [p \in Peers |-> "none"] /\ closed' = {}

Init ==
    /\ disk = [revision |-> 0, generation |-> 0, relations |-> << >>]
    /\ identity = 1
    /\ process = "down"
    /\ pairings = << >> /\ revision = 0 /\ generation = 0
    /\ conn = [p \in Peers |-> "none"] /\ closed = {}
    /\ barred = {}

-----------------------------------------------------------------------------
(* Committing the relation map: encode_pairing_authority, commit_pairings.  *)

\* Only paired and revoked peers are written.
Encoded(map) ==
    LET kept == {p \in DOMAIN map : map[p].paired \/ map[p].revoked}
    IN  [p \in kept |-> [generation |-> map[p].generation,
                         revoked |-> map[p].revoked, identity |-> identity]]

\* Mutant: the aggregate generation is never lowered below the present one.
EncodedGenerationKept(map) ==
    Max({1, generation} \cup
        {Encoded(map)[p].generation : p \in DOMAIN Encoded(map)})

EncodedGeneration(map) ==
    Max({1} \cup {Encoded(map)[p].generation : p \in DOMAIN Encoded(map)})

\* The generation fence, then the store's revision check, then the disk.
CommitResult(map, io) ==
    IF EncodedGeneration(map) < generation THEN "corrupt"
    ELSE IF revision # disk.revision THEN "conflict" ELSE io

\* Memory is replaced after the file, and only when the commit is known.
commit_pairings(map, result) ==
    /\ disk' = IF result \in {"ok", "unknown"}
               THEN [revision |-> disk.revision + 1,
                     generation |-> EncodedGeneration(map),
                     relations |-> Encoded(map)]
               ELSE disk
    /\ IF result = "ok"
       THEN /\ pairings' = map
            /\ revision' = disk.revision + 1
            /\ generation' = EncodedGeneration(map)
       ELSE UNCHANGED <<revision, generation>>

-----------------------------------------------------------------------------
(* Process start, stop and crash.                                           *)

\* What restore_pairing_authority demands of the file.
Restorable ==
    LET generations == {disk.relations[p].generation :
                          p \in DOMAIN disk.relations}
    IN  /\ disk.revision > 0 => disk.generation > 0
        /\ Cardinality(DOMAIN disk.relations) <= MAX_PAIRING_RECORDS
        /\ generations # {} => /\ 0 \notin generations
                               /\ Max(generations) = disk.generation

Stale == \E p \in DOMAIN disk.relations :
            disk.relations[p].identity # identity

\* Mutant: a tombstone is restored as a pairing.
RestoredTombstonePaired ==
    [p \in DOMAIN disk.relations |->
        [generation |-> disk.relations[p].generation,
         paired |-> TRUE, revoked |-> disk.relations[p].revoked,
         challenges |-> 0, failures |-> 0]]

Restored ==
    [p \in DOMAIN disk.relations |->
        [generation |-> disk.relations[p].generation,
         paired |-> ~disk.relations[p].revoked,
         revoked |-> disk.relations[p].revoked,
         challenges |-> 0, failures |-> 0]]

\* Relations of this identity are taken over as they are.
Start ==
    /\ process = "down" /\ Restorable /\ ~Stale
    /\ process' = "up"
    /\ pairings' = Restored
    /\ revision' = disk.revision
    /\ generation' = disk.generation
    /\ UNCHANGED <<diskVars, conn, closed, barred>>

\* Relations of an older identity are replaced by an empty map of the next
\* generation before the endpoint is bound; without that commit no start.
StartStale(io) ==
    /\ process = "down" /\ Restorable /\ Stale
    /\ disk' = IF io = "fail" THEN disk
               ELSE [revision |-> disk.revision + 1,
                     generation |-> disk.generation + 1,
                     relations |-> << >>]
    /\ IF io = "ok"
       THEN /\ process' = "up"
            /\ revision' = disk.revision + 1
            /\ generation' = disk.generation + 1
       ELSE UNCHANGED <<process, revision, generation>>
    /\ UNCHANGED <<identity, pairings, conn, closed, barred>>

Crash ==
    /\ process # "down"
    /\ process' = "down"
    /\ NoMemory
    /\ UNCHANGED <<diskVars, barred>>

BeginShutdown ==
    /\ process = "up"
    /\ process' = "stopping"
    /\ UNCHANGED <<diskVars, memoryVars, conn, closed, barred>>

\* The relay is given a new identity while it is not running.
RotateIdentity ==
    /\ process = "down" /\ identity < MaxIdentity
    /\ identity' = identity + 1
    /\ UNCHANGED <<disk, process, memoryVars, conn, closed, barred>>

-----------------------------------------------------------------------------
(* The handler of one connection: accept, run_connection_inner.             *)

Handler(p, from, to) ==
    /\ conn[p] \in from
    /\ conn' = [conn EXCEPT ![p] = to]

Active == {p \in Peers : conn[p] # "none"}

\* One connection per peer, within the connection limit.
try_admit(p) ==
    /\ process = "up"
    /\ Cardinality(Active) < max_connections
    /\ Handler(p, {"none"}, "admitted")
    /\ UNCHANGED <<diskVars, process, memoryVars, closed, barred>>

IsPaired(p) == p \in DOMAIN pairings /\ pairings[p].paired

\* The control stream is there; the pairing state is read once.
ControlStream(p) ==
    /\ p \notin closed
    /\ Handler(p, {"admitted"}, IF IsPaired(p) THEN "known" ELSE "control")
    /\ UNCHANGED <<diskVars, process, memoryVars, closed, barred>>

\* PAIRING_START of a peer that was paired when the connection came up.
Resume(p) ==
    /\ p \notin closed
    /\ Handler(p, {"known"}, "ready")
    /\ UNCHANGED <<diskVars, process, memoryVars, closed, barred>>

NewRecord == [generation |-> 1, paired |-> FALSE, revoked |-> FALSE,
              challenges |-> 0, failures |-> 0]

RecordOf(p) == IF p \in DOMAIN pairings THEN pairings[p] ELSE NewRecord

\* Mutant: the registry takes one record too many.
HasRoomOffByOne(p) ==
    \/ p \in DOMAIN pairings
    \/ Cardinality(DOMAIN pairings) <= max_pairing_records

HasRoom(p) ==
    \/ p \in DOMAIN pairings
    \/ Cardinality(DOMAIN pairings) < max_pairing_records

\* PAIRING_START of an unpaired peer: reserve_pairing_challenge, then the
\* verifier's `begin', which may fail or time out.
reserve_pairing_challenge(p, windowOver, begun) ==
    LET record == RecordOf(p)
        used   == IF windowOver THEN 0 ELSE record.challenges
    IN  /\ process # "down" /\ p \notin closed
        /\ HasRoom(p) /\ ~record.paired /\ used < MaxChallenges
        /\ pairings' = With(pairings, p, [record EXCEPT
                               !.challenges = used + 1, !.failures = 0])
        /\ Handler(p, {"control"}, IF begun THEN "challenged" ELSE "control")
        /\ UNCHANGED <<diskVars, process, revision, generation,
                       closed, barred>>

\* PAIRING_SUBMIT with a well-formed code: the verifier is asked.
Submit(p) ==
    /\ p \notin closed
    /\ Handler(p, {"challenged"}, "verifying")
    /\ UNCHANGED <<diskVars, process, memoryVars, closed, barred>>

\* A malformed code, or one the verifier does not accept in time.
record_pairing_failure(p) ==
    LET record  == RecordOf(p)
        counted == HasRoom(p) /\ record.failures < MaxFailures
    IN  /\ conn[p] = "verifying" \/ (conn[p] = "challenged" /\ p \notin closed)
        /\ pairings' = IF counted
                       THEN With(pairings, p, [record EXCEPT !.failures = @ + 1])
                       ELSE pairings
        /\ Handler(p, {"challenged", "verifying"},
                   IF /\ counted /\ record.failures + 1 < MaxFailures
                      /\ p \notin closed
                   THEN "challenged" ELSE "ending")
        /\ UNCHANGED <<diskVars, process, revision, generation,
                       closed, barred>>

PairCandidate(p) ==
    LET record == RecordOf(p)
        next   == IF p \in DOMAIN pairings THEN record.generation + 1
                                           ELSE generation + 1
    IN  With(pairings, p, [record EXCEPT !.generation = next, !.paired = TRUE,
                                         !.revoked = FALSE, !.failures = 0])

\* The verifier accepted the code.
mark_paired(p, io) ==
    LET result == IF ~HasRoom(p) THEN "capacity"
                  ELSE IF IsPaired(p) THEN "paired"
                  ELSE CommitResult(PairCandidate(p), io)
    IN  /\ disk.revision < MaxRevision
        /\ RecordOf(p).generation < MaxGeneration
        /\ commit_pairings(PairCandidate(p), result)
        /\ result # "ok" => UNCHANGED pairings
        /\ Handler(p, {"verifying"},
                   IF result \in {"ok", "paired"} /\ p \notin closed
                   THEN "ready" ELSE "ending")
        /\ barred' = IF result \in {"ok", "unknown"} THEN barred \ {p} ELSE barred
        /\ UNCHANGED <<identity, process, closed>>

\* The peer goes away, a deadline passes, a frame is malformed, shutdown is
\* signalled, or the handler meets the connection the relay has closed.
HandlerReturns(p) ==
    /\ Handler(p, HandlerStates \ {"none", "verifying", "ending"}, "ending")
    /\ UNCHANGED <<diskVars, process, memoryVars, closed, barred>>

\* Drop of ConnectionLease: a record that is neither paired nor revoked goes
\* with the connection.
DropLease(p) ==
    /\ Handler(p, {"ending"}, "none")
    /\ closed' = closed \ {p}
    /\ pairings' = IF p \in DOMAIN pairings
                      /\ ~pairings[p].paired /\ ~pairings[p].revoked
                   THEN Without(pairings, {p}) ELSE pairings
    /\ UNCHANGED <<diskVars, process, revision, generation, barred>>

-----------------------------------------------------------------------------
(* Revocation by the owner of the endpoint: revoke_peer.                    *)

CloseActive(p) == closed' = closed \cup ({p} \cap Active)

\* Nothing known of the peer, or a tombstone already: Ok without a commit.
RevokeNothing(p) ==
    /\ process # "down"
    /\ p \in DOMAIN pairings => pairings[p].revoked
    /\ CloseActive(p)
    /\ UNCHANGED <<diskVars, process, memoryVars, conn, barred>>

RevokeCandidate(p) ==
    [pairings EXCEPT ![p].paired = FALSE, ![p].revoked = TRUE,
                     ![p].generation = @ + 1, ![p].failures = 0]

\* Mutant: a failed revocation leaves the peer admitted.
RevokeKeepsAdmission(p, io) ==
    LET result == CommitResult(RevokeCandidate(p), io)
    IN  /\ process # "down" /\ disk.revision < MaxRevision
        /\ p \in DOMAIN pairings /\ ~pairings[p].revoked
        /\ pairings[p].generation < MaxGeneration
        /\ commit_pairings(RevokeCandidate(p), result)
        /\ result # "ok" => UNCHANGED pairings
        /\ barred' = IF result = "ok" THEN barred \cup {p} ELSE barred
        /\ CloseActive(p)
        /\ UNCHANGED <<identity, process, conn>>

\* Mutant: the connection of the revoked peer is left open.
RevokeLeavesConnection(p, io) ==
    LET result == CommitResult(RevokeCandidate(p), io)
    IN  /\ process # "down" /\ disk.revision < MaxRevision
        /\ p \in DOMAIN pairings /\ ~pairings[p].revoked
        /\ pairings[p].generation < MaxGeneration
        /\ commit_pairings(RevokeCandidate(p), result)
        /\ result # "ok" => pairings' = [pairings EXCEPT ![p].paired = FALSE]
        /\ barred' = IF result = "ok" THEN barred \cup {p} ELSE barred
        /\ UNCHANGED <<identity, process, conn, closed>>

\* Write the tombstone; whatever becomes of that, the peer is not admitted
\* any more and its connection is closed.
revoke_peer(p, io) ==
    LET result == CommitResult(RevokeCandidate(p), io)
    IN  /\ process # "down" /\ disk.revision < MaxRevision
        /\ p \in DOMAIN pairings /\ ~pairings[p].revoked
        /\ pairings[p].generation < MaxGeneration
        /\ commit_pairings(RevokeCandidate(p), result)
        /\ result # "ok" => pairings' = [pairings EXCEPT ![p].paired = FALSE]
        /\ barred' = IF result = "ok" THEN barred \cup {p} ELSE barred
        /\ CloseActive(p)
        /\ UNCHANGED <<identity, process, conn>>

-----------------------------------------------------------------------------
Connection(p) ==
    \/ try_admit(p) \/ ControlStream(p) \/ Resume(p)
    \/ \E windowOver, begun \in BOOLEAN :
          reserve_pairing_challenge(p, windowOver, begun)
    \/ Submit(p) \/ record_pairing_failure(p)
    \/ \E io \in Outcomes : mark_paired(p, io)
    \/ HandlerReturns(p) \/ DropLease(p)

Next ==
    \/ Start \/ (\E io \in Outcomes : StartStale(io))
    \/ Crash \/ BeginShutdown \/ RotateIdentity
    \/ \E p \in Peers :
          \/ Connection(p)
          \/ RevokeNothing(p) \/ \E io \in Outcomes : revoke_peer(p, io)

Spec == Init /\ [][Next]_vars

-----------------------------------------------------------------------------
(* Properties.                                                              *)

\* The type of the state, and no more records than the registry may hold.
TypeOK ==
    /\ disk.revision \in Nat /\ disk.generation \in Nat
    /\ DOMAIN disk.relations \subseteq Peers
    /\ \A p \in DOMAIN disk.relations : disk.relations[p] \in Relations
    /\ {identity, revision, generation} \subseteq Nat
    /\ process \in {"down", "up", "stopping"}
    /\ DOMAIN pairings \subseteq Peers
    /\ \A p \in DOMAIN pairings : pairings[p] \in Records
    /\ Cardinality(DOMAIN pairings) <= max_pairing_records
    /\ conn \in [Peers -> HandlerStates]
    /\ closed \subseteq Active
    /\ barred \subseteq Peers

Live(p) == p \in DOMAIN disk.relations /\ ~disk.relations[p].revoked

\* Whatever commits, failures and crashes led here, the next start does not
\* find the file corrupt.
AlwaysRestorable == Restorable

\* A peer the relay treats as paired is paired on disk, with that generation
\* and under the present identity: a crash never takes back an admission that
\* was announced to the peer.
PairedIsDurable ==
    \A p \in DOMAIN pairings :
        pairings[p].paired =>
            /\ Live(p)
            /\ disk.relations[p].generation = pairings[p].generation
            /\ disk.relations[p].identity = identity

\* A peer whose revocation was reported as committed is neither admitted nor
\* restored by a later start, until a new pairing is verified.
RevokedStaysOut == \A p \in barred : ~IsPaired(p) /\ ~Live(p)

\* A connection that serves sessions belongs to a paired peer, or the relay
\* has closed it.
SessionsNeedPairing ==
    \A p \in Peers : conn[p] \in {"known", "ready"} => IsPaired(p) \/ p \in closed

\* `try_revoke_peer' returns Ok(false) "when none existed": a peer it has no
\* record of is not paired in the very file this process committed last.
NoneExistedIsTrue ==
    \A p \in Peers :
        process # "down" /\ revision = disk.revision /\ p \notin DOMAIN pairings
        => ~Live(p)

\* mark_paired "marks a peer paired when the bounded pairing registry has
\* capacity": a peer whose code was verified by a process that is up to date
\* with the file passes the generation fence.
VerifiedPeerPasses ==
    \A p \in Peers :
        conn[p] = "verifying" /\ HasRoom(p) /\ revision = disk.revision
        => CommitResult(PairCandidate(p), "ok") = "ok"
=============================================================================
