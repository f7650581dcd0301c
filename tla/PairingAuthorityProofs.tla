----------------------- MODULE PairingAuthorityProofs -----------------------
(***************************************************************************)
(* The authority of the iroh relay.  First what the pairing authority      *)
(* keeps, for any set of peers and any limits: what is paired is durable,  *)
(* what is revoked stays out, the file can always be restored, and only    *)
(* paired peers' connections serve sessions.  Then the file store below    *)
(* it, for any number of processes, keys and epochs: its commits implement *)
(* the atomic register, what it acknowledges is durable, and no two runs   *)
(* of the relay share an epoch.                                            *)
(***************************************************************************)
EXTENDS PairingAuthority, AuthorityStore, FiniteSetTheorems, WellFoundedInduction, TLAPS

-----------------------------------------------------------------------------
(* Greatest elements *)

\* A non-empty set of naturals has a least element.
LEMMA LeastNatural ==
    ASSUME NEW T \in SUBSET Nat, T # {}
    PROVE  \E n \in T : \A m \in T : n <= m
<1>1. PICK n \in T : \A m \in T : ~(<<m, n>> \in OpToRel(<, Nat))
  BY WFMin, NatLessThanWellFounded
<1>2. \A m \in T : ~(m < n)
  BY <1>1 DEF OpToRel
<1> QED BY <1>2

\* A finite set has an element with the greatest value.
LEMMA GreatestExists ==
    ASSUME NEW S, IsFiniteSet(S), S # {}, NEW g, \A p \in S : g[p] \in Nat
    PROVE  \E p \in S : \A q \in S : g[q] <= g[p]
<1> DEFINE Topless(T) == \A p \in T : \E q \in T : ~(g[q] <= g[p])
           Bad == {n \in Nat : \E T \in SUBSET S :
                      IsFiniteSet(T) /\ T # {} /\ Cardinality(T) = n /\ Topless(T)}
<1>1. SUFFICES ASSUME Topless(S) PROVE FALSE
  OBVIOUS
<1>2. Cardinality(S) \in Bad
  BY <1>1, FS_CardinalityType
<1>3. PICK n \in Bad : \A m \in Bad : n <= m
  BY <1>2, LeastNatural
<1>4. PICK T \in SUBSET S : IsFiniteSet(T) /\ T # {} /\ Cardinality(T) = n /\ Topless(T)
  BY <1>3
<1>5. PICK p \in T : TRUE
  BY <1>4
<1>6. IsFiniteSet(T \ {p}) /\ Cardinality(T \ {p}) = n - 1
  BY <1>4, <1>5, FS_RemoveElement
<1>7. n \in Nat /\ T \ {p} \in SUBSET S
  BY <1>3
<1>8. ~(n - 1 \in Bad)
  BY <1>3, <1>7
<1>9. n - 1 \in Nat
  BY <1>6, FS_CardinalityType
<1>10. T \ {p} = {} \/ ~Topless(T \ {p})
  BY <1>6, <1>7, <1>8, <1>9
<1>11. CASE T \ {p} = {}
  <2>1. \A q \in T : g[q] <= g[p]
    BY <1>4, <1>11
  <2> QED BY <1>4, <2>1
<1>12. CASE ~Topless(T \ {p})
  <2>1. PICK m \in T \ {p} : \A q \in T \ {p} : g[q] <= g[m]
    BY <1>12
  <2>2. \A q \in T : g[q] \in Nat
    BY <1>4
  <2> QED BY <1>4, <2>1, <2>2
<1> QED BY <1>10, <1>11, <1>12
\* The greatest element is the one no other exceeds.
LEMMA MaxIs ==
    ASSUME NEW S \in SUBSET Nat, NEW m \in S, \A n \in S : n <= m
    PROVE  Max(S) = m
<1>1. Max(S) \in S /\ \A n \in S : Max(S) >= n
  BY DEF Max
<1>2. Max(S) \in Nat /\ Max(S) <= m /\ Max(S) >= m
  BY <1>1
<1> HIDE DEF Max
<1> QED BY <1>2

\* The registry is bounded by both limits.
LEMMA RecordsBound ==
    max_pairing_records \in Nat /\ max_pairing_records <= MAX_PAIRING_RECORDS
<1>1. /\ max_connections \in Nat /\ MAX_PAIRING_RECORDS \in Nat
  BY PairingAssumption
<1> DEFINE S == {max_connections, MAX_PAIRING_RECORDS}
<1>2. \E x \in S : \A y \in S : x <= y
  BY <1>1
<1>3. Min(S) \in S /\ \A y \in S : Min(S) <= y
  BY <1>2 DEF Min
<1> QED BY <1>1, <1>3 DEF max_pairing_records

-----------------------------------------------------------------------------
(* The inductive invariant *)

\* A relation map the relay may hold in memory.
GoodMap(map) ==
    /\ DOMAIN map \subseteq Peers
    /\ IsFiniteSet(DOMAIN map)
    /\ Cardinality(DOMAIN map) <= max_pairing_records
    /\ \A p \in DOMAIN map : /\ map[p] \in Records
                             /\ map[p].generation >= 1
                             /\ ~(map[p].paired /\ map[p].revoked)

\* A file the relay may have committed.
GoodFile ==
    /\ disk.revision \in Nat /\ disk.generation \in Nat
    /\ DOMAIN disk.relations \subseteq Peers
    /\ IsFiniteSet(DOMAIN disk.relations)
    /\ Cardinality(DOMAIN disk.relations) <= max_pairing_records
    /\ \A p \in DOMAIN disk.relations : /\ disk.relations[p] \in Relations
                                        /\ disk.relations[p].generation >= 1
    /\ Restorable

\* The rest of the state; a process that is down remembers nothing.
GoodState ==
    /\ {identity, revision, generation} \subseteq Nat
    /\ process \in {"down", "up", "stopping"}
    /\ conn \in [Peers -> HandlerStates]
    /\ closed \subseteq Active
    /\ barred \subseteq Peers
    /\ process = "down" => DOMAIN pairings = {} /\ \A p \in Peers : conn[p] = "none"

PairInv ==
    /\ GoodMap(pairings) /\ GoodFile /\ GoodState
    /\ PairedIsDurable /\ RevokedStaysOut /\ SessionsNeedPairing

\* The invariant is at least the properties.
LEMMA PairInvTypeOK == PairInv => TypeOK /\ AlwaysRestorable
BY DEF PairInv, GoodMap, GoodFile, GoodState, TypeOK, AlwaysRestorable

-----------------------------------------------------------------------------
(* What a commit writes *)

\* An encoded map is a file that restores.
LEMMA EncodedIsGood ==
    ASSUME NEW map, GoodMap(map), identity \in Nat
    PROVE  LET R == Encoded(map)
               G == EncodedGeneration(map)
           IN  /\ G \in Nat /\ G > 0
               /\ DOMAIN R \subseteq Peers /\ IsFiniteSet(DOMAIN R)
               /\ Cardinality(DOMAIN R) <= max_pairing_records
               /\ \A p \in DOMAIN R : R[p] \in Relations /\ R[p].generation >= 1
               /\ {R[p].generation : p \in DOMAIN R} # {} =>
                     Max({R[p].generation : p \in DOMAIN R}) = G
<1> DEFINE kept == {p \in DOMAIN map : map[p].paired \/ map[p].revoked}
           R == Encoded(map)
           gens == {R[p].generation : p \in DOMAIN R}
<1>1. /\ DOMAIN R = kept
      /\ \A p \in kept : R[p] = [generation |-> map[p].generation,
                                 revoked |-> map[p].revoked, identity |-> identity]
  BY DEF Encoded
<1>2. \A p \in kept : map[p] \in Records /\ map[p].generation >= 1
  BY DEF GoodMap
<1>3. \A p \in kept : /\ R[p] \in Relations /\ R[p].generation = map[p].generation
                      /\ R[p].generation \in Nat /\ R[p].generation >= 1
  <2> SUFFICES ASSUME NEW p \in kept
               PROVE  /\ R[p] \in Relations /\ R[p].generation = map[p].generation
                      /\ R[p].generation \in Nat /\ R[p].generation >= 1
    OBVIOUS
  <2>1. map[p].generation \in Nat /\ map[p].revoked \in BOOLEAN /\ map[p].generation >= 1
    BY <1>2 DEF Records
  <2> HIDE DEF R, kept
  <2> QED BY <1>1, <2>1 DEF Relations
<1>4. IsFiniteSet(kept) /\ Cardinality(kept) <= max_pairing_records
  <2>1. kept \in SUBSET DOMAIN map
    OBVIOUS
  <2>2. IsFiniteSet(kept) /\ Cardinality(kept) <= Cardinality(DOMAIN map)
    BY <2>1, FS_Subset DEF GoodMap
  <2>3. Cardinality(kept) \in Nat /\ Cardinality(DOMAIN map) \in Nat
    BY <2>2, FS_CardinalityType DEF GoodMap
  <2> QED BY <2>2, <2>3, RecordsBound DEF GoodMap
<1>5. kept \subseteq Peers
  BY DEF GoodMap
<1> HIDE DEF kept, R
<1>6. EncodedGeneration(map) = Max({1} \cup gens)
  BY DEF EncodedGeneration, R
<1>7. CASE kept = {}
  <2>1. gens = {} /\ {1} \cup gens = {1}
    BY <1>1, <1>7
  <2>2. Max({1}) = 1
    BY MaxIs
  <2>3. EncodedGeneration(map) = 1
    BY <1>6, <2>1, <2>2
  <2> QED BY <1>1, <1>3, <1>4, <1>5, <2>1, <2>3 DEF R
<1>8. CASE kept # {}
  <2> DEFINE g == [p \in kept |-> R[p].generation]
  <2>0. \A p \in kept : g[p] \in Nat /\ g[p] = R[p].generation
    BY <1>3
  <2> HIDE DEF g
  <2>1. PICK m \in kept : \A q \in kept : g[q] <= g[m]
    BY <1>4, <1>8, <2>0, GreatestExists
  <2>2. gens \in SUBSET Nat /\ R[m].generation \in gens
        /\ \A n \in gens : n <= R[m].generation
    BY <1>1, <1>3, <2>0, <2>1
  <2>3. R[m].generation >= 1 /\ R[m].generation \in Nat
    BY <1>3
  <2>4. Max(gens) = R[m].generation
    BY <2>2, MaxIs
  <2>5. Max({1} \cup gens) = R[m].generation
    <3>1. /\ {1} \cup gens \in SUBSET Nat
          /\ R[m].generation \in {1} \cup gens
          /\ \A n \in {1} \cup gens : n <= R[m].generation
      BY <2>2, <2>3
    <3> QED BY <3>1, MaxIs
  <2> QED BY <1>1, <1>3, <1>4, <1>5, <1>6, <2>3, <2>4, <2>5 DEF R
<1> QED BY <1>7, <1>8

\* A commit leaves the file as it was, or a good file with the map encoded.
LEMMA CommitStep ==
    ASSUME PairInv, NEW map, GoodMap(map), NEW result, commit_pairings(map, result),
           UNCHANGED identity
    PROVE  /\ GoodFile'
           /\ {revision', generation'} \subseteq Nat
           /\ result \in {"ok", "unknown"} => disk'.relations = Encoded(map)
           /\ result \notin {"ok", "unknown"} => disk' = disk
           /\ result = "ok" => pairings' = map
<1>0. identity \in Nat /\ {revision, generation} \subseteq Nat /\ disk.revision \in Nat
  BY DEF PairInv, GoodState, GoodFile
<1>1. CASE result \in {"ok", "unknown"}
  <2>1. disk' = [revision |-> disk.revision + 1,
                 generation |-> EncodedGeneration(map), relations |-> Encoded(map)]
    BY <1>1 DEF commit_pairings
  <2>2. /\ disk'.revision = disk.revision + 1
        /\ disk'.generation = EncodedGeneration(map)
        /\ disk'.relations = Encoded(map)
    BY <2>1
  <2>3. /\ EncodedGeneration(map) \in Nat /\ EncodedGeneration(map) > 0
        /\ DOMAIN disk'.relations \subseteq Peers /\ IsFiniteSet(DOMAIN disk'.relations)
        /\ Cardinality(DOMAIN disk'.relations) <= max_pairing_records
        /\ \A p \in DOMAIN disk'.relations :
              disk'.relations[p] \in Relations /\ disk'.relations[p].generation >= 1
        /\ {disk'.relations[p].generation : p \in DOMAIN disk'.relations} # {} =>
              Max({disk'.relations[p].generation : p \in DOMAIN disk'.relations})
                 = EncodedGeneration(map)
    BY <1>0, <2>2, EncodedIsGood
  <2>4. Cardinality(DOMAIN disk'.relations) \in Nat
    BY <2>3, FS_CardinalityType
  <2>5. Restorable'
    BY <2>2, <2>3, <2>4, RecordsBound, PairingAssumption DEF Restorable, Relations
  <2>6. GoodFile'
    BY <1>0, <2>2, <2>3, <2>5 DEF GoodFile
  <2> QED BY <1>0, <1>1, <2>2, <2>3, <2>6 DEF commit_pairings
<1>2. CASE result \notin {"ok", "unknown"}
  <2>1. disk' = disk /\ UNCHANGED <<revision, generation>>
    BY <1>2 DEF commit_pairings
  <2>2. GoodFile'
    BY <2>1 DEF PairInv, GoodFile, Restorable
  <2> QED BY <1>0, <1>2, <2>1, <2>2
<1> QED BY <1>1, <1>2

\* Where the encoded map is the file and everything paired in memory is so in
\* the map, what is paired is durable.
LEMMA EncodedIsDurable ==
    ASSUME NEW map, GoodMap(map), disk'.relations = Encoded(map), UNCHANGED identity,
           \A q \in DOMAIN pairings' : pairings'[q].paired =>
               /\ q \in DOMAIN map /\ map[q].paired
               /\ map[q].generation = pairings'[q].generation
    PROVE  PairedIsDurable'
<1> SUFFICES ASSUME NEW q \in DOMAIN pairings', pairings'[q].paired
             PROVE  /\ q \in DOMAIN disk'.relations /\ ~disk'.relations[q].revoked
                    /\ disk'.relations[q].generation = pairings'[q].generation
                    /\ disk'.relations[q].identity = identity
  BY DEF PairedIsDurable, Live
<1>1. q \in DOMAIN map /\ map[q].paired /\ ~map[q].revoked
  BY DEF GoodMap
<1>2. q \in DOMAIN Encoded(map)
  BY <1>1 DEF Encoded
<1>3. Encoded(map)[q] = [generation |-> map[q].generation,
                         revoked |-> map[q].revoked, identity |-> identity]
  BY <1>1 DEF Encoded
<1> QED BY <1>1, <1>2, <1>3

\* What is live on disk after a commit was paired in the map.
LEMMA LiveWasPaired ==
    ASSUME NEW map, disk'.relations = Encoded(map), NEW q, Live(q)'
    PROVE  q \in DOMAIN map /\ map[q].paired
<1>1. q \in DOMAIN Encoded(map) /\ ~Encoded(map)[q].revoked
  BY DEF Live
<1>2. q \in DOMAIN map /\ (map[q].paired \/ map[q].revoked)
  BY <1>1 DEF Encoded
<1>3. Encoded(map)[q] = [generation |-> map[q].generation,
                         revoked |-> map[q].revoked, identity |-> identity]
  BY <1>1 DEF Encoded
<1> QED BY <1>1, <1>2, <1>3
-----------------------------------------------------------------------------
(* What the handlers do to the map *)

\* A counter may always start over.
LEMMA ZeroCounts == 0 \in 0 .. MaxChallenges /\ 0 \in 0 .. MaxFailures
BY PairingAssumption

\* A record for a peer that has one, or for which there is room.
LEMMA WithIsGood ==
    ASSUME GoodMap(pairings), NEW p \in Peers, HasRoom(p), NEW r \in Records,
           r.generation >= 1, ~(r.paired /\ r.revoked)
    PROVE  /\ GoodMap(With(pairings, p, r))
           /\ DOMAIN With(pairings, p, r) = DOMAIN pairings \cup {p}
           /\ With(pairings, p, r)[p] = r
           /\ \A q \in DOMAIN pairings : q # p => With(pairings, p, r)[q] = pairings[q]
<1> DEFINE m == With(pairings, p, r)
<1>1. /\ DOMAIN m = DOMAIN pairings \cup {p} /\ m[p] = r
      /\ \A q \in DOMAIN pairings : q # p => m[q] = pairings[q]
  BY DEF With
<1> HIDE DEF m
<1>2. /\ IsFiniteSet(DOMAIN m)
      /\ Cardinality(DOMAIN m) = IF p \in DOMAIN pairings THEN Cardinality(DOMAIN pairings)
                                 ELSE Cardinality(DOMAIN pairings) + 1
  BY <1>1, FS_AddElement DEF GoodMap
<1>3. Cardinality(DOMAIN pairings) \in Nat
  BY FS_CardinalityType DEF GoodMap
<1>4. Cardinality(DOMAIN m) <= max_pairing_records
  BY <1>2, <1>3, RecordsBound DEF GoodMap, HasRoom
<1>5. GoodMap(m)
  BY <1>1, <1>2, <1>4 DEF GoodMap
<1> QED BY <1>1, <1>5 DEF m

\* A record a peer has or would be given.
LEMMA RecordOfType ==
    ASSUME GoodMap(pairings), NEW p
    PROVE  /\ RecordOf(p) \in Records /\ RecordOf(p).generation >= 1
           /\ ~(RecordOf(p).paired /\ RecordOf(p).revoked)
           /\ p \in DOMAIN pairings => RecordOf(p) = pairings[p]
           /\ p \notin DOMAIN pairings => ~RecordOf(p).paired
BY PairingAssumption DEF RecordOf, NewRecord, Records, GoodMap

\* Without a commit nobody becomes paired, so what is paired stays durable.
LEMMA MapStep ==
    ASSUME PairInv, UNCHANGED <<disk, identity>>,
           \A q \in DOMAIN pairings' : pairings'[q].paired =>
               /\ q \in DOMAIN pairings /\ pairings[q].paired
               /\ pairings[q].generation = pairings'[q].generation,
           \A q \in barred' : q \in barred
    PROVE  PairedIsDurable' /\ RevokedStaysOut' /\ GoodFile'
<1>1. PairedIsDurable'
  BY DEF PairInv, PairedIsDurable, Live
<1>2. RevokedStaysOut'
  BY DEF PairInv, RevokedStaysOut, IsPaired, Live
<1>3. GoodFile'
  BY DEF PairInv, GoodFile, Restorable
<1> QED BY <1>1, <1>2, <1>3

\* A handler that moves on, with the map as it was.
LEMMA HandlerStep ==
    ASSUME PairInv, NEW p \in Peers, process # "down" \/ conn[p] # "none",
           NEW from, NEW to \in HandlerStates \ {"none"}, Handler(p, from, to),
           UNCHANGED <<diskVars, process, memoryVars, closed, barred>>,
           to \in {"known", "ready"} => IsPaired(p) \/ p \in closed
    PROVE  PairInv'
<1>0. UNCHANGED <<disk, identity, process, pairings, revision, generation, closed, barred>>
  BY DEF diskVars, memoryVars
<1>1. conn' \in [Peers -> HandlerStates] /\ conn'[p] = to
      /\ \A q \in Peers \ {p} : conn'[q] = conn[q]
  BY DEF Handler, PairInv, GoodState
<1>2. GoodMap(pairings)'
  BY <1>0 DEF PairInv, GoodMap
<1>3. closed' \subseteq Active'
  BY <1>0, <1>1 DEF PairInv, GoodState, Active
<1>4. GoodState'
  BY <1>0, <1>1, <1>3 DEF PairInv, GoodState
<1>5. SessionsNeedPairing'
  BY <1>0, <1>1 DEF PairInv, SessionsNeedPairing, IsPaired
<1>6. PairedIsDurable' /\ RevokedStaysOut' /\ GoodFile'
  BY <1>0, MapStep
<1> QED BY <1>2, <1>4, <1>5, <1>6 DEF PairInv

\* A handler that also counts on the record of its peer.
LEMMA CountStep ==
    ASSUME PairInv, NEW p \in Peers, conn[p] # "none", HasRoom(p),
           NEW r \in Records, r.generation = RecordOf(p).generation,
           r.paired = RecordOf(p).paired, r.revoked = RecordOf(p).revoked,
           pairings' = With(pairings, p, r),
           NEW from, NEW to \in HandlerStates \ {"none", "known", "ready"},
           Handler(p, from, to),
           UNCHANGED <<diskVars, process, revision, generation, closed, barred>>
    PROVE  PairInv'
<1>0. UNCHANGED <<disk, identity, process, revision, generation, closed, barred>>
  BY DEF diskVars
<1>r. /\ RecordOf(p).generation >= 1 /\ ~(RecordOf(p).paired /\ RecordOf(p).revoked)
      /\ p \in DOMAIN pairings => RecordOf(p) = pairings[p]
      /\ p \notin DOMAIN pairings => ~RecordOf(p).paired
  BY RecordOfType DEF PairInv
<1>1. /\ GoodMap(pairings)'
      /\ DOMAIN pairings' = DOMAIN pairings \cup {p} /\ pairings'[p] = r
      /\ \A q \in DOMAIN pairings : q # p => pairings'[q] = pairings[q]
  <2>1. /\ GoodMap(With(pairings, p, r))
        /\ DOMAIN With(pairings, p, r) = DOMAIN pairings \cup {p}
        /\ With(pairings, p, r)[p] = r
        /\ \A q \in DOMAIN pairings : q # p => With(pairings, p, r)[q] = pairings[q]
    BY <1>r, WithIsGood DEF PairInv
  <2>2. GoodMap(pairings')
    BY <2>1
  <2> QED BY <2>1, <2>2 DEF GoodMap
<1>2. conn' \in [Peers -> HandlerStates] /\ conn'[p] = to
      /\ \A q \in Peers \ {p} : conn'[q] = conn[q]
  BY DEF Handler, PairInv, GoodState
<1>3. closed' \subseteq Active' /\ process # "down"
  BY <1>0, <1>2 DEF PairInv, GoodState, Active
<1>4. GoodState'
  BY <1>0, <1>2, <1>3 DEF PairInv, GoodState
<1>5. \A q \in Peers : IsPaired(q) => IsPaired(q)'
  BY <1>1, <1>r DEF IsPaired
<1>6. SessionsNeedPairing'
  BY <1>0, <1>2, <1>5 DEF PairInv, SessionsNeedPairing
<1>7. PairedIsDurable' /\ RevokedStaysOut' /\ GoodFile'
  <2>1. \A q \in DOMAIN pairings' : pairings'[q].paired =>
            /\ q \in DOMAIN pairings /\ pairings[q].paired
            /\ pairings[q].generation = pairings'[q].generation
    BY <1>1, <1>r
  <2> QED BY <1>0, <2>1, MapStep
<1> QED BY <1>1, <1>4, <1>6, <1>7 DEF PairInv

\* The steps of a handler that commit nothing.
LEMMA ConnectionStep ==
    ASSUME PairInv, NEW p \in Peers,
           \/ try_admit(p) \/ ControlStream(p) \/ Resume(p)
           \/ \E windowOver, begun \in BOOLEAN :
                 reserve_pairing_challenge(p, windowOver, begun)
           \/ Submit(p) \/ record_pairing_failure(p)
           \/ HandlerReturns(p) \/ DropLease(p)
    PROVE  PairInv'
<1>g. GoodMap(pairings)
  BY DEF PairInv
<1>1. CASE try_admit(p) \/ ControlStream(p) \/ Resume(p) \/ Submit(p) \/ HandlerReturns(p)
  <2>1. CASE try_admit(p)
    BY <2>1, HandlerStep DEF try_admit, HandlerStates
  <2>2. CASE ControlStream(p)
    BY <2>2, HandlerStep DEF ControlStream, HandlerStates, Handler
  <2>3. CASE Resume(p)
    <3>1. IsPaired(p) \/ p \in closed
      BY <2>3 DEF Resume, Handler, PairInv, SessionsNeedPairing
    <3> QED BY <2>3, <3>1, HandlerStep DEF Resume, HandlerStates, Handler
  <2>4. CASE Submit(p)
    BY <2>4, HandlerStep DEF Submit, HandlerStates, Handler
  <2>5. CASE HandlerReturns(p)
    BY <2>5, HandlerStep DEF HandlerReturns, HandlerStates, Handler
  <2> QED BY <1>1, <2>1, <2>2, <2>3, <2>4, <2>5
<1>2. ASSUME NEW windowOver \in BOOLEAN, NEW begun \in BOOLEAN,
             reserve_pairing_challenge(p, windowOver, begun)
      PROVE  PairInv'
  <2> DEFINE record == RecordOf(p)
             used == IF windowOver THEN 0 ELSE record.challenges
             r == [record EXCEPT !.challenges = used + 1, !.failures = 0]
  <2>1. record \in Records
    BY <1>g, RecordOfType
  <2>2. /\ HasRoom(p) /\ used < MaxChallenges
        /\ pairings' = With(pairings, p, r)
        /\ conn[p] = "control"
        /\ Handler(p, {"control"}, IF begun THEN "challenged" ELSE "control")
        /\ UNCHANGED <<diskVars, process, revision, generation, closed, barred>>
    BY <1>2 DEF reserve_pairing_challenge, Handler
  <2> HIDE DEF record
  <2>3. used \in Nat /\ used + 1 \in 0 .. MaxChallenges
    BY <2>1, <2>2, PairingAssumption DEF Records
  <2> HIDE DEF used
  <2>4. /\ r \in Records /\ r.generation = record.generation
        /\ r.paired = record.paired /\ r.revoked = record.revoked
    BY <2>1, <2>3, ZeroCounts DEF Records
  <2> HIDE DEF r
  <2> QED BY <2>2, <2>4, CountStep DEF record, HandlerStates
<1>3. CASE record_pairing_failure(p)
  <2> DEFINE record == RecordOf(p)
             counted == HasRoom(p) /\ record.failures < MaxFailures
             r == [record EXCEPT !.failures = @ + 1]
             to == IF /\ counted /\ record.failures + 1 < MaxFailures /\ p \notin closed
                   THEN "challenged" ELSE "ending"
  <2>1. record \in Records
    BY <1>g, RecordOfType
  <2>2. /\ conn[p] # "none"
        /\ pairings' = IF counted THEN With(pairings, p, r) ELSE pairings
        /\ Handler(p, {"challenged", "verifying"}, to)
        /\ to \in {"challenged", "ending"}
        /\ UNCHANGED <<diskVars, process, revision, generation, closed, barred>>
    BY <1>3 DEF record_pairing_failure, Handler
  <2> HIDE DEF record, to
  <2>3. CASE counted
    <3>1. /\ r \in Records /\ r.generation = record.generation
          /\ r.paired = record.paired /\ r.revoked = record.revoked
      BY <2>1, <2>3, PairingAssumption DEF Records
    <3> HIDE DEF r
    <3> QED BY <2>2, <2>3, <3>1, CountStep DEF record, HandlerStates
  <2>4. CASE ~counted
    <3> HIDE DEF counted
    <3> QED BY <2>2, <2>4, HandlerStep DEF HandlerStates, memoryVars
  <2> QED BY <2>3, <2>4
<1>4. CASE DropLease(p)
  <2>0. UNCHANGED <<disk, identity, process, revision, generation, barred>>
    BY <1>4 DEF DropLease, diskVars
  <2>1. /\ DOMAIN pairings' \subseteq DOMAIN pairings
        /\ \A q \in DOMAIN pairings' : pairings'[q] = pairings[q]
        /\ \A q \in DOMAIN pairings : pairings[q].paired => q \in DOMAIN pairings'
    BY <1>4 DEF DropLease, Without
  <2>2. /\ IsFiniteSet(DOMAIN pairings')
        /\ Cardinality(DOMAIN pairings') <= Cardinality(DOMAIN pairings)
        /\ Cardinality(DOMAIN pairings') \in Nat /\ Cardinality(DOMAIN pairings) \in Nat
    BY <1>g, <2>1, FS_Subset, FS_CardinalityType DEF GoodMap
  <2>3. GoodMap(pairings)'
    BY <1>g, <2>1, <2>2, RecordsBound DEF GoodMap
  <2>4. conn' \in [Peers -> HandlerStates] /\ conn'[p] = "none" /\ conn[p] = "ending"
        /\ \A q \in Peers \ {p} : conn'[q] = conn[q]
    BY <1>4 DEF DropLease, Handler, PairInv, GoodState, HandlerStates
  <2>5. closed' = closed \ {p} /\ closed' \subseteq Active'
    BY <1>4, <2>4 DEF DropLease, PairInv, GoodState, Active
  <2>6. GoodState'
    BY <2>0, <2>4, <2>5 DEF PairInv, GoodState
  <2>7. PairedIsDurable' /\ RevokedStaysOut' /\ GoodFile'
    BY <2>0, <2>1, MapStep
  <2>8. SessionsNeedPairing'
    BY <2>0, <2>1, <2>4, <2>5 DEF PairInv, SessionsNeedPairing, IsPaired
  <2> QED BY <2>3, <2>6, <2>7, <2>8 DEF PairInv
<1> QED BY <1>1, <1>2, <1>3, <1>4
-----------------------------------------------------------------------------
(* The steps that commit *)

\* A code was verified: whatever becomes of the commit, only a file that holds
\* the pairing makes it one in memory.
LEMMA MarkPairedStep ==
    ASSUME PairInv, NEW p \in Peers, NEW io \in Outcomes, mark_paired(p, io)
    PROVE  PairInv'
<1> DEFINE map == PairCandidate(p)
           result == IF ~HasRoom(p) THEN "capacity"
                     ELSE IF IsPaired(p) THEN "paired"
                     ELSE CommitResult(map, io)
           to == IF result \in {"ok", "paired"} /\ p \notin closed
                 THEN "ready" ELSE "ending"
<1>0. /\ commit_pairings(map, result)
      /\ result # "ok" => UNCHANGED pairings
      /\ conn[p] = "verifying" /\ conn' = [conn EXCEPT ![p] = to]
      /\ barred' = IF result \in {"ok", "unknown"} THEN barred \ {p} ELSE barred
      /\ UNCHANGED <<identity, process, closed>>
  BY DEF mark_paired, Handler
<1>1. conn' \in [Peers -> HandlerStates] /\ conn'[p] = to
      /\ \A q \in Peers \ {p} : conn'[q] = conn[q]
  BY <1>0 DEF PairInv, GoodState, HandlerStates
<1>2. closed' \subseteq Active' /\ process # "down"
  BY <1>0, <1>1 DEF PairInv, GoodState, Active
<1>3. result \in {"ok", "unknown"} => HasRoom(p) /\ ~IsPaired(p)
  OBVIOUS
<1>4. result = "paired" => IsPaired(p)
  BY DEF CommitResult, Outcomes
<1> HIDE DEF map, result, to
<1>5. CASE result \notin {"ok", "unknown"}
  <2>1. disk' = disk /\ UNCHANGED <<pairings, revision, generation, barred>>
    BY <1>0, <1>5 DEF commit_pairings
  <2>2. PairedIsDurable' /\ RevokedStaysOut' /\ GoodFile'
    BY <1>0, <2>1, MapStep
  <2>3. GoodMap(pairings)'
    BY <2>1 DEF PairInv, GoodMap
  <2>4. GoodState'
    BY <1>0, <1>1, <1>2, <2>1 DEF PairInv, GoodState
  <2>5. SessionsNeedPairing'
    BY <1>0, <1>1, <1>4, <1>5, <2>1 DEF to, PairInv, SessionsNeedPairing, IsPaired
  <2> QED BY <2>2, <2>3, <2>4, <2>5 DEF PairInv
<1>6. CASE result \in {"ok", "unknown"}
  <2> DEFINE record == RecordOf(p)
             next == IF p \in DOMAIN pairings THEN record.generation + 1
                                              ELSE generation + 1
             r == [record EXCEPT !.generation = next, !.paired = TRUE,
                                 !.revoked = FALSE, !.failures = 0]
  <2>1. record \in Records /\ generation \in Nat /\ record.generation \in Nat
    BY RecordOfType DEF PairInv, GoodState, Records
  <2> HIDE DEF record
  <2>2. next \in Nat /\ next >= 1
    BY <2>1
  <2> HIDE DEF next
  <2>3. r \in Records /\ r.generation >= 1 /\ r.paired /\ ~r.revoked
    BY <2>1, <2>2, ZeroCounts DEF Records
  <2> HIDE DEF r
  <2>4. map = With(pairings, p, r)
    BY DEF map, PairCandidate, r, next, record
  <2>5. /\ GoodMap(map) /\ DOMAIN map = DOMAIN pairings \cup {p} /\ map[p] = r
        /\ \A q \in DOMAIN pairings : q # p => map[q] = pairings[q]
    BY <1>3, <1>6, <2>3, <2>4, WithIsGood DEF PairInv
  <2>6. /\ GoodFile' /\ {revision', generation'} \subseteq Nat
        /\ disk'.relations = Encoded(map)
        /\ result = "ok" => pairings' = map
    BY <1>0, <1>6, <2>5, CommitStep
  <2>7. pairings' \in {map, pairings} /\ (result = "ok" => pairings' = map)
        /\ (result # "ok" => pairings' = pairings)
    BY <1>0, <2>6
  <2>8. GoodMap(pairings)'
    <3>1. GoodMap(pairings')
      BY <2>5, <2>7 DEF PairInv
    <3> QED BY <3>1 DEF GoodMap
  <2>9. GoodState'
    BY <1>0, <1>1, <1>2, <2>6 DEF PairInv, GoodState
  <2>10. PairedIsDurable'
    <3>1. \A q \in DOMAIN pairings' : pairings'[q].paired =>
              /\ q \in DOMAIN map /\ map[q].paired
              /\ map[q].generation = pairings'[q].generation
      BY <1>3, <1>6, <2>5, <2>7 DEF IsPaired
    <3> QED BY <1>0, <2>5, <2>6, <3>1, EncodedIsDurable
  <2>11. \A q : q # p /\ q \in DOMAIN map /\ map[q].paired => IsPaired(q)
    BY <2>5 DEF IsPaired
  <2>12. RevokedStaysOut'
    <3> SUFFICES ASSUME NEW q \in barred' PROVE ~IsPaired(q)' /\ ~Live(q)'
      BY DEF RevokedStaysOut
    <3>1. q # p /\ q \in barred /\ ~IsPaired(q)
      BY <1>0, <1>6 DEF PairInv, RevokedStaysOut
    <3>2. ~(q \in DOMAIN map /\ map[q].paired)
      BY <2>11, <3>1
    <3>3. ~Live(q)'
      BY <2>6, <3>2, LiveWasPaired
    <3>4. ~IsPaired(q)'
      BY <2>7, <3>1, <3>2 DEF IsPaired
    <3> QED BY <3>3, <3>4
  <2>13. SessionsNeedPairing'
    <3>1. \A q \in Peers : IsPaired(q) => IsPaired(q)'
      BY <1>3, <1>6, <2>5, <2>7 DEF IsPaired
    <3>2. result = "ok" => IsPaired(p)'
      BY <2>3, <2>5, <2>7 DEF IsPaired
    <3>3. conn'[p] \in {"known", "ready"} => IsPaired(p)'
      BY <1>1, <1>6, <3>2 DEF to
    <3> QED BY <1>0, <1>1, <3>1, <3>3 DEF PairInv, SessionsNeedPairing
  <2> QED BY <2>6, <2>8, <2>9, <2>10, <2>12, <2>13 DEF PairInv
<1> QED BY <1>5, <1>6

\* A connection the relay closes is one that is there.
LEMMA CloseStep ==
    ASSUME PairInv, NEW p \in Peers, CloseActive(p), UNCHANGED <<process, conn>>
    PROVE  /\ closed \subseteq closed' /\ closed' \subseteq Active'
           /\ conn[p] # "none" => p \in closed'
BY DEF PairInv, GoodState, CloseActive, Active

\* Nothing to revoke.
LEMMA RevokeNothingStep ==
    ASSUME PairInv, NEW p \in Peers, RevokeNothing(p)
    PROVE  PairInv'
<1>0. UNCHANGED <<disk, identity, process, pairings, revision, generation, conn, barred>>
      /\ CloseActive(p)
  BY DEF RevokeNothing, diskVars, memoryVars
<1>1. GoodMap(pairings)'
  BY <1>0 DEF PairInv, GoodMap
<1>2. GoodState'
  BY <1>0, CloseStep DEF PairInv, GoodState
<1>3. SessionsNeedPairing'
  BY <1>0, CloseStep DEF PairInv, SessionsNeedPairing, IsPaired
<1>4. PairedIsDurable' /\ RevokedStaysOut' /\ GoodFile'
  BY <1>0, MapStep
<1> QED BY <1>1, <1>2, <1>3, <1>4 DEF PairInv

\* A revocation: whatever becomes of the commit, the peer is out of memory.
LEMMA RevokeStep ==
    ASSUME PairInv, NEW p \in Peers, NEW io \in Outcomes, revoke_peer(p, io)
    PROVE  PairInv'
<1> DEFINE map == RevokeCandidate(p)
           result == CommitResult(map, io)
<1>0. /\ p \in DOMAIN pairings /\ process # "down"
      /\ commit_pairings(map, result)
      /\ result # "ok" => pairings' = [pairings EXCEPT ![p].paired = FALSE]
      /\ barred' = IF result = "ok" THEN barred \cup {p} ELSE barred
      /\ CloseActive(p)
      /\ UNCHANGED <<identity, process, conn>>
  BY DEF revoke_peer
<1> HIDE DEF result
<1> DEFINE r == [pairings[p] EXCEPT !.paired = FALSE, !.revoked = TRUE,
                                    !.generation = @ + 1, !.failures = 0]
           s == [pairings[p] EXCEPT !.paired = FALSE]
<1>1. GoodMap(pairings) /\ pairings[p] \in Records /\ pairings[p].generation >= 1
  BY <1>0 DEF PairInv, GoodMap
<1>2. r \in Records /\ r.generation >= 1 /\ ~r.paired /\ r.revoked
  <2>1. pairings[p].generation + 1 \in Nat /\ pairings[p].generation + 1 >= 1
    BY <1>1 DEF Records
  <2>2. r = [pairings[p] EXCEPT !.paired = FALSE, !.revoked = TRUE,
                                !.generation = pairings[p].generation + 1, !.failures = 0]
    BY <1>1 DEF Records
  <2> HIDE DEF r
  <2> QED BY <1>1, <2>1, <2>2, ZeroCounts DEF Records
<1>3. /\ s \in Records /\ s.generation >= 1 /\ ~s.paired
  BY <1>1 DEF Records
<1> DEFINE left == [pairings EXCEPT ![p].paired = FALSE]
<1>4. /\ DOMAIN map = DOMAIN pairings /\ map[p] = r
      /\ \A q \in DOMAIN pairings : q # p => map[q] = pairings[q]
  BY <1>0, <1>1 DEF RevokeCandidate, Records
<1>5. /\ DOMAIN left = DOMAIN pairings /\ left[p] = s
      /\ \A q \in DOMAIN pairings : q # p => left[q] = pairings[q]
  BY <1>0
<1> HIDE DEF map, left, r, s
<1>6. GoodMap(map) /\ GoodMap(left)
  BY <1>1, <1>2, <1>3, <1>4, <1>5 DEF GoodMap
<1>7. /\ GoodFile' /\ {revision', generation'} \subseteq Nat
      /\ result \in {"ok", "unknown"} => disk'.relations = Encoded(map)
      /\ result \notin {"ok", "unknown"} => disk' = disk
      /\ result = "ok" => pairings' = map
  BY <1>0, <1>6, CommitStep
<1>8. pairings' \in {map, left}
  BY <1>0, <1>7 DEF left
<1>9. /\ ~IsPaired(p)'
      /\ \A q : q # p => (IsPaired(q)' <=> IsPaired(q))
  BY <1>2, <1>3, <1>4, <1>5, <1>8 DEF IsPaired
<1>10. GoodMap(pairings)'
  <2>1. GoodMap(pairings')
    BY <1>6, <1>8
  <2> QED BY <2>1 DEF GoodMap
<1>11. GoodState'
  BY <1>0, <1>7, CloseStep DEF PairInv, GoodState
<1>12. SessionsNeedPairing'
  BY <1>0, <1>9, CloseStep DEF PairInv, SessionsNeedPairing
<1>13. \A q \in DOMAIN pairings' : pairings'[q].paired =>
           /\ q # p /\ q \in DOMAIN pairings /\ pairings[q].paired
           /\ pairings'[q] = pairings[q] /\ q \in DOMAIN map /\ map[q] = pairings[q]
  BY <1>2, <1>3, <1>4, <1>5, <1>8
<1>14. PairedIsDurable'
  <2>1. CASE result \in {"ok", "unknown"}
    BY <1>0, <1>6, <1>7, <1>13, <2>1, EncodedIsDurable
  <2>2. CASE result \notin {"ok", "unknown"}
    BY <1>0, <1>7, <1>13, <2>2 DEF PairInv, PairedIsDurable, Live
  <2> QED BY <2>1, <2>2
<1>15. RevokedStaysOut'
  <2> SUFFICES ASSUME NEW q \in barred' PROVE ~IsPaired(q)' /\ ~Live(q)'
    BY DEF RevokedStaysOut
  <2>1. ~IsPaired(q)'
    BY <1>0, <1>9 DEF PairInv, RevokedStaysOut
  <2>2. CASE result \in {"ok", "unknown"}
    <3>1. ~(q \in DOMAIN map /\ map[q].paired)
      BY <1>0, <1>2, <1>4 DEF PairInv, RevokedStaysOut, IsPaired
    <3> QED BY <1>7, <2>1, <2>2, <3>1, LiveWasPaired
  <2>3. CASE result \notin {"ok", "unknown"}
    <3>1. q \in barred
      BY <1>0, <2>3
    <3> QED BY <1>7, <2>1, <2>3, <3>1 DEF PairInv, RevokedStaysOut, Live
  <2> QED BY <2>2, <2>3
<1> QED BY <1>7, <1>10, <1>11, <1>12, <1>14, <1>15 DEF PairInv
-----------------------------------------------------------------------------
(* Start, stop and crash *)

\* A start that finds its own relations takes over exactly those.
LEMMA StartStep == ASSUME PairInv, Start PROVE PairInv'
<1>0. /\ ~Stale /\ process = "down" /\ process' = "up" /\ pairings' = Restored
      /\ revision' = disk.revision /\ generation' = disk.generation
      /\ UNCHANGED <<disk, identity, conn, closed, barred>>
  BY DEF Start, diskVars
<1>1. /\ DOMAIN pairings' = DOMAIN disk.relations
      /\ \A p \in DOMAIN pairings' :
            pairings'[p] = [generation |-> disk.relations[p].generation,
                            paired |-> ~disk.relations[p].revoked,
                            revoked |-> disk.relations[p].revoked,
                            challenges |-> 0, failures |-> 0]
  BY <1>0 DEF Restored
<1>2. \A p \in DOMAIN pairings' :
         /\ disk.relations[p].generation \in Nat /\ disk.relations[p].revoked \in BOOLEAN
         /\ disk.relations[p].generation >= 1
  BY <1>1 DEF PairInv, GoodFile, Relations
<1>3. \A p \in DOMAIN pairings' :
         /\ pairings'[p] \in Records
         /\ pairings'[p].generation = disk.relations[p].generation
         /\ pairings'[p].paired = ~disk.relations[p].revoked
         /\ pairings'[p].revoked = disk.relations[p].revoked
  <2> TAKE p \in DOMAIN pairings'
  <2> DEFINE d == disk.relations[p]
  <2>1. /\ d.generation \in Nat /\ d.revoked \in BOOLEAN
        /\ pairings'[p] = [generation |-> d.generation, paired |-> ~d.revoked,
                           revoked |-> d.revoked, challenges |-> 0, failures |-> 0]
    BY <1>1, <1>2
  <2> HIDE DEF d
  <2>2. /\ pairings'[p] \in Records /\ pairings'[p].generation = d.generation
        /\ pairings'[p].paired = ~d.revoked /\ pairings'[p].revoked = d.revoked
    BY <2>1, ZeroCounts DEF Records
  <2> QED BY <2>2 DEF d
<1>4. GoodMap(pairings)'
  BY <1>1, <1>2, <1>3 DEF PairInv, GoodFile, GoodMap
<1>5. GoodFile'
  BY <1>0 DEF PairInv, GoodFile, Restorable
<1>6. GoodState'
  BY <1>0 DEF PairInv, GoodState, GoodFile, Active
<1>7. PairedIsDurable'
  BY <1>0, <1>1, <1>3 DEF PairedIsDurable, Live, Stale
<1>8. RevokedStaysOut'
  BY <1>0, <1>1, <1>3 DEF PairInv, RevokedStaysOut, IsPaired, Live
<1>9. SessionsNeedPairing'
  BY <1>0 DEF PairInv, GoodState, SessionsNeedPairing
<1> QED BY <1>4, <1>5, <1>6, <1>7, <1>8, <1>9 DEF PairInv

\* A state without memory.
LEMMA NothingRemembered ==
    ASSUME GoodFile', identity' \in Nat, revision' \in Nat, generation' \in Nat,
           process' \in {"down", "up", "stopping"}, barred' \subseteq Peers,
           DOMAIN pairings' = {}, closed' = {},
           conn' = [p \in Peers |-> "none"],
           \A p \in barred' : ~Live(p)'
    PROVE  PairInv'
<1>1. GoodMap(pairings)'
  BY FS_EmptySet, RecordsBound DEF GoodMap
<1>2. GoodState'
  BY DEF GoodState, HandlerStates
<1>3. PairedIsDurable' /\ RevokedStaysOut' /\ SessionsNeedPairing'
  BY DEF PairedIsDurable, RevokedStaysOut, SessionsNeedPairing, IsPaired
<1> QED BY <1>1, <1>2, <1>3 DEF PairInv

\* A start that finds an older identity's relations empties the file first.
LEMMA StartStaleStep ==
    ASSUME PairInv, NEW io \in Outcomes, StartStale(io)
    PROVE  PairInv'
<1>0. /\ process = "down" /\ process' \in {"down", "up"}
      /\ {revision', generation'} \subseteq Nat
      /\ UNCHANGED <<identity, pairings, conn, closed, barred>>
  BY DEF StartStale, PairInv, GoodState, GoodFile
<1>1. /\ DOMAIN pairings' = {} /\ closed' = {} /\ conn' = [p \in Peers |-> "none"]
      /\ identity' \in Nat /\ barred' \subseteq Peers
  BY <1>0 DEF PairInv, GoodState, Active
<1>2. GoodFile' /\ \A p \in barred' : ~Live(p)'
  <2>1. CASE disk' = disk
    BY <1>0, <2>1 DEF PairInv, GoodFile, Restorable, RevokedStaysOut, Live
  <2>2. CASE disk' # disk
    <3>1. disk' = [revision |-> disk.revision + 1, generation |-> disk.generation + 1,
                   relations |-> << >>]
      BY <2>2 DEF StartStale
    <3>2. /\ disk'.revision = disk.revision + 1 /\ disk'.generation = disk.generation + 1
          /\ disk'.relations = << >> /\ DOMAIN disk'.relations = {}
      BY <3>1
    <3>3. disk.revision \in Nat /\ disk.generation \in Nat
      BY DEF PairInv, GoodFile
    <3>4. /\ IsFiniteSet(DOMAIN disk'.relations)
          /\ Cardinality(DOMAIN disk'.relations) = 0
      BY <3>2, FS_EmptySet
    <3>5. Restorable'
      BY <3>2, <3>3, <3>4, RecordsBound, PairingAssumption DEF Restorable
    <3>6. GoodFile'
      BY <3>2, <3>3, <3>4, <3>5, RecordsBound DEF GoodFile
    <3> QED BY <3>2, <3>6 DEF Live
  <2> QED BY <2>1, <2>2
<1> QED BY <1>0, <1>1, <1>2, NothingRemembered

\* A crash, a shutdown and a new identity.
LEMMA ProcessStep ==
    ASSUME PairInv, Crash \/ BeginShutdown \/ RotateIdentity
    PROVE  PairInv'
<1>f. UNCHANGED <<disk, barred>>
  BY DEF Crash, BeginShutdown, RotateIdentity, diskVars
<1>1. GoodFile' /\ \A p \in barred' : ~Live(p)'
  BY <1>f DEF PairInv, GoodFile, Restorable, RevokedStaysOut, Live
<1>2. identity \in Nat /\ barred \subseteq Peers
  BY DEF PairInv, GoodState
<1>3. CASE Crash
  <2>1. /\ pairings' = << >> /\ revision' = 0 /\ generation' = 0 /\ identity' = identity
        /\ conn' = [p \in Peers |-> "none"] /\ closed' = {} /\ process' = "down"
    BY <1>3 DEF Crash, NoMemory, diskVars
  <2> QED BY <1>f, <1>1, <1>2, <2>1, NothingRemembered
<1>4. CASE BeginShutdown
  <2>1. /\ process = "up" /\ process' = "stopping"
        /\ UNCHANGED <<identity, pairings, revision, generation, conn, closed>>
    BY <1>4 DEF BeginShutdown, diskVars, memoryVars
  <2>2. GoodMap(pairings)' /\ GoodState'
    BY <1>f, <2>1 DEF PairInv, GoodMap, GoodState, Active
  <2>3. PairedIsDurable' /\ RevokedStaysOut' /\ SessionsNeedPairing'
    BY <1>f, <2>1 DEF PairInv, PairedIsDurable, RevokedStaysOut, SessionsNeedPairing,
                      IsPaired, Live
  <2> QED BY <1>1, <2>2, <2>3 DEF PairInv
<1>5. CASE RotateIdentity
  <2>1. /\ process = "down" /\ identity' = identity + 1
        /\ UNCHANGED <<process, pairings, revision, generation, conn, closed>>
    BY <1>5 DEF RotateIdentity, memoryVars
  <2>2. /\ DOMAIN pairings' = {} /\ closed' = {} /\ conn' = [p \in Peers |-> "none"]
        /\ {revision, generation} \subseteq Nat
    BY <2>1 DEF PairInv, GoodState, Active
  <2> QED BY <1>f, <1>1, <1>2, <2>1, <2>2, NothingRemembered
<1> QED BY <1>3, <1>4, <1>5

-----------------------------------------------------------------------------
(* The theorems *)

\* The first start finds no file.
LEMMA InitPair == Init => PairInv
<1> SUFFICES ASSUME Init PROVE PairInv
  OBVIOUS
<1>1. /\ disk.revision = 0 /\ disk.generation = 0 /\ disk.relations = << >>
      /\ DOMAIN disk.relations = {} /\ DOMAIN pairings = {}
  BY DEF Init
<1>2. IsFiniteSet({}) /\ Cardinality({}) = 0
  BY FS_EmptySet
<1>3. Restorable
  BY <1>1, <1>2, PairingAssumption DEF Restorable
<1>4. GoodFile /\ GoodMap(pairings)
  BY <1>1, <1>2, <1>3, RecordsBound DEF GoodFile, GoodMap
<1>5. GoodState
  BY <1>1 DEF Init, GoodState, HandlerStates
<1>6. PairedIsDurable /\ RevokedStaysOut /\ SessionsNeedPairing
  BY <1>1 DEF Init, PairedIsDurable, RevokedStaysOut, SessionsNeedPairing
<1> QED BY <1>4, <1>5, <1>6 DEF PairInv

\* Every step of the process, of a handler and of the owner.
LEMMA PairStep == PairInv /\ [Next]_vars => PairInv'
<1> SUFFICES ASSUME PairInv, [Next]_vars PROVE PairInv'
  OBVIOUS
<1>1. CASE UNCHANGED vars
  <2>1. UNCHANGED <<disk, identity, process, pairings, revision, generation, conn,
                    closed, barred>>
    BY <1>1 DEF vars, diskVars, memoryVars
  <2>2. PairedIsDurable' /\ RevokedStaysOut' /\ GoodFile'
    BY <2>1, MapStep
  <2>3. GoodMap(pairings)' /\ GoodState' /\ SessionsNeedPairing'
    BY <2>1 DEF PairInv, GoodMap, GoodState, Active, SessionsNeedPairing, IsPaired
  <2> QED BY <2>2, <2>3 DEF PairInv
<1>2. CASE Start \/ (\E io \in Outcomes : StartStale(io))
  BY <1>2, StartStep, StartStaleStep
<1>3. CASE Crash \/ BeginShutdown \/ RotateIdentity
  BY <1>3, ProcessStep
<1>4. ASSUME NEW p \in Peers, Connection(p) PROVE PairInv'
  BY <1>4, ConnectionStep, MarkPairedStep DEF Connection
<1>5. ASSUME NEW p \in Peers, RevokeNothing(p) \/ \E io \in Outcomes : revoke_peer(p, io)
      PROVE  PairInv'
  BY <1>5, RevokeNothingStep, RevokeStep
<1> QED BY <1>1, <1>2, <1>3, <1>4, <1>5 DEF Next

\* The invariant of the pairing authority: memory, file and connections agree
\* through every commit outcome, crash and change of identity.
THEOREM PairingInvariant == Spec => []PairInv
BY InitPair, PairStep, PTL DEF Spec

\* The types, and the bound on the registry's records.
THEOREM PairingTypeCorrect == Spec => []TypeOK
BY PairingInvariant, PairInvTypeOK, PTL

\* No sequence of commits, failures and crashes leaves a file that
\* restore_pairing_authority refuses.
THEOREM PairingAlwaysRestorable == Spec => []AlwaysRestorable
BY PairingInvariant, PairInvTypeOK, PTL

\* A peer is paired in memory only when the file says so, for the same
\* generation and identity: commit_pairings replaces memory last.
THEOREM PairingIsDurable == Spec => []PairedIsDurable
<1>1. PairInv => PairedIsDurable
  BY DEF PairInv
<1> QED BY <1>1, PairingInvariant, PTL

\* A revocation that was reported as committed holds through crashes, starts
\* and commits of other peers, until the peer is verified again.
THEOREM PairingRevokedStaysOut == Spec => []RevokedStaysOut
<1>1. PairInv => RevokedStaysOut
  BY DEF PairInv
<1> QED BY <1>1, PairingInvariant, PTL

\* Only a paired peer's connection serves sessions, or one that revoke_peer
\* has closed already.
THEOREM PairingSessionsNeedPairing == Spec => []SessionsNeedPairing
<1>1. PairInv => SessionsNeedPairing
  BY DEF PairInv
<1> QED BY <1>1, PairingInvariant, PTL

-----------------------------------------------------------------------------
(* The file store *)

\* A commit under the lock, and a commit under way.
Held == {"locked", "written", "renamed"}
Committing == Held \cup {"acquire"}

\* The lock file of a process that commits is its own, so two never do.
LockHeld ==
    \A p \in Procs : proc[p].step \in Held => lockfile[proc[p].at] = p

\* What a commit has compared stays so until it renames, and what it renamed
\* until it is done.
Compared ==
    \A p \in Procs :
        /\ proc[p].step = "written" => file[proc[p].at].revision = proc[p].expect
        /\ proc[p].step = "renamed" => file[proc[p].at] = NextRecord(p)

\* An identity is only ever the first record; a fence counts its revisions.
Intended ==
    \A p \in Procs : proc[p].step \in Committing =>
        \/ proc[p].at = "identity" /\ proc[p].expect = 0 /\ proc[p].next \in Keys
        \/ proc[p].at = "fence" /\ proc[p].next = proc[p].expect + 1

WellFormed(g) ==
    /\ g["fence"].value = g["fence"].revision
    /\ g["identity"].revision \in {0, 1}
    /\ g["identity"].revision = 1 => g["identity"].value \in Keys

\* What a loss of power leaves is older, and an identity that has settled is
\* the one readers see.
Ordered ==
    /\ \A f \in Files : durable[f].revision <= file[f].revision
    /\ durable["identity"].revision = 1 => durable["identity"] = file["identity"]

\* A process past its identity holds the one on file.
Adopted ==
    \A p \in Procs :
        /\ proc[p].step = "running" => proc[p].at = "fence"
        /\ proc[p].at = "fence" => /\ file["identity"].revision = 1
                                   /\ file["identity"].value = proc[p].key

StoreInv ==
    /\ StoreTypeOK
    /\ LockHeld /\ Compared /\ Intended
    /\ WellFormed(file) /\ WellFormed(durable) /\ Ordered
    /\ Adopted

\* Where directories can be synchronised: acknowledged is durable, a commit
\* that was renamed is not yet acknowledged, epochs in use are acknowledged.
Settled ==
    /\ AckedIsDurable
    /\ \A p \in Procs :
          /\ proc[p].step = "renamed" => acked[proc[p].at] <= proc[p].expect
          /\ proc[p].epoch <= acked["fence"]
          /\ proc[p].step = "running" => durable["identity"].revision = 1


-----------------------------------------------------------------------------

ProcType == [step : {"off", "load", "read", "acquire", "locked", "written", "renamed",
                     "reload", "reread", "running"},
             at : Files, supplied : Keys \cup {NoKey}, expect : Nat,
             next : Keys \cup (0 .. MaxEpoch), key : Keys \cup {NoKey},
             epoch : 0 .. MaxEpoch]

\* The states a start-up goes through are states of a process.
LEMMA OffType == Off \in ProcType
BY StoreAssumption DEF Off, ProcType, Files

\* Initially everything is absent and nobody runs.
LEMMA InitStore == StoreInit => StoreInv
BY StoreAssumption, OffType
DEF StoreInit, StoreInv, StoreTypeOK, LockHeld, Compared, Intended, WellFormed, Ordered,
    Adopted, Held, Committing, Off, Files, Absent, Record, ProcType, Free

\* A step of one process that leaves the files alone: what it must make sure.
LEMMA ProcStep ==
    ASSUME StoreInv, NEW p \in Procs, NEW r \in ProcType,
           proc' = [proc EXCEPT ![p] = r],
           UNCHANGED <<file, durable>>,
           lockfile' \in [Files -> Procs \cup {Free, StaleLock}],
           acked' \in [Files -> Nat],
           \A q \in Procs \ {p} : proc[q].step \in Held =>
               lockfile'[proc[q].at] = lockfile[proc[q].at],
           r.step \in Held => lockfile'[r.at] = p,
           r.step = "written" => file[r.at].revision = r.expect,
           r.step # "renamed",
           r.step \in Committing =>
               \/ r.at = "identity" /\ r.expect = 0 /\ r.next \in Keys
               \/ r.at = "fence" /\ r.next = r.expect + 1,
           r.step = "running" => r.at = "fence",
           r.at = "fence" => /\ file["identity"].revision = 1
                             /\ file["identity"].value = r.key
    PROVE  StoreInv'
<1>1. proc' \in [Procs -> ProcType] /\ proc'[p] = r
      /\ \A q \in Procs \ {p} : proc'[q] = proc[q]
  BY DEF StoreInv, StoreTypeOK, ProcType
<1>2. StoreTypeOK'
  BY <1>1 DEF StoreInv, StoreTypeOK, ProcType
<1>3. LockHeld' /\ Compared' /\ Intended' /\ Adopted'
  BY <1>1 DEF StoreInv, LockHeld, Compared, Intended, Adopted, NextRecord
<1>4. WellFormed(file)' /\ WellFormed(durable)' /\ Ordered'
  BY DEF StoreInv, WellFormed, Ordered
<1> QED BY <1>2, <1>3, <1>4 DEF StoreInv
\* A process that ends leaves the others and the files as they were.
LEMMA StopStep ==
    ASSUME StoreInv, NEW p \in Procs, Stop(p), UNCHANGED <<file, durable>>,
           lockfile' \in [Files -> Procs \cup {Free, StaleLock}],
           acked' \in [Files -> Nat],
           \A q \in Procs \ {p} : proc[q].step \in Held =>
               lockfile'[proc[q].at] = lockfile[proc[q].at]
    PROVE  StoreInv'
BY OffType, ProcStep DEF Stop, Off, Held, Committing

\* Dropping a lock that is one's own takes nobody else's.
LEMMA DropLockKeepsOthers ==
    ASSUME StoreInv, NEW p \in Procs, proc[p].step \in Held, DropLock(proc[p].at)
    PROVE  /\ lockfile' \in [Files -> Procs \cup {Free, StaleLock}]
           /\ \A q \in Procs \ {p} : proc[q].step \in Held =>
                 lockfile'[proc[q].at] = lockfile[proc[q].at]
BY DEF StoreInv, StoreTypeOK, LockHeld, DropLock


\* Every step of a start-up, a crash and the operator keeps the invariant.
LEMMA StoreStep == StoreInv /\ [StoreNext]_storeVars => StoreInv'
<1> SUFFICES ASSUME StoreInv, [StoreNext]_storeVars PROVE StoreInv'
  OBVIOUS
<1> USE StoreAssumption
<1>t. StoreTypeOK /\ proc \in [Procs -> ProcType]
  BY DEF StoreInv, StoreTypeOK, ProcType
<1>1. CASE UNCHANGED storeVars
  BY <1>1 DEF storeVars, StoreInv, StoreTypeOK, LockHeld, Compared, Intended,
              WellFormed, Ordered, Adopted, NextRecord
<1>2. ASSUME NEW p \in Procs, NEW k \in Keys \cup {NoKey}, StartProcess(p, k)
      PROVE  StoreInv'
  <2> DEFINE r == [Off EXCEPT !.step = "load", !.supplied = k]
  <2>1. r \in ProcType /\ r.step = "load" /\ r.at = "identity"
    BY OffType DEF ProcType, Off
  <2>2. proc' = [proc EXCEPT ![p] = r]
    BY <1>2 DEF StartProcess
  <2> HIDE DEF r
  <2> QED BY <1>2, <1>t, <2>1, <2>2, ProcStep DEF StartProcess, StoreTypeOK, Held, Committing
<1>c. ASSUME NEW p \in Procs, CheckLock(p)
      PROVE  StoreInv'
  <2>1. CASE Stop(p)
    BY <1>c, <1>t, <2>1, StopStep DEF CheckLock, StoreTypeOK
  <2>2. ASSUME NEW s \in {"read", "reread"}, proc' = [proc EXCEPT ![p].step = s]
        PROVE  StoreInv'
    <3> DEFINE r == [proc[p] EXCEPT !.step = s]
    <3>1. /\ r \in ProcType /\ r.step = s /\ r.at = proc[p].at /\ r.key = proc[p].key
          /\ proc[p].step \in {"load", "reload"}
      BY <1>c, <1>t, <2>2 DEF ProcType, CheckLock
    <3>2. proc' = [proc EXCEPT ![p] = r]
      BY <2>2
    <3>3. s \notin Held \cup Committing \cup {"written", "renamed", "running"}
      BY <2>2 DEF Held, Committing
    <3>4. proc[p].at = "fence" => /\ file["identity"].revision = 1
                                  /\ file["identity"].value = proc[p].key
      BY DEF StoreInv, Adopted
    <3>5. UNCHANGED <<file, durable, lockfile, acked>>
      BY <1>c DEF CheckLock
    <3> HIDE DEF r
    <3> QED BY <1>t, <3>1, <3>2, <3>3, <3>4, <3>5, ProcStep DEF StoreTypeOK
  <2> QED BY <1>c, <2>1, <2>2 DEF CheckLock
<1>3. ASSUME NEW p \in Procs, LoadIdentity(p) \/ ReloadIdentity(p)
      PROVE  StoreInv'
  <2>1. CASE Stop(p)
    BY <1>3, <1>t, <2>1, StopStep DEF LoadIdentity, ReloadIdentity, StoreTypeOK
  <2>2. CASE Found("identity") /\ Adopt(p, KeyOf(file["identity"]))
    <3> DEFINE r == [proc[p] EXCEPT !.step = "load", !.at = "fence",
                                    !.key = file["identity"].value]
    <3>1. file["identity"].revision = 1 /\ file["identity"].value \in Keys
      BY <2>2 DEF Found, Intact, StoreInv, WellFormed
    <3>2. r \in ProcType
      BY <1>t, <3>1 DEF ProcType, Files
    <3>3. r.step = "load" /\ r.at = "fence" /\ r.key = file["identity"].value
      BY <1>t DEF ProcType
    <3>4. proc' = [proc EXCEPT ![p] = r]
      BY <2>2 DEF Adopt, KeyOf
    <3> HIDE DEF r
    <3> QED BY <1>3, <1>t, <3>1, <3>2, <3>3, <3>4, ProcStep
            DEF LoadIdentity, ReloadIdentity, StoreTypeOK, Held, Committing
  <2>3. CASE /\ LoadIdentity(p) /\ proc[p].supplied # NoKey
             /\ proc' = [proc EXCEPT ![p] = [@ EXCEPT !.step = "acquire", !.expect = 0,
                                                      !.next = proc[p].supplied]]
    <3> DEFINE r == [proc[p] EXCEPT !.step = "acquire", !.expect = 0,
                                    !.next = proc[p].supplied]
    <3>1. r \in ProcType
      BY <1>t, <2>3 DEF ProcType
    <3>2. r.step = "acquire" /\ r.at = "identity" /\ r.expect = 0 /\ r.next \in Keys
      BY <1>t, <2>3 DEF ProcType, LoadIdentity
    <3>3. proc' = [proc EXCEPT ![p] = r]
      BY <2>3
    <3> HIDE DEF r
    <3> QED BY <1>3, <1>t, <2>3, <3>1, <3>2, <3>3, ProcStep
            DEF LoadIdentity, StoreTypeOK, Held, Committing
  <2> QED BY <1>3, <2>1, <2>2, <2>3 DEF LoadIdentity, ReloadIdentity
<1>4. ASSUME NEW p \in Procs, LoadFence(p)
      PROVE  StoreInv'
  <2>1. CASE Stop(p)
    BY <1>4, <1>t, <2>1, StopStep DEF LoadFence, StoreTypeOK
  <2>2. CASE ~Stop(p)
    <3> DEFINE r == [proc[p] EXCEPT !.step = "acquire",
                                    !.expect = file["fence"].revision,
                                    !.next = file["fence"].value + 1]
    <3>1. /\ file["fence"].value = file["fence"].revision
          /\ file["fence"].revision \in Nat
          /\ file["fence"].value + 1 \in 0 .. MaxEpoch
      BY <1>4, <1>t, <2>2
      DEF LoadFence, EpochOf, StoreInv, WellFormed, StoreTypeOK, Record, Files
    <3>2. r \in ProcType
      BY <1>t, <3>1 DEF ProcType
    <3>3. /\ r.step = "acquire" /\ r.at = "fence" /\ r.next = r.expect + 1
          /\ r.key = proc[p].key
      BY <1>4, <1>t, <3>1 DEF ProcType, LoadFence
    <3>4. proc' = [proc EXCEPT ![p] = r]
      BY <1>4, <2>2 DEF LoadFence, EpochOf
    <3>5. proc[p].at = "fence"
      BY <1>4 DEF LoadFence
    <3> HIDE DEF r
    <3> QED BY <1>4, <1>t, <3>2, <3>3, <3>4, <3>5, ProcStep
            DEF LoadFence, StoreTypeOK, Held, Committing, StoreInv, Adopted
  <2> QED BY <2>1, <2>2
<1>5. ASSUME NEW p \in Procs, Acquire(p)
      PROVE  StoreInv'
  <2>1. CASE Stop(p)
    <3>1. /\ lockfile' \in [Files -> Procs \cup {Free, StaleLock}]
          /\ \A q \in Procs : proc[q].step \in Held =>
                lockfile'[proc[q].at] = lockfile[proc[q].at]
      BY <1>5, <1>t, <2>1 DEF Acquire, StoreTypeOK, StoreInv, LockHeld, ProcType, Free, StaleLock
    <3> QED BY <1>5, <1>t, <2>1, <3>1, StopStep DEF Acquire, StoreTypeOK
  <2>2. CASE ~Stop(p)
    <3> DEFINE r == [proc[p] EXCEPT !.step = "locked"]
    <3>1. /\ r \in ProcType
          /\ r.step = "locked" /\ r.at = proc[p].at /\ r.expect = proc[p].expect
          /\ r.next = proc[p].next /\ r.key = proc[p].key
      BY <1>t DEF ProcType
    <3>2. /\ proc' = [proc EXCEPT ![p] = r]
          /\ lockfile[proc[p].at] = Free
          /\ lockfile' = [lockfile EXCEPT ![proc[p].at] = p]
      BY <1>5, <2>2 DEF Acquire
    <3>3. /\ lockfile' \in [Files -> Procs \cup {Free, StaleLock}]
          /\ lockfile'[r.at] = p
          /\ \A q \in Procs \ {p} : proc[q].step \in Held =>
                lockfile'[proc[q].at] = lockfile[proc[q].at]
      BY <1>t, <3>1, <3>2 DEF StoreTypeOK, StoreInv, LockHeld, ProcType, Free
    <3>4. proc[p].step \in Committing
      BY <1>5 DEF Acquire, Committing
    <3>5. /\ \/ r.at = "identity" /\ r.expect = 0 /\ r.next \in Keys
             \/ r.at = "fence" /\ r.next = r.expect + 1
          /\ r.at = "fence" => /\ file["identity"].revision = 1
                               /\ file["identity"].value = r.key
      BY <3>1, <3>4 DEF StoreInv, Intended, Adopted
    <3> HIDE DEF r
    <3> QED BY <1>5, <1>t, <3>1, <3>2, <3>3, <3>5, ProcStep DEF Acquire, StoreTypeOK
  <2> QED BY <2>1, <2>2
<1>6. ASSUME NEW p \in Procs, Prepare(p)
      PROVE  StoreInv'
  <2>0. proc[p].step = "locked" /\ proc[p].step \in Held /\ proc[p].step \in Committing
    BY <1>6 DEF Prepare, Held, Committing
  <2>1. CASE Stop(p)
    <3>1. CASE DropLock(proc[p].at)
      BY <1>6, <1>t, <2>0, <2>1, <3>1, StopStep, DropLockKeepsOthers
      DEF Prepare, StoreTypeOK
    <3>2. CASE UNCHANGED lockfile
      BY <1>6, <1>t, <2>1, <3>2, StopStep DEF Prepare, StoreTypeOK
    <3> QED BY <1>6, <3>1, <3>2 DEF Prepare
  <2>2. CASE proc' = [proc EXCEPT ![p].step = "written"] /\ UNCHANGED lockfile
             /\ file[proc[p].at].revision = proc[p].expect
    <3> DEFINE r == [proc[p] EXCEPT !.step = "written"]
    <3>1. /\ r \in ProcType
          /\ r.step = "written" /\ r.at = proc[p].at /\ r.expect = proc[p].expect
          /\ r.next = proc[p].next /\ r.key = proc[p].key
      BY <1>t DEF ProcType
    <3>2. proc' = [proc EXCEPT ![p] = r]
      BY <2>2
    <3>3. /\ \/ r.at = "identity" /\ r.expect = 0 /\ r.next \in Keys
             \/ r.at = "fence" /\ r.next = r.expect + 1
          /\ r.at = "fence" => /\ file["identity"].revision = 1
                               /\ file["identity"].value = r.key
          /\ lockfile'[r.at] = p
          /\ file[r.at].revision = r.expect
      BY <2>0, <2>2, <3>1 DEF StoreInv, LockHeld, Intended, Adopted
    <3>4. /\ lockfile' \in [Files -> Procs \cup {Free, StaleLock}]
          /\ acked' \in [Files -> Nat]
          /\ UNCHANGED <<file, durable, lockfile>>
      BY <1>6, <1>t, <2>2 DEF Prepare, StoreTypeOK
    <3> HIDE DEF r
    <3> QED BY <3>1, <3>2, <3>3, <3>4, ProcStep
  <2>3. CASE proc' = [proc EXCEPT ![p].step = "reload"] /\ DropLock(proc[p].at)
    <3> DEFINE r == [proc[p] EXCEPT !.step = "reload"]
    <3>1. /\ r \in ProcType
          /\ r.step = "reload" /\ r.at = proc[p].at /\ r.key = proc[p].key
      BY <1>t DEF ProcType
    <3>2. proc' = [proc EXCEPT ![p] = r]
      BY <2>3
    <3> HIDE DEF r
    <3> QED BY <1>6, <1>t, <2>0, <2>3, <3>1, <3>2, ProcStep, DropLockKeepsOthers
            DEF Prepare, StoreTypeOK, StoreInv, Adopted, Held, Committing
  <2> QED BY <1>6, <2>1, <2>2, <2>3 DEF Prepare
<1>7. ASSUME NEW p \in Procs, Rename(p)
      PROVE  StoreInv'
  <2>0. /\ proc[p].step = "written" /\ proc[p].step \in Held
        /\ proc[p].step \in Committing
    BY <1>7 DEF Rename, Held, Committing
  <2>1. CASE Stop(p) /\ DropLock(proc[p].at) /\ UNCHANGED file
    BY <1>7, <1>t, <2>0, <2>1, StopStep, DropLockKeepsOthers DEF Rename, StoreTypeOK
  <2>2. CASE /\ file' = [file EXCEPT ![proc[p].at] = NextRecord(p)]
             /\ proc' = [proc EXCEPT ![p].step = "renamed"]
             /\ UNCHANGED lockfile
    <3> DEFINE r == [proc[p] EXCEPT !.step = "renamed"]
    <3>1. /\ r \in ProcType
          /\ r.step = "renamed" /\ r.at = proc[p].at /\ r.expect = proc[p].expect
          /\ r.next = proc[p].next /\ r.key = proc[p].key
      BY <1>t DEF ProcType
    <3>2. /\ proc' \in [Procs -> ProcType] /\ proc'[p] = r
          /\ \A q \in Procs \ {p} : proc'[q] = proc[q]
      BY <1>t, <2>2, <3>1
    <3>3. /\ proc[p].at \in Files /\ proc[p].expect \in Nat
          /\ file[proc[p].at].revision = proc[p].expect
          /\ proc[p].next \in Keys \cup (0 .. MaxEpoch)
          /\ lockfile[proc[p].at] = p
      BY <1>t, <2>0 DEF ProcType, StoreInv, Compared, LockHeld
    <3>4. NextRecord(p) \in Record /\ NextRecord(p).revision = proc[p].expect + 1
          /\ NextRecord(p).value = proc[p].next
      BY <3>3 DEF NextRecord, Record
    <3>5. /\ file' \in [Files -> Record] /\ file'[proc[p].at] = NextRecord(p)
          /\ \A f \in Files : f # proc[p].at => file'[f] = file[f]
      BY <1>t, <2>2, <3>3, <3>4 DEF StoreTypeOK
    <3>6. StoreTypeOK'
      BY <1>7, <1>t, <2>2, <3>2, <3>5 DEF Rename, StoreTypeOK, ProcType
    <3>7. \A q \in Procs \ {p} : proc[q].step \in Held => proc[q].at # proc[p].at
      BY <2>0 DEF StoreInv, LockHeld
    <3>8. LockHeld' /\ Intended'
      BY <2>0, <2>2, <3>1, <3>2, <3>3 DEF StoreInv, LockHeld, Intended, Held, Committing
    <3>9. Compared'
      BY <1>t, <3>1, <3>2, <3>4, <3>5, <3>7
      DEF StoreInv, Compared, NextRecord, Held, ProcType
    <3> HIDE DEF r
    <3>10. CASE proc[p].at = "identity"
      <4>1. proc[p].expect = 0 /\ proc[p].next \in Keys
        BY <2>0, <3>10 DEF StoreInv, Intended
      <4>2. file["identity"].revision = 0
        BY <3>3, <3>10, <4>1
      <4>3. WellFormed(file)'
        BY <3>4, <3>5, <3>10, <4>1 DEF StoreInv, WellFormed, Files
      <4>4. durable["identity"].revision = 0
        BY <1>t, <4>2 DEF StoreInv, Ordered, StoreTypeOK, Record, Files
      <4>5. Ordered' /\ WellFormed(durable)'
        BY <1>7, <1>t, <3>3, <3>4, <3>5, <3>10, <4>1, <4>4
        DEF Rename, StoreInv, Ordered, WellFormed, StoreTypeOK, Record, Files
      <4>6. \A q \in Procs : proc[q].at # "fence" /\ proc[q].step # "running"
        BY <4>2 DEF StoreInv, Adopted
      <4>7. Adopted'
        BY <2>0, <3>1, <3>2, <3>10, <4>6 DEF Adopted
      <4> QED BY <3>6, <3>8, <3>9, <4>3, <4>5, <4>7 DEF StoreInv
    <3>11. CASE proc[p].at = "fence"
      <4>1. proc[p].next = proc[p].expect + 1
        BY <2>0, <3>11 DEF StoreInv, Intended
      <4>2. file'["identity"] = file["identity"]
        BY <3>5, <3>11 DEF Files
      <4>3. WellFormed(file)'
        BY <3>4, <3>5, <3>11, <4>1, <4>2 DEF StoreInv, WellFormed, Files
      <4>4. Ordered' /\ WellFormed(durable)'
        BY <1>7, <1>t, <3>3, <3>4, <3>5, <3>11, <4>2
        DEF Rename, StoreInv, Ordered, WellFormed, StoreTypeOK, Record, Files
      <4>5. Adopted'
        BY <3>1, <3>2, <3>11, <4>2 DEF StoreInv, Adopted
      <4> QED BY <3>6, <3>8, <3>9, <4>3, <4>4, <4>5 DEF StoreInv
    <3> QED BY <3>3, <3>10, <3>11 DEF Files
  <2> QED BY <1>7, <2>1, <2>2 DEF Rename
<1>8. ASSUME NEW p \in Procs, SyncDirectory(p)
      PROVE  StoreInv'
  <2>0. /\ proc[p].step = "renamed" /\ proc[p].step \in Held
        /\ proc[p].step \in Committing
    BY <1>8 DEF SyncDirectory, Held, Committing
  <2>1. /\ lockfile' \in [Files -> Procs \cup {Free, StaleLock}]
        /\ \A q \in Procs \ {p} : proc[q].step \in Held =>
              lockfile'[proc[q].at] = lockfile[proc[q].at]
    BY <1>8, <2>0, DropLockKeepsOthers DEF SyncDirectory
  <2>2. CASE Stop(p) /\ UNCHANGED <<durable, acked>>
    BY <1>8, <1>t, <2>1, <2>2, StopStep DEF SyncDirectory, StoreTypeOK
  <2>3. CASE ~(Stop(p) /\ UNCHANGED <<durable, acked>>)
    <3>1. PICK r : /\ proc' = [proc EXCEPT ![p] = r]
                   /\ r = IF proc[p].at = "identity"
                            THEN [proc[p] EXCEPT !.step = "load", !.at = "fence",
                                                 !.key = proc[p].next]
                            ELSE [proc[p] EXCEPT !.step = "running",
                                                 !.epoch = proc[p].next]
      BY <1>8, <2>3 DEF SyncDirectory, Adopt
    <3>2. /\ proc[p].at \in Files /\ proc[p].expect \in Nat
          /\ file[proc[p].at].revision = proc[p].expect + 1
          /\ file[proc[p].at].value = proc[p].next
      <4>1. file[proc[p].at] = [revision |-> proc[p].expect + 1, value |-> proc[p].next]
        BY <2>0 DEF StoreInv, Compared, NextRecord
      <4> QED BY <1>t, <4>1 DEF ProcType
    <3>3. \/ proc[p].at = "identity" /\ proc[p].expect = 0 /\ proc[p].next \in Keys
          \/ proc[p].at = "fence" /\ proc[p].next = proc[p].expect + 1
      BY <2>0 DEF StoreInv, Intended
    <3> DEFINE Goes == /\ r \in ProcType /\ r.step \in {"load", "running"} /\ r.at = "fence"
                       /\ file["identity"].revision = 1 /\ file["identity"].value = r.key
    <3>4. ASSUME proc[p].at = "identity" PROVE Goes
      <4>1. /\ r \in ProcType /\ r.step = "load" /\ r.at = "fence"
            /\ r.key = proc[p].next
        BY <1>t, <3>1, <3>3, <3>4 DEF ProcType, Files
      <4>2. file["identity"].revision = 1 /\ file["identity"].value = r.key
        BY <3>2, <3>3, <3>4, <4>1
      <4> QED BY <4>1, <4>2
    <3>5. ASSUME proc[p].at = "fence" PROVE Goes
      <4>1. proc[p].next \in 0 .. MaxEpoch
        BY <1>t, <3>2, <3>3, <3>5 DEF ProcType
      <4>2. /\ r \in ProcType /\ r.step = "running" /\ r.at = "fence"
            /\ r.key = proc[p].key
        BY <1>t, <3>1, <3>5, <4>1 DEF ProcType, Files
      <4>3. file["identity"].revision = 1 /\ file["identity"].value = r.key
        BY <3>5, <4>2 DEF StoreInv, Adopted
      <4> QED BY <4>2, <4>3
    <3>6. Goes
      BY <3>2, <3>4, <3>5 DEF Files
    <3>7. acked' \in [Files -> Nat] /\ durable' \in {durable, file} /\ UNCHANGED file
      BY <1>8, <1>t, <3>2 DEF SyncDirectory, StoreTypeOK
    <3>8. /\ proc' \in [Procs -> ProcType] /\ proc'[p] = r
          /\ \A q \in Procs \ {p} : proc'[q] = proc[q]
      BY <1>t, <3>1, <3>6
    <3>9. StoreTypeOK'
      BY <1>t, <2>1, <3>7, <3>8 DEF StoreTypeOK, ProcType
    <3>10. LockHeld' /\ Compared' /\ Intended' /\ Adopted'
      BY <2>1, <3>6, <3>7, <3>8
      DEF StoreInv, LockHeld, Compared, Intended, Adopted, NextRecord, Held, Committing
    <3>11. WellFormed(file)' /\ WellFormed(durable)' /\ Ordered'
      BY <1>t, <3>7 DEF StoreInv, WellFormed, Ordered, StoreTypeOK, Record
    <3> QED BY <3>9, <3>10, <3>11 DEF StoreInv
  <2> QED BY <2>2, <2>3
<1>9. ASSUME NEW p \in Procs, ProcessCrash(p)
      PROVE  StoreInv'
  <2>1. /\ lockfile' \in [Files -> Procs \cup {Free, StaleLock}]
        /\ \A q \in Procs \ {p} : proc[q].step \in Held =>
              lockfile'[proc[q].at] = lockfile[proc[q].at]
    BY <1>9, <1>t DEF ProcessCrash, StoreTypeOK, StoreInv, LockHeld, ProcType
  <2> QED BY <1>9, <1>t, <2>1, StopStep DEF ProcessCrash, StoreTypeOK
<1>10. CASE PowerLoss
  <2>1. /\ file' \in [Files -> Record] /\ durable' = file'
        /\ \A f \in Files : file'[f] \in {file[f], durable[f]}
    BY <1>10, <1>t DEF PowerLoss, StoreTypeOK
  <2>2. /\ proc' \in [Procs -> ProcType]
        /\ \A p \in Procs : proc'[p] = Off
    BY <1>10, OffType DEF PowerLoss
  <2>3. StoreTypeOK'
    BY <1>10, <1>t, <2>1, <2>2 DEF PowerLoss, StoreTypeOK, ProcType
  <2>4. LockHeld' /\ Compared' /\ Intended' /\ Adopted'
    BY <2>2 DEF LockHeld, Compared, Intended, Adopted, Held, Committing, Off
  <2>5. WellFormed(file)' /\ WellFormed(durable)' /\ Ordered'
    BY <1>t, <2>1 DEF StoreInv, WellFormed, Ordered, StoreTypeOK, Record, Files
  <2> QED BY <2>3, <2>4, <2>5 DEF StoreInv
<1>11. ASSUME NEW f \in Files, RemoveStaleLock(f)
       PROVE  StoreInv'
  <2>1. /\ lockfile' \in [Files -> Procs \cup {Free, StaleLock}]
        /\ \A q \in Procs : proc[q].step \in Held =>
              lockfile'[proc[q].at] = lockfile[proc[q].at]
    BY <1>11, <1>t DEF RemoveStaleLock, StoreTypeOK, StoreInv, LockHeld, ProcType, StaleLock
  <2>2. StoreTypeOK' /\ LockHeld'
    BY <1>11, <1>t, <2>1 DEF RemoveStaleLock, StoreTypeOK, StoreInv, LockHeld
  <2> QED BY <1>11, <2>2 DEF RemoveStaleLock, StoreInv, Compared, Intended,
                             WellFormed, Ordered, Adopted, NextRecord
<1> QED
  BY <1>1, <1>2, <1>c, <1>3, <1>4, <1>5, <1>6, <1>7, <1>8, <1>9, <1>10, <1>11 DEF StoreNext

\* The lock, the comparison and the rename together keep every commit in its
\* order, whatever fails in between and whoever else starts (the invariant of
\* commit and of the two start-up functions).
THEOREM StoreInvariant == StoreSpec => []StoreInv
BY InitStore, StoreStep, PTL DEF StoreSpec

-----------------------------------------------------------------------------
(* What is acknowledged is durable *)

\* A process goes on without renaming, and without a new epoch.
Quiet ==
    \A q \in Procs : \/ proc'[q] = proc[q]
                     \/ /\ proc'[q].step \notin {"renamed", "running"}
                        /\ proc'[q].epoch \in {0, proc[q].epoch}

\* Only the rename and the synchronisation bring a process that far.
LEMMA OthersAreQuiet ==
    ASSUME StoreInv, NEW p \in Procs, NEW k \in Keys \cup {NoKey},
           \/ StartProcess(p, k) \/ LoadIdentity(p) \/ ReloadIdentity(p) \/ LoadFence(p)
           \/ CheckLock(p) \/ Acquire(p) \/ Prepare(p) \/ ProcessCrash(p)
    PROVE  Quiet /\ UNCHANGED <<file, durable, acked>>
<1>t. proc \in [Procs -> ProcType]
  BY DEF StoreInv, StoreTypeOK, ProcType
<1>0. UNCHANGED <<file, durable, acked>>
  BY DEF StartProcess, CheckLock, LoadIdentity, ReloadIdentity, LoadFence, Acquire, Prepare,
         ProcessCrash
<1>1. ASSUME NEW r, proc' = [proc EXCEPT ![p] = r],
             r.step \notin {"renamed", "running"}, r.epoch \in {0, proc[p].epoch}
      PROVE  Quiet
  BY <1>t, <1>1 DEF Quiet
<1>2. ASSUME Stop(p) PROVE Quiet
  BY <1>1, <1>2 DEF Stop, Off
<1>3. ASSUME NEW x, Adopt(p, x) PROVE Quiet
  <2> DEFINE r == [proc[p] EXCEPT !.step = "load", !.at = "fence", !.key = x]
  <2>1. r.step = "load" /\ r.epoch = proc[p].epoch
    BY <1>t DEF ProcType
  <2>2. proc' = [proc EXCEPT ![p] = r]
    BY <1>3 DEF Adopt
  <2> HIDE DEF r
  <2> QED BY <1>1, <2>1, <2>2
<1>4. CASE StartProcess(p, k)
  <2> DEFINE r == [Off EXCEPT !.step = "load", !.supplied = k]
  <2>1. r.step = "load" /\ r.epoch = 0
    BY DEF Off
  <2>2. proc' = [proc EXCEPT ![p] = r]
    BY <1>4 DEF StartProcess
  <2> HIDE DEF r
  <2> QED BY <1>0, <1>1, <2>1, <2>2
<1>5. CASE LoadIdentity(p) \/ ReloadIdentity(p) \/ LoadFence(p)
  <2>1. ASSUME NEW e, NEW n,
               proc' = [proc EXCEPT ![p] = [@ EXCEPT !.step = "acquire", !.expect = e,
                                                     !.next = n]]
        PROVE  Quiet
    <3> DEFINE r == [proc[p] EXCEPT !.step = "acquire", !.expect = e, !.next = n]
    <3>1. r.step = "acquire" /\ r.epoch = proc[p].epoch
      BY <1>t DEF ProcType
    <3>2. proc' = [proc EXCEPT ![p] = r]
      BY <2>1
    <3> HIDE DEF r
    <3> QED BY <1>1, <3>1, <3>2
  <2> QED BY <1>0, <1>2, <1>3, <1>5, <2>1 DEF LoadIdentity, ReloadIdentity, LoadFence
<1>6. CASE CheckLock(p) \/ Acquire(p) \/ Prepare(p)
  <2>1. ASSUME NEW s \in {"read", "reread", "locked", "written", "reload"},
               proc' = [proc EXCEPT ![p].step = s]
        PROVE  Quiet
    <3> DEFINE r == [proc[p] EXCEPT !.step = s]
    <3>1. r.step = s /\ r.epoch = proc[p].epoch
      BY <1>t DEF ProcType
    <3>2. proc' = [proc EXCEPT ![p] = r]
      BY <2>1
    <3> HIDE DEF r
    <3> QED BY <1>1, <2>1, <3>1, <3>2
  <2> QED BY <1>0, <1>2, <1>6, <2>1 DEF CheckLock, Acquire, Prepare
<1>7. CASE ProcessCrash(p)
  BY <1>0, <1>2, <1>7 DEF ProcessCrash
<1> QED BY <1>4, <1>5, <1>6, <1>7

\* A quiet step settles nothing and unsettles nothing.
LEMMA QuietKeepsSettled ==
    ASSUME StoreInv, Settled, Quiet, UNCHANGED <<durable, acked>>
    PROVE  Settled'
BY DEF Settled, Quiet, AckedIsDurable, StoreInv, StoreTypeOK, Files

\* Initially nothing was acknowledged.
LEMMA InitSettled == StoreInit => Settled
BY DEF StoreInit, Settled, AckedIsDurable, Off, Files, Absent

\* A rename is of a revision above everything acknowledged.
LEMMA RenameSettled ==
    ASSUME StoreInv, Settled, NEW p \in Procs, Rename(p)
    PROVE  Settled' /\ (Quiet \/ proc'[p].epoch = proc[p].epoch)
<1>t. proc \in [Procs -> ProcType]
  BY DEF StoreInv, StoreTypeOK, ProcType
<1>0. UNCHANGED <<durable, acked>>
  BY DEF Rename
<1>1. CASE Stop(p)
  <2>1. Quiet
    BY <1>1, <1>t DEF Stop, Quiet, Off
  <2> QED BY <1>0, <2>1, QuietKeepsSettled
<1>2. CASE ~Stop(p)
  <2> DEFINE r == [proc[p] EXCEPT !.step = "renamed"]
  <2>1. /\ r.step = "renamed" /\ r.at = proc[p].at /\ r.expect = proc[p].expect
        /\ r.epoch = proc[p].epoch
    BY <1>t DEF ProcType
  <2>2. proc' = [proc EXCEPT ![p] = r]
    BY <1>2 DEF Rename
  <2> HIDE DEF r
  <2>3. proc'[p] = r /\ \A q \in Procs \ {p} : proc'[q] = proc[q]
    BY <1>t, <2>2
  <2>4. /\ proc[p].at \in Files /\ proc[p].expect \in Nat
        /\ file[proc[p].at].revision = proc[p].expect
    BY <1>t DEF Rename, StoreInv, Compared, ProcType
  <2>5. acked[proc[p].at] <= proc[p].expect
    BY <2>4 DEF StoreInv, StoreTypeOK, Record, Ordered, Settled, AckedIsDurable
  <2>6. Settled'
    BY <1>0, <2>1, <2>3, <2>5 DEF Settled, AckedIsDurable
  <2> QED BY <2>1, <2>3, <2>6
<1> QED BY <1>1, <1>2

\* The synchronisation settles both records, and only then acknowledges.
LEMMA SyncSettled ==
    ASSUME SyncSupported, StoreInv, Settled, NEW p \in Procs, SyncDirectory(p)
    PROVE  /\ Settled'
           /\ proc'[p].epoch > proc[p].epoch =>
                /\ proc'[p].epoch > acked["fence"]
                /\ \A q \in Procs : proc'[p].epoch > proc[q].epoch
           /\ \A q \in Procs \ {p} : proc'[q] = proc[q]
<1>t. StoreTypeOK /\ proc \in [Procs -> ProcType]
  BY DEF StoreInv, StoreTypeOK, ProcType
<1> DEFINE f == proc[p].at
<1>0. f \in Files /\ proc[p].expect \in Nat /\ proc[p].step = "renamed"
  BY <1>t DEF ProcType, SyncDirectory
<1>1. CASE Stop(p) /\ UNCHANGED <<durable, acked>>
  <2>1. Quiet /\ proc'[p] = Off /\ \A q \in Procs \ {p} : proc'[q] = proc[q]
    BY <1>1, <1>t DEF Stop, Quiet, Off
  <2>2. proc[p].epoch \in Nat /\ proc'[p].epoch = 0
    BY <1>t, <2>1 DEF ProcType, Off
  <2> QED BY <1>1, <2>1, <2>2, QuietKeepsSettled
<1>2. CASE ~(Stop(p) /\ UNCHANGED <<durable, acked>>)
  <2>1. /\ durable' = file /\ UNCHANGED file
        /\ acked' = [acked EXCEPT ![f] = proc[p].expect + 1]
    BY <1>2 DEF SyncDirectory
  <2>2. PICK r : /\ proc' = [proc EXCEPT ![p] = r]
                 /\ r = IF f = "identity"
                          THEN [proc[p] EXCEPT !.step = "load", !.at = "fence",
                                               !.key = proc[p].next]
                          ELSE [proc[p] EXCEPT !.step = "running",
                                               !.epoch = proc[p].next]
    BY <1>2 DEF SyncDirectory, Adopt
  <2>3. proc'[p] = r /\ \A q \in Procs \ {p} : proc'[q] = proc[q]
    BY <1>t, <2>2
  <2>4. /\ f = "identity" => r.step = "load" /\ r.epoch = proc[p].epoch
        /\ f = "fence" => r.step = "running" /\ r.epoch = proc[p].next
    BY <1>t, <2>2 DEF ProcType
  <2>5. file[f].revision = proc[p].expect + 1
    <3>1. file[f] = [revision |-> proc[p].expect + 1, value |-> proc[p].next]
      BY <1>0 DEF StoreInv, Compared, NextRecord
    <3> QED BY <3>1
  <2>6. /\ acked' \in [Files -> Nat] /\ acked'[f] = proc[p].expect + 1
        /\ acked[f] <= proc[p].expect /\ acked[f] \in Nat
        /\ \A g \in Files : g # f => acked'[g] = acked[g]
    BY <1>0, <1>t, <2>1 DEF Settled, StoreTypeOK
  <2>7. \A g \in Files : acked'[g] >= acked[g] /\ acked[g] \in Nat
    BY <1>0, <1>t, <2>6 DEF StoreTypeOK
  <2>8. AckedIsDurable'
    <3> SUFFICES ASSUME NEW g \in Files PROVE file[g].revision >= acked'[g]
      BY <2>1 DEF AckedIsDurable
    <3>1. file[g].revision \in Nat /\ durable[g].revision \in Nat
      BY <1>t DEF StoreTypeOK, Record
    <3>2. durable[g].revision >= acked[g] /\ durable[g].revision <= file[g].revision
      BY DEF Settled, AckedIsDurable, StoreInv, Ordered
    <3> QED BY <1>0, <2>5, <2>6, <2>7, <3>1, <3>2
  <2>9. \A q \in Procs : proc[q].epoch \in Nat /\ proc[q].epoch <= acked["fence"]
    BY <1>t DEF Settled, ProcType
  <2>10. f = "fence" => proc[p].next = proc[p].expect + 1
    BY <1>0 DEF StoreInv, Intended, Committing, Held
  <2>11. \A q \in Procs : proc'[q].epoch <= acked'["fence"]
    BY <1>0, <2>3, <2>4, <2>6, <2>7, <2>9, <2>10 DEF Files
  <2>12. \A q \in Procs \ {p} : proc[q].step = "renamed" => proc[q].at # f
    BY <1>0 DEF StoreInv, LockHeld, Held
  <2>13. \A q \in Procs : proc'[q].step = "renamed" =>
             acked'[proc'[q].at] <= proc'[q].expect
    <3> SUFFICES ASSUME NEW q \in Procs, proc'[q].step = "renamed"
                 PROVE  acked'[proc'[q].at] <= proc'[q].expect
      OBVIOUS
    <3>1. q # p
      BY <1>0, <2>3, <2>4 DEF Files
    <3>2. proc[q].step = "renamed" /\ proc'[q] = proc[q] /\ proc[q].at \in Files
      BY <1>t, <2>3, <3>1 DEF ProcType
    <3> QED BY <2>6, <2>12, <3>1, <3>2 DEF Settled
  <2>14. \A q \in Procs : proc'[q].step = "running" => file["identity"].revision = 1
    <3>1. f = "fence" => file["identity"].revision = 1
      BY DEF StoreInv, Adopted
    <3>2. \A q \in Procs : proc[q].step = "running" => file["identity"].revision = 1
      BY DEF StoreInv, Adopted
    <3> QED BY <1>0, <2>3, <2>4, <3>1, <3>2 DEF Files
  <2>15. Settled'
    BY <2>1, <2>8, <2>11, <2>13, <2>14 DEF Settled
  <2>16. proc'[p].epoch > proc[p].epoch =>
           /\ proc'[p].epoch > acked["fence"]
           /\ \A q \in Procs : proc'[p].epoch > proc[q].epoch
    BY <1>0, <2>3, <2>4, <2>6, <2>9, <2>10 DEF Files
  <2> QED BY <2>3, <2>15, <2>16
<1> QED BY <1>1, <1>2

\* A loss of power leaves at least what had settled.
LEMMA PowerLossSettled == ASSUME StoreInv, Settled, PowerLoss PROVE Settled'
<1>1. \A f \in Files : file'[f] \in {file[f], durable[f]}
  BY DEF PowerLoss
<1>2. /\ durable' = file' /\ UNCHANGED acked
      /\ \A p \in Procs : proc'[p] = Off
  BY DEF PowerLoss
<1>3. AckedIsDurable'
  BY <1>1, <1>2 DEF Settled, AckedIsDurable, StoreInv, StoreTypeOK, Record, Ordered
<1> QED BY <1>2, <1>3 DEF Settled, Off, StoreInv, StoreTypeOK, Files

\* An epoch only ever rises when the fence's commit is acknowledged, and then
\* above all that was.
FreshStep ==
    \A p \in Procs : proc'[p].epoch > proc[p].epoch =>
        /\ proc'[p].epoch > acked["fence"]
        /\ \A q \in Procs : proc'[p].epoch > proc[q].epoch

\* Every step keeps what is acknowledged settled, and every new epoch new.
LEMMA SettledStep ==
    ASSUME SyncSupported, StoreInv, Settled, [StoreNext]_storeVars
    PROVE  Settled' /\ FreshStep
<1>t. StoreTypeOK /\ proc \in [Procs -> ProcType]
  BY DEF StoreInv, StoreTypeOK, ProcType
<1>e. \A q \in Procs : proc[q].epoch \in Nat
  BY <1>t DEF ProcType
<1>q. ASSUME Quiet PROVE FreshStep
  BY <1>e, <1>q DEF Quiet, FreshStep
<1>1. CASE UNCHANGED storeVars
  <2>1. Quiet /\ UNCHANGED <<durable, acked>>
    BY <1>1 DEF storeVars, Quiet
  <2> QED BY <1>q, <2>1, QuietKeepsSettled
<1>2. ASSUME NEW p \in Procs, NEW k \in Keys \cup {NoKey},
             \/ StartProcess(p, k) \/ LoadIdentity(p) \/ ReloadIdentity(p) \/ LoadFence(p)
             \/ CheckLock(p) \/ Acquire(p) \/ Prepare(p) \/ ProcessCrash(p)
      PROVE  Settled' /\ FreshStep
  BY <1>q, <1>2, OthersAreQuiet, QuietKeepsSettled
<1>3. ASSUME NEW p \in Procs, Rename(p) PROVE Settled' /\ FreshStep
  <2>1. \A q \in Procs \ {p} : proc'[q] = proc[q]
    BY <1>t, <1>3 DEF Rename, Stop
  <2> QED BY <1>e, <1>q, <1>3, <2>1, RenameSettled DEF FreshStep
<1>4. ASSUME NEW p \in Procs, SyncDirectory(p) PROVE Settled' /\ FreshStep
  BY <1>e, <1>4, SyncSettled DEF FreshStep
<1>5. CASE PowerLoss
  <2>1. FreshStep
    BY <1>e, <1>5 DEF PowerLoss, FreshStep, Off
  <2> QED BY <1>5, <2>1, PowerLossSettled
<1>6. ASSUME NEW f \in Files, RemoveStaleLock(f) PROVE Settled' /\ FreshStep
  <2>1. Quiet /\ UNCHANGED <<durable, acked>>
    BY <1>6 DEF RemoveStaleLock, Quiet
  <2> QED BY <1>q, <2>1, QuietKeepsSettled
<1> QED BY <1>1, <1>2, <1>3, <1>4, <1>5, <1>6 DEF StoreNext

\* A process that serves does so under what is durable.
LEMMA SettledIsDurable == StoreInv /\ Settled => DurableInv
<1> SUFFICES ASSUME StoreInv, Settled PROVE ServesDurableIdentity
  BY DEF StoreInv, Settled, DurableInv
<1> SUFFICES ASSUME NEW p \in Procs, proc[p].step = "running"
             PROVE  durable["identity"].value = proc[p].key
  BY DEF ServesDurableIdentity
<1> QED BY DEF StoreInv, Settled, Ordered, Adopted

\* Where the platform can synchronise a directory, whatever a commit answered
\* Ok for is what a later start finds, and a serving relay's identity is
\* already durable, for any number of processes and any crashes.
THEOREM StoreDurable == ASSUME SyncSupported PROVE StoreSpec => []DurableInv
<1>1. StoreInit => StoreInv /\ Settled
  BY InitStore, InitSettled
<1>2. (StoreInv /\ Settled) /\ [StoreNext]_storeVars => (StoreInv /\ Settled)'
  BY StoreStep, SettledStep
<1>3. StoreInv /\ Settled => DurableInv
  BY SettledIsDurable
<1> QED BY <1>1, <1>2, <1>3, PTL DEF StoreSpec

\* No two runs of the relay hold the same epoch: an installed fence is above
\* every one that was installed before, across crashes and losses of power.
THEOREM StoreEpochIsFresh == ASSUME SyncSupported PROVE StoreSpec => EpochIsFresh
<1>1. StoreInit => StoreInv /\ Settled
  BY InitStore, InitSettled
<1>2. (StoreInv /\ Settled) /\ [StoreNext]_storeVars => (StoreInv /\ Settled)'
  BY StoreStep, SettledStep
<1>3. (StoreInv /\ Settled) /\ [StoreNext]_storeVars => [FreshStep]_storeVars
  BY SettledStep
<1>4. StoreSpec => [][FreshStep]_storeVars
  BY <1>1, <1>2, <1>3, PTL DEF StoreSpec
<1> QED BY <1>4 DEF EpochIsFresh, FreshStep

-----------------------------------------------------------------------------
(* The commit is atomic *)

\* Every step is one of the register, or none: the rename replaces, the
\* synchronisation settles, a loss of power takes back, and nothing else shows.
LEMMA RegisterStep ==
    ASSUME StoreInv, [StoreNext]_storeVars
    PROVE  [Register!RNext]_(Register!rvars)
<1>t. StoreTypeOK /\ proc \in [Procs -> ProcType]
  BY DEF StoreInv, StoreTypeOK, ProcType
<1>1. CASE UNCHANGED <<file, durable>>
  BY <1>1 DEF Register!rvars
<1>2. ASSUME NEW p \in Procs, Rename(p), ~UNCHANGED <<file, durable>>
      PROVE  Register!RNext
  <2>1. /\ proc[p].at \in Files
        /\ file[proc[p].at].revision = proc[p].expect
        /\ proc[p].next \in Keys \cup (0 .. MaxEpoch)
    BY <1>t, <1>2 DEF Rename, StoreInv, Compared, ProcType
  <2>2. /\ file' = [file EXCEPT ![proc[p].at] =
                      [revision |-> file[proc[p].at].revision + 1, value |-> proc[p].next]]
        /\ UNCHANGED durable
    BY <1>2, <2>1 DEF Rename, NextRecord
  <2>3. Register!Replace(proc[p].at)
    BY <2>1, <2>2 DEF Register!Replace
  <2> QED BY <2>1, <2>3 DEF Register!RNext
<1>3. ASSUME NEW p \in Procs, SyncDirectory(p), ~UNCHANGED <<file, durable>>
      PROVE  Register!RNext
  <2>1. durable' = file /\ UNCHANGED file
    BY <1>3 DEF SyncDirectory
  <2> QED BY <2>1 DEF Register!RNext, Register!Settle
<1>4. ASSUME PowerLoss PROVE Register!RNext
  <2>1. file' \in [Files -> Record]
    BY <1>4, <1>t DEF PowerLoss, StoreTypeOK
  <2> QED BY <1>4, <2>1 DEF PowerLoss, Register!RNext, Register!LosePower,
                            Register!Records, Record
<1> QED
  <2>1. ASSUME NEW p \in Procs, NEW k \in Keys \cup {NoKey},
               \/ StartProcess(p, k) \/ LoadIdentity(p) \/ ReloadIdentity(p) \/ LoadFence(p)
               \/ CheckLock(p) \/ Acquire(p) \/ Prepare(p) \/ ProcessCrash(p)
        PROVE  UNCHANGED <<file, durable>>
    BY <2>1, OthersAreQuiet
  <2>2. ASSUME NEW f \in Files, RemoveStaleLock(f) PROVE UNCHANGED <<file, durable>>
    BY <2>2 DEF RemoveStaleLock
  <2>3. UNCHANGED storeVars => UNCHANGED <<file, durable>>
    BY DEF storeVars
  <2> QED BY <1>1, <1>2, <1>3, <1>4, <2>1, <2>2, <2>3 DEF StoreNext

\* The lock file, the comparison, the temporary file, the rename and the
\* synchronisation together are an atomic compare and commit of one record,
\* under every interleaving and every failure between them.
THEOREM StoreCommitIsAtomic == StoreSpec => CommitIsAtomic
<1>1. StoreInit => Register!RInit
  BY DEF StoreInit, Register!RInit
<1>2. StoreSpec => [](StoreInv)
  BY StoreInvariant
<1>3. StoreInv /\ [StoreNext]_storeVars => [Register!RNext]_(Register!rvars)
  BY RegisterStep
<1> QED BY <1>1, <1>2, <1>3, PTL DEF StoreSpec, CommitIsAtomic, Register!RSpec
=============================================================================
