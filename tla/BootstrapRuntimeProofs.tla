----------------------- MODULE BootstrapRuntimeProofs -----------------------
(***************************************************************************)
(* The invariants of the bootstrap runtime, for every number of callers,   *)
(* peers and ids and every choice of lifetimes and limits.                 *)
(*                                                                         *)
(* The mutex makes one caller at a time the holder; between the steps of   *)
(* its call the records, the session mark and the workspaces agree in the  *)
(* way `CallOk' says for the step it has come to.  What is written is a    *)
(* projection of the memory, and a record evolves in few ways (`Evolves'): *)
(* one that is confirmed never does.                                       *)
(***************************************************************************)
EXTENDS BootstrapRuntime, FiniteSetTheorems, TLAPS

Caller == [pc : {"idle", "wait", "reap", "create", "rollback", "close", "abort", "deliver"},
           kind : Kinds \cup {"none"}, at : 0 .. MaxTime,
           who : Peers \cup (0 .. MaxIds), id : 0 .. MaxIds,
           right : BOOLEAN, all : SUBSET Ids, todo : SUBSET Ids, reaped : BOOLEAN]

Few(h) == IsFiniteSet(h) /\ Cardinality(h) <= MaxPeerStarts

\* The types of TypeOK; finiteness gives the bound on the starts its meaning.
Types ==
    /\ now \in 0 .. MaxTime /\ minted \in 0 .. MaxIds /\ boots \in 0 .. MaxBoots
    /\ active \in BOOLEAN
    /\ mem \in [Ids -> Rec] /\ file \in [Ids -> Rec]
    /\ orphans \subseteq Ids /\ open \subseteq Ids /\ confirmedOk \subseteq Ids
    /\ starts \in [Peers -> SUBSET (Ids \X (0 .. MaxTime))]
    /\ \A p \in Peers : Few(starts[p])
    /\ call \in [Callers -> Caller]
    /\ certified \in [Ids -> Nat]

OneHolder == \A c, d \in Callers : Holds(c) /\ Holds(d) => c = d

\* The session is marked exactly while there is a challenge, also inside a call.
Exclusive == (active <=> Live # {}) /\ \A i, j \in Live : i = j

\* A record that the state file may hold.
Sound(r) == ValidRecord(r) /\ (r.confirmed => r.kind = "core")

\* A record in memory is in the file, as it is or as the attempt it came from.
Recorded(r, s) == \/ r.kind \in {"none", s.kind}
                  \/ r.kind = "core" /\ s.kind = "attempt"

\* What is confirmed on disk is so in memory; the file can be read, and names
\* what is in memory.
RecordsOk ==
    /\ \A i \in Ids : Sound(mem[i]) /\ ValidRecord(file[i])
    /\ \A i \in Ids : file[i].confirmed =>
          mem[i].confirmed /\ file[i] = [mem[i] EXCEPT !.fails = 0]
    /\ \A i \in Ids : i > minted => mem[i] = None /\ file[i].kind = "none"
    /\ orphans \subseteq 1 .. minted
    /\ \A i \in Ids : Recorded(mem[i], file[i])
    /\ Fits(file)

\* A certificate ends the challenge it was issued for.
CertOk ==
    \A i \in Ids : /\ certified[i] <= 1
                   /\ Pending(i) \/ i > minted => certified[i] = 0

\* The calls that will mint an id.
Asking == {c \in Callers : /\ call[c].kind \in {"start", "app"}
                           /\ call[c].pc \in {"wait", "reap", "create"}}

IdsLeft == minted + Cardinality(Asking) <= MaxIds

\* What a call knows at its step.
CallOk(r) ==
    /\ r.all \subseteq 1 .. minted /\ r.todo \subseteq r.all
    /\ r.kind \in {"submit", "submitApp", "abort", "authorize", "confirm"} => r.id \in 1 .. minted
    /\ r.kind = "app" => r.who \in Ids
    /\ r.pc \in {"idle", "wait", "close", "abort"} => r.all = {}
    /\ r.pc = "reap" => /\ r.kind \in {"start", "app", "reconcile"} /\ orphans = {}
                        /\ (r.all \ r.todo) \cap open = {}
    /\ r.pc \in {"create", "rollback", "deliver"} => r.all \cap open = {}
    /\ r.pc = "create" => r.kind \in {"start", "app"} /\ ~active
    /\ r.pc \in {"rollback", "deliver", "abort"} => r.id \in 1 .. minted
    /\ r.pc = "close" =>
          \/ r.kind = "submit" /\ mem[r.id].kind = "attempt"
          \/ r.kind = "submitApp" /\ mem[r.id].kind = "app"

CallsOk == \A c \in Callers : CallOk(call[c])

BootInv == Types /\ OneHolder /\ Exclusive /\ RecordsOk /\ CertOk /\ IdsLeft /\ CallsOk

-----------------------------------------------------------------------------
(* Lemmas about the operators of the model.                                 *)

\* An empty slot and an idle caller are well-formed.
LEMMA EmptyFields ==
    ASSUME TRUE
    PROVE  /\ None \in Rec /\ None.kind = "none" /\ None.confirmed = FALSE
           /\ Idle \in Caller /\ Idle.pc = "idle" /\ Idle.kind = "none" /\ Idle.all = {}
           /\ Idle.todo = {}
<1>1. 0 \in 0 .. MaxIds /\ 0 \in 0 .. MaxTime /\ 0 \in 0 .. MaxFailures
  BY BootstrapAssumption
<1> QED BY <1>1 DEF None, Rec, Idle, Caller

\* A multiple of a smaller number is smaller.
LEMMA Scaled ==
    ASSUME NEW k \in Nat, NEW a \in Nat, NEW b \in Nat, a <= b
    PROVE  k * a \in Nat /\ k * b \in Nat /\ k * a <= k * b
<1>1. PICK d \in Nat : b = a + d
  <2>1. b - a \in Nat /\ b = a + (b - a)
    OBVIOUS
  <2> QED BY <2>1
<1>2. k * a \in Nat /\ k * b \in Nat /\ k * d \in Nat
  OBVIOUS
<1>3. k * b = k * a + k * d
  BY <1>1
<1> QED BY <1>2, <1>3

\* Fewer records are not more, and not longer.
LEMMA FitsShrinks ==
    ASSUME NEW m, NEW n, Fits(m), \A i \in Ids : n[i].kind \in {"none", m[i].kind}
    PROVE  Fits(n)
<1> DEFINE Used(x) == {i \in Ids : x[i].kind # "none"}
           Wait(x) == {i \in Ids : x[i].kind \in {"attempt", "app"}}
           Core(x) == {i \in Ids : x[i].kind = "core"}
<1>1. IsFiniteSet(Ids)
  BY FS_Interval, BootstrapAssumption DEF Ids
<1>2. /\ \A x : IsFiniteSet(Used(x)) /\ IsFiniteSet(Wait(x)) /\ IsFiniteSet(Core(x))
      /\ Used(n) \subseteq Used(m) /\ Wait(n) \subseteq Wait(m) /\ Core(n) \subseteq Core(m)
  <2>1. ASSUME NEW x
        PROVE  IsFiniteSet(Used(x)) /\ IsFiniteSet(Wait(x)) /\ IsFiniteSet(Core(x))
    <3>1. Used(x) \subseteq Ids /\ Wait(x) \subseteq Ids /\ Core(x) \subseteq Ids
      OBVIOUS
    <3> HIDE DEF Used, Wait, Core
    <3> QED BY <1>1, <3>1, FS_Subset
  <2>2. Used(n) \subseteq Used(m) /\ Wait(n) \subseteq Wait(m) /\ Core(n) \subseteq Core(m)
    OBVIOUS
  <2> HIDE DEF Used, Wait, Core
  <2> QED BY <2>1, <2>2
<1>3. /\ Size(m) = Cardinality(Used(m)) /\ Size(n) = Cardinality(Used(n))
      /\ Bytes(m) = PendingBytes * Cardinality(Wait(m)) + CoreBytes * Cardinality(Core(m))
      /\ Bytes(n) = PendingBytes * Cardinality(Wait(n)) + CoreBytes * Cardinality(Core(n))
  BY DEF Size, Bytes
<1> HIDE DEF Used, Wait, Core
<1>4. /\ Cardinality(Used(n)) <= Cardinality(Used(m))
      /\ Cardinality(Wait(n)) <= Cardinality(Wait(m))
      /\ Cardinality(Core(n)) <= Cardinality(Core(m))
  BY <1>2, FS_Subset
<1>5. /\ Cardinality(Used(n)) \in Nat /\ Cardinality(Used(m)) \in Nat
      /\ Cardinality(Wait(n)) \in Nat /\ Cardinality(Wait(m)) \in Nat
      /\ Cardinality(Core(n)) \in Nat /\ Cardinality(Core(m)) \in Nat
  BY <1>2, FS_CardinalityType
<1> DEFINE wn == PendingBytes * Cardinality(Wait(n))
           wm == PendingBytes * Cardinality(Wait(m))
           cn == CoreBytes * Cardinality(Core(n))
           cm == CoreBytes * Cardinality(Core(m))
<1>6. PendingBytes \in Nat /\ CoreBytes \in Nat /\ MaxBytes \in Nat /\ MaxApprovals \in Nat
  BY BootstrapAssumption
<1>7. wn \in Nat /\ wm \in Nat /\ wn <= wm
  BY <1>4, <1>5, <1>6, Scaled
<1>8. cn \in Nat /\ cm \in Nat /\ cn <= cm
  BY <1>4, <1>5, <1>6, Scaled
<1>9. Bytes(m) = wm + cm /\ Bytes(n) = wn + cn
  BY <1>3
<1> HIDE DEF wn, wm, cn, cm
<1>10. Bytes(n) <= MaxBytes
  BY <1>6, <1>7, <1>8, <1>9 DEF Fits
<1>11. Size(n) <= MaxApprovals
  BY <1>3, <1>4, <1>5, <1>6 DEF Fits
<1> QED BY <1>10, <1>11 DEF Fits

\* What is written has the kinds, deadlines and confirmations of the memory.
LEMMA ProjectFields ==
    ASSUME NEW m \in [Ids -> Rec]
    PROVE  /\ Project(m) \in [Ids -> Rec] /\ (Fits(m) => Fits(Project(m)))
           /\ \A i \in Ids : /\ Project(m)[i] = [m[i] EXCEPT !.fails = 0]
                             /\ Project(m)[i].kind = m[i].kind
                             /\ Project(m)[i].confirmed = m[i].confirmed
                             /\ Project(m)[i].exp = m[i].exp
<1>0. 0 \in 0 .. MaxFailures
  BY BootstrapAssumption
<1>1. ASSUME NEW i \in Ids
      PROVE  /\ Project(m)[i] \in Rec /\ Project(m)[i] = [m[i] EXCEPT !.fails = 0]
             /\ Project(m)[i].kind = m[i].kind
             /\ Project(m)[i].confirmed = m[i].confirmed
             /\ Project(m)[i].exp = m[i].exp
  BY <1>0 DEF Project, Rec
<1>2. Project(m) \in [Ids -> Rec]
  BY <1>1 DEF Project
<1>3. Fits(m) => Fits(Project(m))
  BY <1>1, FitsShrinks
<1> QED BY <1>1, <1>2, <1>3

-----------------------------------------------------------------------------
(* How a record evolves.                                                    *)

\* A record that is confirmed stays as it is; a pending one is dropped, counts
\* a failure or becomes a Core approval; an approval is dropped or confirmed.
Evolves(r, s) ==
    \/ s = r
    \/ ~r.confirmed /\ s = None
    \/ ~r.confirmed /\ r.kind \in {"attempt", "core"} /\ s.kind = "core" /\ ValidRecord(s)
    \/ r.kind \in {"attempt", "app"} /\ s.kind = r.kind /\ ~s.confirmed

\* The memory evolves, and all of it or nothing is written.
MemStep ==
    /\ mem' \in [Ids -> Rec]
    /\ \A i \in Ids : Evolves(mem[i], mem'[i])
    /\ file' = file \/ (file' = Project(mem') /\ Fits(mem'))

\* What is confirmed on disk is not written over.
ConfirmedKept == \A i \in Ids : file[i].confirmed => file'[i] = file[i]

\* No new challenge comes out of a record that evolves.
LEMMA LiveShrinks ==
    ASSUME BootInv, \A i \in Ids : Evolves(mem[i], mem'[i])
    PROVE  Live' \subseteq Live
BY EmptyFields DEF Evolves, Live, Pending

\* The records are kept.
LEMMA RecordsKept ==
    ASSUME BootInv, MemStep, minted' \in Nat, minted' >= minted, orphans' \subseteq 1 .. minted'
    PROVE  /\ RecordsOk' /\ file' \in [Ids -> Rec]
           /\ ConfirmedKept
<1>0. /\ mem \in [Ids -> Rec] /\ mem' \in [Ids -> Rec] /\ file \in [Ids -> Rec] /\ RecordsOk
      /\ minted \in Nat /\ MaxApprovals \in Nat
  BY BootstrapAssumption DEF BootInv, Types, MemStep
<1>1. ASSUME NEW i \in Ids
      PROVE  /\ Sound(mem'[i]) /\ (mem[i].confirmed => mem'[i] = mem[i])
             /\ mem'[i].kind # "none" => mem[i].kind # "none"
  <2>1. Evolves(mem[i], mem'[i]) /\ Sound(mem[i]) /\ mem'[i] \in Rec /\ mem[i] \in Rec
    BY <1>0 DEF MemStep, RecordsOk
  <2> QED BY <2>1, EmptyFields DEF Evolves, Sound, ValidRecord
<1>2. ASSUME NEW i \in Ids PROVE Recorded(mem'[i], file'[i])
  <2>1. Evolves(mem[i], mem'[i]) /\ Recorded(mem[i], file[i])
    BY <1>0 DEF MemStep, RecordsOk
  <2>2. CASE file' = file
    BY <2>1, <2>2, EmptyFields DEF Evolves, Recorded
  <2>3. CASE file' = Project(mem')
    <3>1. file'[i].kind = mem'[i].kind
      BY <1>0, <2>3, ProjectFields
    <3> QED BY <3>1 DEF Recorded
  <2> QED BY <2>2, <2>3 DEF MemStep
<1>3. Project(mem') \in [Ids -> Rec] /\ (Fits(mem') => Fits(Project(mem')))
  BY <1>0, ProjectFields
<1>4. file' \in [Ids -> Rec]
  BY <1>0, <1>3 DEF MemStep
<1>5. Fits(file')
  BY <1>0, <1>3 DEF MemStep, RecordsOk
<1>6. ASSUME NEW i \in Ids
      PROVE  /\ ValidRecord(file'[i])
             /\ file'[i].confirmed =>
                   mem'[i].confirmed /\ file'[i] = [mem'[i] EXCEPT !.fails = 0]
             /\ file[i].confirmed => file'[i] = file[i]
             /\ i > minted' => file'[i].kind = "none"
             /\ i > minted' => mem'[i] = None
  <2>0. i \in Nat
    BY BootstrapAssumption DEF Ids
  <2>1. i > minted' => mem'[i] = None
    <3>1. i > minted' => i > minted
      BY <1>0, <2>0
    <3>2. i > minted => mem[i] = None
      BY <1>0 DEF RecordsOk
    <3> QED BY <3>1, <3>2, EmptyFields DEF MemStep, Evolves
  <2>2. CASE file' = file
    <3>1. i > minted' => i > minted
      BY <1>0, <2>0
    <3> QED BY <1>0, <1>1, <2>1, <2>2, <3>1 DEF RecordsOk
  <2>3. CASE file' = Project(mem')
    <3>1. /\ file'[i] = [mem'[i] EXCEPT !.fails = 0] /\ file'[i].kind = mem'[i].kind
          /\ file'[i].confirmed = mem'[i].confirmed /\ file'[i].exp = mem'[i].exp
      BY <1>0, <2>3, ProjectFields
    <3>2. file[i].confirmed => file'[i] = file[i]
      BY <1>0, <1>1, <3>1 DEF RecordsOk
    <3> QED BY <1>1, <2>1, <3>1, <3>2, EmptyFields DEF Sound, ValidRecord
  <2> QED BY <2>2, <2>3 DEF MemStep
<1>7. RecordsOk'
  BY <1>1, <1>2, <1>5, <1>6 DEF RecordsOk
<1> QED BY <1>4, <1>6, <1>7 DEF ConfirmedKept

-----------------------------------------------------------------------------
(* What keeps the other parts of the invariant.                             *)

\* Only one caller takes a step.
Alone(c) == call' \in [Callers -> Caller] /\ \A d \in Callers : d # c => call'[d] = call[d]

\* A caller gets a new record of its own.
LEMMA AloneFields ==
    ASSUME BootInv, NEW c \in Callers, NEW r \in Caller, call' = [call EXCEPT ![c] = r]
    PROVE  Alone(c) /\ call'[c] = r
BY DEF BootInv, Types, Alone

\* A return makes the caller idle.
LEMMA ReturnFields ==
    ASSUME BootInv, NEW c \in Callers, Return(c)
    PROVE  Alone(c) /\ call'[c] = Idle
BY AloneFields, EmptyFields DEF Return

\* A call goes on and keeps what it is about.
LEMMA GotoFields ==
    ASSUME BootInv, NEW c \in Callers, Goto(c, "create") \/ Goto(c, "close") \/ Goto(c, "abort")
    PROVE  /\ Alone(c) /\ call'[c].kind = call[c].kind /\ call'[c].id = call[c].id
           /\ call'[c].all = call[c].all /\ call'[c].todo = call[c].todo
           /\ call'[c].who = call[c].who
           /\ \A pc \in {"create", "close", "abort"} : Goto(c, pc) => call'[c].pc = pc
<1> SUFFICES ASSUME NEW pc \in {"create", "close", "abort"}, Goto(c, pc)
             PROVE  /\ Alone(c) /\ call'[c].kind = call[c].kind /\ call'[c].id = call[c].id
                    /\ call'[c].all = call[c].all /\ call'[c].todo = call[c].todo
                    /\ call'[c].who = call[c].who /\ call'[c].pc = pc
  OBVIOUS
<1> DEFINE r == [call[c] EXCEPT !.pc = pc]
<1>1. call \in [Callers -> Caller]
  BY DEF BootInv, Types
<1>2. /\ r \in Caller /\ r.kind = call[c].kind /\ r.id = call[c].id /\ r.all = call[c].all
      /\ r.todo = call[c].todo /\ r.who = call[c].who /\ r.pc = pc
  BY <1>1 DEF Caller
<1>3. call' = [call EXCEPT ![c] = r]
  BY <1>1 DEF Goto
<1> HIDE DEF r
<1> QED BY <1>2, <1>3, AloneFields

\* While one caller holds the mutex, or gets it, the others know nothing that
\* it can change.
LEMMA OthersKept ==
    ASSUME BootInv, NEW c \in Callers, Holds(c) \/ Free, Alone(c),
           minted' \in Nat, minted' >= minted,
           open' \subseteq open \cup {i \in Ids : i > minted}
    PROVE  /\ \A d \in Callers : d # c => CallOk(call[d])'
           /\ OneHolder'
<1>0. minted \in Nat /\ Ids \subseteq Nat
  <2>1. minted \in 0 .. MaxIds
    BY DEF BootInv, Types
  <2>2. MaxIds \in Nat
    BY BootstrapAssumption
  <2> QED BY <2>1, <2>2 DEF Ids
<1>1. ASSUME NEW d \in Callers, d # c
      PROVE  CallOk(call[d])' /\ ~Holds(d)'
  <2>1. call'[d] = call[d] /\ ~Holds(d) /\ CallOk(call[d]) /\ call[d] \in Caller
    BY <1>1 DEF BootInv, OneHolder, Free, Alone, CallsOk, Types
  <2>2. call[d].pc \in {"idle", "wait", "deliver"}
    BY <2>1 DEF Holds, Caller
  <2>3. 1 .. minted \subseteq 1 .. minted'
    BY <1>0
  <2>4. call[d].all \cap open' \subseteq call[d].all \cap open
    BY <1>0, <2>1 DEF CallOk
  <2>5. ~Holds(d)'
    BY <2>1, <2>2 DEF Holds
  <2> QED BY <2>1, <2>2, <2>3, <2>4, <2>5 DEF CallOk
<1>2. OneHolder'
  BY <1>1 DEF OneHolder
<1> QED BY <1>1, <1>2 DEF CallOk

\* A certificate is issued by submit alone.
LEMMA CertKept ==
    ASSUME BootInv, \A i \in Ids : Evolves(mem[i], mem'[i]), UNCHANGED certified,
           minted' \in Nat, minted' >= minted
    PROVE  CertOk'
<1>1. Live' \subseteq Live
  BY LiveShrinks
<1>2. \A i \in Ids : i > minted' => i > minted
  BY BootstrapAssumption DEF BootInv, Types, Ids
<1> QED BY <1>1, <1>2 DEF BootInv, CertOk, Live, Pending

\* Nothing about the challenge changes.
LEMMA ExclusiveKept ==
    ASSUME BootInv, UNCHANGED active, \A i \in Ids : mem'[i].kind = mem[i].kind \/ ~Pending(i),
           \A i \in Ids : Evolves(mem[i], mem'[i])
    PROVE  Exclusive'
<1>1. Live' = Live
  BY LiveShrinks DEF Live, Pending
<1> QED BY <1>1 DEF BootInv, Exclusive

\* The one challenge ends.
LEMMA ExclusiveEnds ==
    ASSUME BootInv, active' = FALSE, \A i \in Ids : Evolves(mem[i], mem'[i]),
           NEW i \in Ids, Pending(i), ~(mem'[i].kind \in {"attempt", "app"})
    PROVE  Exclusive'
<1>1. Live' = {}
  <2>1. \A j \in Live : j = i
    BY DEF BootInv, Exclusive, Live
  <2> QED BY <2>1, LiveShrinks DEF Live, Pending
<1> QED BY <1>1 DEF Exclusive

\* The calls that will mint an id are finitely many.
LEMMA AskingFacts ==
    ASSUME BootInv
    PROVE  /\ IsFiniteSet(Asking) /\ Cardinality(Asking) \in Nat
           /\ minted \in Nat /\ MaxIds \in Nat /\ minted + Cardinality(Asking) <= MaxIds
           /\ \A c \in Asking : Cardinality(Asking \ {c}) = Cardinality(Asking) - 1
           /\ \A c \in Asking : minted + 1 <= MaxIds
<1>1. IsFiniteSet(Asking)
  BY FS_Subset, BootstrapAssumption DEF Asking
<1>2. Cardinality(Asking) \in Nat /\ minted \in Nat /\ MaxIds \in Nat
  BY <1>1, FS_CardinalityType, BootstrapAssumption DEF BootInv, Types
<1>3. ASSUME NEW c \in Asking
      PROVE  /\ Cardinality(Asking \ {c}) = Cardinality(Asking) - 1
             /\ Cardinality(Asking \ {c}) \in Nat
  BY <1>1, FS_RemoveElement, FS_CardinalityType
<1>4. minted + Cardinality(Asking) <= MaxIds
  BY DEF BootInv, IdsLeft
<1>5. ASSUME NEW c \in Asking PROVE minted + 1 <= MaxIds
  <2>1. Cardinality(Asking) - 1 \in Nat
    BY <1>3, <1>5
  <2> QED BY <1>2, <1>4, <2>1
<1> QED BY <1>1, <1>2, <1>3, <1>4, <1>5

\* No call begins that will mint an id.
LEMMA IdsKept ==
    ASSUME BootInv, NEW c \in Callers, Alone(c), minted' = minted,
           c \in Asking' => c \in Asking
    PROVE  IdsLeft'
<1>1. Asking' \subseteq Asking
  BY DEF Asking, Alone
<1>2. Cardinality(Asking') <= Cardinality(Asking) /\ Cardinality(Asking') \in Nat
  BY <1>1, AskingFacts, FS_Subset, FS_CardinalityType
<1> QED BY <1>2, AskingFacts DEF IdsLeft

\* An id is minted by a call that was counted for it.
LEMMA IdsMinted ==
    ASSUME BootInv, NEW c \in Callers, Alone(c), minted' = minted + 1,
           c \in Asking, c \notin Asking'
    PROVE  IdsLeft' /\ minted' \in 0 .. MaxIds
<1>1. Asking' = Asking \ {c}
  BY DEF Asking, Alone
<1>2. Cardinality(Asking') = Cardinality(Asking) - 1
  BY <1>1, AskingFacts
<1> QED BY <1>2, AskingFacts DEF IdsLeft

\* All parts at once, for a step of the caller that holds the mutex or gets it.
LEMMA HolderStep ==
    ASSUME BootInv, NEW c \in Callers, Holds(c) \/ Free, Alone(c), CallOk(call[c])',
           MemStep, Exclusive', CertOk', IdsLeft',
           UNCHANGED <<now, boots>>, minted' \in 0 .. MaxIds, minted' >= minted,
           active' \in BOOLEAN, certified' \in [Ids -> Nat], confirmedOk' \subseteq Ids,
           open' \subseteq open \cup {i \in Ids : i > minted},
           orphans' \subseteq 1 .. minted',
           starts' \in [Peers -> SUBSET (Ids \X (0 .. MaxTime))],
           \A p \in Peers : Few(starts'[p])
    PROVE  BootInv' /\ ConfirmedKept
<1>1. minted' \in Nat /\ 1 .. minted' \subseteq Ids
  BY BootstrapAssumption DEF Ids
<1>2. /\ \A d \in Callers : d # c => CallOk(call[d])'
      /\ OneHolder'
  BY <1>1, OthersKept
<1>3. CallsOk'
  BY <1>2 DEF CallsOk, CallOk
<1>4. RecordsOk' /\ file' \in [Ids -> Rec] /\ ConfirmedKept
  BY <1>1, RecordsKept
<1>5. Types'
  BY <1>1, <1>4 DEF BootInv, Types, MemStep, Alone
<1> QED BY <1>2, <1>3, <1>4, <1>5 DEF BootInv

\* The facts that most steps start from.
LEMMA CallerFacts ==
    ASSUME BootInv, NEW c \in Callers
    PROVE  /\ call[c] \in Caller /\ CallOk(call[c]) /\ call \in [Callers -> Caller]
           /\ now \in 0 .. MaxTime /\ minted \in 0 .. MaxIds /\ minted \in Nat
           /\ 1 .. minted \subseteq Ids /\ Ids \subseteq Nat
           /\ mem \in [Ids -> Rec] /\ file \in [Ids -> Rec]
           /\ orphans \subseteq 1 .. minted /\ open \subseteq Ids /\ confirmedOk \subseteq Ids
           /\ starts \in [Peers -> SUBSET (Ids \X (0 .. MaxTime))]
           /\ \A p \in Peers : Few(starts[p])
           /\ active \in BOOLEAN /\ certified \in [Ids -> Nat]
           /\ \A i \in Ids : Sound(mem[i]) /\ (mem[i].kind # "none" => i \in 1 .. minted)
<1>0. MaxIds \in Nat /\ minted \in 0 .. MaxIds
  BY BootstrapAssumption DEF BootInv, Types
<1>1. minted \in Nat /\ 1 .. minted \subseteq Ids /\ Ids \subseteq Nat
  BY <1>0 DEF Ids
<1>2. \A i \in Ids : Sound(mem[i]) /\ (mem[i].kind # "none" => i \in 1 .. minted)
  <2> SUFFICES ASSUME NEW i \in Ids PROVE i > minted => mem[i].kind = "none"
    BY <1>1 DEF BootInv, RecordsOk, Ids
  <2> QED BY EmptyFields DEF BootInv, RecordsOk
<1> QED BY <1>1, <1>2 DEF BootInv, Types, CallsOk, RecordsOk

\* A step in which the call returns.
LEMMA ReturnStep ==
    ASSUME BootInv, NEW c \in Callers, Holds(c) \/ Free, Return(c),
           MemStep, Exclusive', CertOk',
           UNCHANGED <<now, boots, minted>>,
           active' \in BOOLEAN, certified' \in [Ids -> Nat], confirmedOk' \subseteq Ids,
           open' \subseteq open, orphans' \subseteq 1 .. minted,
           starts' \in [Peers -> SUBSET (Ids \X (0 .. MaxTime))],
           \A p \in Peers : Few(starts'[p])
    PROVE  BootInv' /\ ConfirmedKept
<1>1. Alone(c) /\ call'[c] = Idle
  BY ReturnFields
<1>2. CallOk(call[c])'
  BY <1>1, EmptyFields DEF CallOk
<1>3. c \notin Asking'
  BY <1>1, EmptyFields DEF Asking
<1>4. IdsLeft'
  BY <1>1, <1>3, IdsKept
<1>5. minted' \in 0 .. MaxIds /\ minted' >= minted /\ orphans' \subseteq 1 .. minted'
      /\ open' \subseteq open \cup {i \in Ids : i > minted}
  BY CallerFacts
<1> QED BY <1>1, <1>2, <1>4, <1>5, HolderStep

\* The memory stays, and may be written.
LEMMA SameMemory ==
    ASSUME BootInv, UNCHANGED mem, file' = file \/ (file' = Project(mem) /\ Fits(mem))
    PROVE  /\ MemStep /\ \A i \in Ids : Evolves(mem[i], mem'[i])
           /\ UNCHANGED active => Exclusive'
           /\ UNCHANGED certified /\ minted' \in Nat /\ minted' >= minted => CertOk'
<1>1. MemStep /\ \A i \in Ids : Evolves(mem[i], mem'[i])
  BY DEF BootInv, Types, MemStep, Evolves
<1> QED BY <1>1, ExclusiveKept, CertKept

\* A step of no holder that changes no shared state.
LEMMA OutsideStep ==
    ASSUME BootInv, NEW c \in Callers, Alone(c), ~Holds(c)', CallOk(call[c])', IdsLeft',
           UNCHANGED <<now, mem, active, orphans, starts, file, open, minted, boots,
                       certified, confirmedOk>>
    PROVE  BootInv' /\ ConfirmedKept
<1>1. \A d \in Callers : d # c => call'[d] = call[d]
  BY DEF Alone
<1>2. CallsOk'
  <2>1. \A d \in Callers : d # c => CallOk(call[d])'
    BY <1>1 DEF BootInv, CallsOk, CallOk
  <2> QED BY <2>1 DEF CallsOk, CallOk
<1>3. OneHolder'
  BY <1>1 DEF BootInv, OneHolder, Holds
<1>4. Types'
  BY DEF BootInv, Types, Alone
<1>5. Exclusive' /\ CertOk' /\ RecordsOk'
  BY DEF BootInv, Exclusive, CertOk, RecordsOk, Live, Pending
<1> QED BY <1>2, <1>3, <1>4, <1>5 DEF BootInv, ConfirmedKept

-----------------------------------------------------------------------------
(* Asking for the mutex.                                                    *)

\* A call is well-formed, and counted if it will mint an id.
LEMMA AskStep ==
    ASSUME BootInv, NEW c \in Callers, NEW k \in Kinds, NEW who \in Peers \cup (0 .. MaxIds),
           NEW i \in 0 .. MaxIds, NEW right \in BOOLEAN, Ask(c, k, who, i, right),
           k \in {"start", "app"} => MayMint,
           k = "app" => who \in Ids,
           k \in {"submit", "submitApp", "abort", "authorize", "confirm"} => i \in 1 .. minted
    PROVE  BootInv' /\ ConfirmedKept
<1> DEFINE r == [Idle EXCEPT !.pc = "wait", !.kind = k, !.at = now, !.who = who, !.id = i,
                             !.right = right]
<1>0. UNCHANGED <<now, mem, active, orphans, starts, file, open, minted, boots, certified,
                  confirmedOk>>
  BY DEF Ask
<1>1. /\ r \in Caller /\ r.pc = "wait" /\ r.kind = k /\ r.who = who /\ r.id = i /\ r.all = {}
      /\ r.todo = {}
  BY EmptyFields, CallerFacts DEF Caller
<1>2. call' = [call EXCEPT ![c] = r]
  BY DEF Ask
<1> HIDE DEF r
<1>3. Alone(c) /\ call'[c] = r
  BY <1>1, <1>2, AloneFields
<1>4. CallOk(call[c])' /\ ~Holds(c)'
  BY <1>0, <1>1, <1>3 DEF CallOk, Holds
<1>5. IdsLeft'
  <2>1. CASE k \notin {"start", "app"}
    <3>1. c \notin Asking'
      BY <1>1, <1>3, <2>1 DEF Asking
    <3> QED BY <1>0, <1>3, <3>1, IdsKept
  <2>2. CASE k \in {"start", "app"}
    <3> DEFINE S == {d \in Callers : call[d].kind \in {"start", "app"}}
    <3>1. /\ Asking' \subseteq S \cup {c} /\ IsFiniteSet(S)
      BY <1>3, FS_Subset, BootstrapAssumption DEF Asking, Alone
    <3>2. minted + Cardinality(S) < MaxIds
      BY <2>2 DEF MayMint
    <3> HIDE DEF S
    <3>3. /\ Cardinality(S) \in Nat /\ IsFiniteSet(S \cup {c})
          /\ Cardinality(S \cup {c}) \in {Cardinality(S), Cardinality(S) + 1}
      BY <3>1, FS_CardinalityType, FS_AddElement
    <3>4. Cardinality(Asking') <= Cardinality(S \cup {c}) /\ Cardinality(Asking') \in Nat
      BY <3>1, <3>3, FS_Subset, FS_CardinalityType
    <3> QED BY <1>0, <3>2, <3>3, <3>4, AskingFacts DEF IdsLeft
  <2> QED BY <2>1, <2>2
<1> QED BY <1>0, <1>3, <1>4, <1>5, OutsideStep

\* Every request is one of these.
LEMMA AskSomeStep ==
    ASSUME BootInv, NEW c \in Callers, AskSome(c)
    PROVE  BootInv' /\ ConfirmedKept
<1>0. /\ minted \in Nat /\ Ids \subseteq 0 .. MaxIds /\ 0 \in 0 .. MaxIds
      /\ \A i \in Ids : i <= minted => i \in 1 .. minted
  BY CallerFacts, BootstrapAssumption DEF Ids
<1>1. ASSUME NEW p \in Peers, AskStart(c, p) PROVE BootInv' /\ ConfirmedKept
  BY <1>0, <1>1, AskStep DEF AskStart, Kinds
<1>2. ASSUME NEW p \in Peers, NEW i \in Ids, NEW right \in BOOLEAN, AskSubmit(c, p, i, right)
      PROVE  BootInv' /\ ConfirmedKept
  BY <1>0, <1>2, AskStep DEF AskSubmit, Kinds
<1>3. ASSUME NEW core \in Ids, NEW i \in Ids, NEW right \in BOOLEAN,
             AskSubmitApp(c, core, i, right)
      PROVE  BootInv' /\ ConfirmedKept
  BY <1>0, <1>3, AskStep DEF AskSubmitApp, Kinds
<1>4. ASSUME NEW i \in Ids, AskApp(c, i) PROVE BootInv' /\ ConfirmedKept
  BY <1>0, <1>4, AskStep DEF AskApp, Kinds
<1>5. ASSUME NEW i \in Ids, AskCore(c, "authorize", i) \/ AskCore(c, "confirm", i)
      PROVE  BootInv' /\ ConfirmedKept
  BY <1>0, <1>5, AskStep DEF AskCore, Kinds
<1>6. CASE AskReconcile(c)
  BY <1>0, <1>6, AskStep DEF AskReconcile, Kinds
<1> QED BY <1>1, <1>2, <1>3, <1>4, <1>5, <1>6 DEF AskSome

-----------------------------------------------------------------------------
(* Reaping what has expired.                                                *)

\* The expired records leave the memory, their workspaces wait in the call.
LEMMA SweepStep ==
    ASSUME BootInv, NEW c \in Callers, Sweep(c)
    PROVE  BootInv' /\ ConfirmedKept
<1> DEFINE t == call[c].at
           dead == {i \in Ids : PendingExpired(mem[i], t)}
           lost == {i \in Ids : CoreExpired(mem[i], t)}
           r == [call[c] EXCEPT !.pc = "reap", !.all = orphans \cup dead,
                                !.todo = orphans \cup dead, !.reaped = (lost # {})]
<1>0. /\ call[c].pc = "wait" /\ call[c].kind \in {"start", "app", "reconcile"} /\ Free
      /\ mem' = [i \in Ids |-> IF i \in dead \cup lost THEN None ELSE mem[i]]
      /\ active' = (active /\ dead = {}) /\ orphans' = {}
      /\ call' = [call EXCEPT ![c] = r]
      /\ UNCHANGED <<now, starts, file, open, minted, boots, certified, confirmedOk>>
  BY DEF Sweep
<1>1. \A i \in Ids : /\ i \in dead => mem[i].kind \in {"attempt", "app"} /\ ~mem[i].confirmed
                     /\ i \in lost => mem[i].kind = "core" /\ ~mem[i].confirmed
  BY CallerFacts DEF PendingExpired, CoreExpired, Sound, Rec
<1>2. dead \subseteq 1 .. minted /\ dead \subseteq Ids
  BY <1>1, CallerFacts
<1>3. /\ r \in Caller /\ r.pc = "reap" /\ r.kind = call[c].kind /\ r.who = call[c].who
      /\ r.all = orphans \cup dead /\ r.todo = r.all
  BY <1>2, CallerFacts DEF Caller
<1> HIDE DEF r, dead, lost
<1>4. Alone(c) /\ call'[c] = r
  BY <1>0, <1>3, AloneFields
<1>5. \A i \in Ids : Evolves(mem[i], mem'[i])
  BY <1>0, <1>1 DEF Evolves
<1>6. MemStep
  BY <1>0, <1>5, CallerFacts, EmptyFields DEF MemStep
<1>7. Exclusive'
  <2>1. CASE dead = {}
    <3>1. \A i \in Ids : mem'[i].kind = mem[i].kind \/ ~Pending(i)
      BY <1>0, <1>1, <2>1 DEF Pending
    <3>2. active' = active
      BY <1>0, <2>1, CallerFacts
    <3> QED BY <1>5, <3>1, <3>2, ExclusiveKept
  <2>2. ASSUME NEW i \in dead PROVE Exclusive'
    <3>1. i \in Ids /\ Pending(i) /\ ~(mem'[i].kind \in {"attempt", "app"}) /\ active' = FALSE
      BY <1>0, <1>1, <1>2, <2>2, EmptyFields DEF Pending
    <3> QED BY <1>5, <3>1, ExclusiveEnds
  <2> QED BY <2>1, <2>2
<1>8. CertOk' /\ IdsLeft'
  <2>1. c \in Asking' => c \in Asking
    BY <1>0, <1>3, <1>4 DEF Asking
  <2>2. minted' = minted /\ minted' \in Nat /\ minted' >= minted
    BY <1>0, CallerFacts
  <2>3. IdsLeft'
    BY <1>4, <2>1, <2>2, IdsKept
  <2> QED BY <1>0, <1>5, <2>2, <2>3, CertKept
<1>9. CallOk(call[c])'
  <2>1. orphans \subseteq 1 .. minted /\ (call[c].kind = "app" => call[c].who \in Ids)
    BY CallerFacts DEF CallOk
  <2> QED BY <1>0, <1>2, <1>3, <1>4, <2>1 DEF CallOk
<1> QED BY <1>0, <1>4, <1>6, <1>7, <1>8, <1>9, HolderStep, CallerFacts

\* A workspace is closed, or all of them are kept for a retry.
LEMMA SweepCloseStep ==
    ASSUME BootInv, NEW c \in Callers, SweepClose(c)
    PROVE  BootInv' /\ ConfirmedKept
<1>0. /\ call[c].pc = "reap" /\ Holds(c)
      /\ UNCHANGED <<now, mem, active, starts, file, minted, boots, certified, confirmedOk>>
  BY DEF SweepClose, Holds
<1>1. PICK w \in call[c].todo :
          \/ /\ CloseOk(w) /\ call' = [call EXCEPT ![c].todo = @ \ {w}] /\ UNCHANGED orphans
          \/ /\ CloseFails(w) /\ orphans' = call[c].all /\ Return(c)
  BY DEF SweepClose
<1>2. open' \subseteq open
  BY <1>1 DEF CloseOk, CloseFails
<1>3. MemStep /\ Exclusive' /\ CertOk'
  BY <1>0, SameMemory, CallerFacts
<1>4. CASE CloseFails(w) /\ orphans' = call[c].all /\ Return(c)
  <2>1. orphans' \subseteq 1 .. minted
    BY <1>4, CallerFacts DEF CallOk
  <2> QED BY <1>0, <1>2, <1>3, <1>4, <2>1, ReturnStep, CallerFacts
<1>5. CASE CloseOk(w) /\ call' = [call EXCEPT ![c].todo = @ \ {w}] /\ UNCHANGED orphans
  <2> DEFINE r == [call[c] EXCEPT !.todo = @ \ {w}]
  <2>1. /\ r \in Caller /\ r.pc = "reap" /\ r.kind = call[c].kind /\ r.who = call[c].who
        /\ r.all = call[c].all /\ r.todo = call[c].todo \ {w} /\ r.id = call[c].id
    BY <1>0, CallerFacts DEF Caller
  <2>2. call' = [call EXCEPT ![c] = r]
    BY <1>5, CallerFacts
  <2> HIDE DEF r
  <2>3. Alone(c) /\ call'[c] = r
    BY <2>1, <2>2, AloneFields
  <2>4. c \in Asking' => c \in Asking
    BY <1>0, <2>1, <2>3 DEF Asking
  <2>5. IdsLeft'
    BY <1>0, <2>3, <2>4, IdsKept
  <2>6. CallOk(call[c]) /\ open' = open \ {w}
    BY <1>5, CallerFacts DEF CloseOk
  <2>7. CallOk(call[c])'
    BY <1>0, <1>5, <2>1, <2>3, <2>6 DEF CallOk
  <2>8. /\ minted' \in 0 .. MaxIds /\ minted' >= minted /\ orphans' \subseteq 1 .. minted'
        /\ open' \subseteq open \cup {i \in Ids : i > minted}
    BY <1>0, <1>2, <1>5, CallerFacts
  <2> QED BY <1>0, <1>3, <2>3, <2>5, <2>7, <2>8, HolderStep, CallerFacts
<1> QED BY <1>1, <1>4, <1>5

\* Starts that are still in the window are some of those there were.
LEMMA RecentFew ==
    ASSUME BootInv, NEW p \in Peers, NEW t
    PROVE  /\ Recent(p, t) \subseteq starts[p] /\ Few(Recent(p, t))
           /\ starts[p] \subseteq Ids \X (0 .. MaxTime)
           /\ Cardinality(Recent(p, t)) \in Nat
           /\ \A e : ~(Cardinality(Recent(p, t)) >= MaxPeerStarts) =>
                        Few(Recent(p, t) \cup {e})
<1>1. /\ Recent(p, t) \subseteq starts[p] /\ Few(starts[p])
      /\ starts[p] \subseteq Ids \X (0 .. MaxTime)
  BY DEF Recent, BootInv, Types
<1>2. IsFiniteSet(Recent(p, t)) /\ Cardinality(Recent(p, t)) <= Cardinality(starts[p])
  BY <1>1, FS_Subset DEF Few
<1>3. /\ Cardinality(Recent(p, t)) \in Nat /\ Cardinality(starts[p]) \in Nat
      /\ MaxPeerStarts \in Nat
  BY <1>1, <1>2, FS_CardinalityType, BootstrapAssumption DEF Few
<1>4. Few(Recent(p, t))
  BY <1>1, <1>2, <1>3 DEF Few
<1>5. ASSUME NEW e, ~(Cardinality(Recent(p, t)) >= MaxPeerStarts)
      PROVE  Few(Recent(p, t) \cup {e})
  <2>1. /\ IsFiniteSet(Recent(p, t) \cup {e})
        /\ \/ Cardinality(Recent(p, t) \cup {e}) = Cardinality(Recent(p, t))
           \/ Cardinality(Recent(p, t) \cup {e}) = Cardinality(Recent(p, t)) + 1
    BY <1>2, FS_AddElement
  <2> QED BY <1>3, <1>5, <2>1 DEF Few
<1> QED BY <1>1, <1>3, <1>4, <1>5

\* A start keeps its place in the window; a call goes on only with a session
\* that is not verifying.
LEMMA AdmitFacts ==
    ASSUME BootInv, NEW c \in Callers, call[c].pc = "reap", Admit(c)
    PROVE  /\ starts' \in [Peers -> SUBSET (Ids \X (0 .. MaxTime))]
           /\ \A p \in Peers : Few(starts'[p])
           /\ \/ Return(c)
              \/ Goto(c, "create") /\ ~active /\ call[c].kind \in {"start", "app"}
<1>0. /\ starts \in [Peers -> SUBSET (Ids \X (0 .. MaxTime))] /\ \A p \in Peers : Few(starts[p])
      /\ call[c].at \in 0 .. MaxTime
  BY CallerFacts DEF Caller
<1>1. CASE call[c].kind = "start" /\ AdmitStart(c)
  <2> DEFINE t == call[c].at
  <2>1. minted + 1 \in Ids
    <3>1. c \in Asking
      BY <1>1 DEF Asking
    <3> QED BY <3>1, AskingFacts DEF Ids
  <2>2. CASE Return(c) /\ starts' = [q \in Peers |-> Recent(q, t)]
    <3>1. \A q \in Peers : Recent(q, t) \subseteq Ids \X (0 .. MaxTime) /\ Few(Recent(q, t))
      BY RecentFew
    <3> QED BY <2>2, <3>1
  <2>3. CASE /\ ~(Cardinality(Recent(call[c].who, t)) >= MaxPeerStarts) /\ ~active
             /\ Goto(c, "create")
             /\ starts' = [q \in Peers |-> Recent(q, t) \cup
                              (IF q = call[c].who THEN {<<minted + 1, t>>} ELSE {})]
    <3>1. <<minted + 1, t>> \in Ids \X (0 .. MaxTime)
      BY <1>0, <2>1
    <3>2. ASSUME NEW q \in Peers
          PROVE  starts'[q] \subseteq Ids \X (0 .. MaxTime) /\ Few(starts'[q])
      <4>1. /\ Recent(q, t) \subseteq Ids \X (0 .. MaxTime) /\ Few(Recent(q, t))
            /\ q = call[c].who => Few(Recent(q, t) \cup {<<minted + 1, t>>})
        BY <2>3, RecentFew
      <4>2. starts'[q] = Recent(q, t) \cup
                (IF q = call[c].who THEN {<<minted + 1, t>>} ELSE {})
        BY <2>3
      <4>3. CASE q = call[c].who
        BY <3>1, <4>1, <4>2, <4>3
      <4>4. CASE q # call[c].who
        <5>1. starts'[q] = Recent(q, t)
          BY <4>2, <4>4
        <5> QED BY <4>1, <5>1
      <4> QED BY <4>3, <4>4
    <3>3. starts' \in [Peers -> SUBSET (Ids \X (0 .. MaxTime))]
      <4>1. starts' = [q \in Peers |-> starts'[q]]
        BY <2>3
      <4> QED BY <3>2, <4>1
    <3> QED BY <1>1, <2>3, <3>2, <3>3
  <2>4. CASE Return(c) /\ UNCHANGED starts
    BY <1>0, <2>4
  <2> QED BY <1>1, <2>2, <2>3, <2>4 DEF AdmitStart
<1>2. CASE call[c].kind = "app" /\ AdmitApp(c)
  BY <1>0, <1>2 DEF AdmitApp
<1>3. CASE call[c].kind = "reconcile" /\ Return(c) /\ UNCHANGED starts
  BY <1>0, <1>3
<1> QED BY <1>1, <1>2, <1>3 DEF Admit

\* All workspaces are closed: the memory is written and the call goes on.
LEMMA SweepDoneStep ==
    ASSUME BootInv, NEW c \in Callers, SweepDone(c)
    PROVE  BootInv' /\ ConfirmedKept
<1>0. /\ call[c].pc = "reap" /\ call[c].todo = {} /\ Holds(c)
      /\ UNCHANGED <<now, mem, active, orphans, open, minted, boots, certified, confirmedOk>>
      /\ file' = file \/ (file' = Project(mem) /\ Fits(mem))
      /\ Admit(c) \/ (Return(c) /\ UNCHANGED starts)
  BY DEF SweepDone, Holds, PersistOk, PersistFailed
<1>1. /\ starts' \in [Peers -> SUBSET (Ids \X (0 .. MaxTime))]
      /\ \A p \in Peers : Few(starts'[p])
      /\ \/ Return(c)
         \/ Goto(c, "create") /\ ~active /\ call[c].kind \in {"start", "app"}
  BY <1>0, AdmitFacts, CallerFacts
<1>2. MemStep /\ Exclusive' /\ CertOk'
  BY <1>0, SameMemory, CallerFacts
<1>3. CASE Return(c)
  BY <1>0, <1>1, <1>2, <1>3, ReturnStep, CallerFacts
<1>4. CASE Goto(c, "create") /\ ~active /\ call[c].kind \in {"start", "app"}
  <2>1. /\ Alone(c) /\ call'[c].kind = call[c].kind /\ call'[c].id = call[c].id
        /\ call'[c].all = call[c].all /\ call'[c].todo = call[c].todo
        /\ call'[c].who = call[c].who /\ call'[c].pc = "create"
    BY <1>4, GotoFields
  <2>2. c \in Asking' => c \in Asking
    BY <1>0, <1>4 DEF Asking
  <2>3. IdsLeft'
    BY <1>0, <2>1, <2>2, IdsKept
  <2>4. CallOk(call[c])
    BY CallerFacts
  <2>5. CallOk(call[c])'
    BY <1>0, <1>4, <2>1, <2>4 DEF CallOk
  <2>6. /\ minted' \in 0 .. MaxIds /\ minted' >= minted /\ orphans' \subseteq 1 .. minted'
        /\ open' \subseteq open \cup {i \in Ids : i > minted}
    BY <1>0, CallerFacts
  <2> QED BY <1>0, <1>1, <1>2, <2>1, <2>3, <2>5, <2>6, HolderStep, CallerFacts
<1> QED BY <1>1, <1>3, <1>4

-----------------------------------------------------------------------------
(* The workspace is created and recorded.                                   *)

\* A call that creates a workspace has an id to mint and no challenge beside it.
LEMMA CreateFacts ==
    ASSUME BootInv, NEW c \in Callers, call[c].pc = "create"
    PROVE  /\ c \in Asking /\ Holds(c) /\ minted + 1 \in Ids /\ minted + 1 \in 0 .. MaxIds
           /\ ~active /\ Live = {} /\ call[c].all \cap open = {}
           /\ call[c].all \subseteq 1 .. minted /\ call[c].todo \subseteq call[c].all
           /\ call[c].kind \in {"start", "app"} /\ (call[c].kind = "app" => call[c].who \in Ids)
           /\ mem[minted + 1] = None /\ certified[minted + 1] = 0
<1>1. /\ call[c].kind \in {"start", "app"} /\ ~active /\ call[c].all \cap open = {}
      /\ call[c].all \subseteq 1 .. minted /\ call[c].todo \subseteq call[c].all
      /\ call[c].kind = "app" => call[c].who \in Ids
  BY CallerFacts DEF CallOk
<1>2. c \in Asking /\ Holds(c)
  BY <1>1 DEF Asking, Holds
<1>3. minted + 1 \in Ids /\ minted + 1 \in 0 .. MaxIds /\ minted + 1 > minted
  BY <1>2, AskingFacts DEF Ids
<1>4. Live = {}
  BY <1>1 DEF BootInv, Exclusive
<1> QED BY <1>1, <1>2, <1>3, <1>4 DEF BootInv, RecordsOk, CertOk

\* The workspace may exist; nothing says so.
LEMMA CreateFailsStep ==
    ASSUME BootInv, NEW c \in Callers, CreateFails(c)
    PROVE  BootInv' /\ ConfirmedKept
<1>0. /\ call[c].pc = "create" /\ minted' = minted + 1 /\ Return(c)
      /\ open' \in {open, open \cup {minted + 1}}
      /\ UNCHANGED <<now, mem, active, orphans, starts, file, boots, certified, confirmedOk>>
  BY DEF CreateFails
<1>1. Alone(c) /\ call'[c] = Idle
  BY <1>0, ReturnFields
<1>2. CallOk(call[c])' /\ c \notin Asking'
  BY <1>1, EmptyFields DEF CallOk, Asking
<1>3. IdsLeft'
  BY <1>0, <1>1, <1>2, CreateFacts, IdsMinted
<1>4. /\ minted' \in 0 .. MaxIds /\ minted' \in Nat /\ minted' >= minted
      /\ orphans' \subseteq 1 .. minted'
      /\ open' \subseteq open \cup {i \in Ids : i > minted}
  BY <1>0, CreateFacts, CallerFacts
<1>5. MemStep /\ Exclusive' /\ CertOk'
  BY <1>0, <1>4, SameMemory
<1> QED BY <1>0, <1>1, <1>2, <1>3, <1>4, <1>5, CreateFacts, HolderStep, CallerFacts

\* A new record is pending and not confirmed.
LEMMA NewRecordFields ==
    ASSUME BootInv, NEW c \in Callers
    PROVE  /\ NewRecord(c) \in Rec /\ NewRecord(c).kind \in {"attempt", "app"}
           /\ NewRecord(c).confirmed = FALSE
<1>1. /\ call[c].who \in Peers \cup (0 .. MaxIds) /\ call[c].at \in Nat
      /\ CodeTTL \in Nat /\ HardTTL \in Nat
  BY CallerFacts, BootstrapAssumption DEF Caller
<1>2. call[c].at + CodeTTL \in Nat /\ call[c].at + HardTTL \in Nat
  BY <1>1
<1> QED BY <1>1, <1>2, EmptyFields DEF NewRecord, Attempt, AppApproval, Rec

\* The challenge is recorded in memory and on disk in one step.
LEMMA CreateRecorded ==
    ASSUME BootInv, NEW c \in Callers, call[c].pc = "create", minted' = minted + 1,
           mem' = [mem EXCEPT ![minted + 1] = NewRecord(c)], PersistOk(mem'), active' = TRUE,
           UNCHANGED <<orphans, certified>>
    PROVE  /\ RecordsOk' /\ Exclusive' /\ CertOk'
           /\ mem' \in [Ids -> Rec] /\ file' \in [Ids -> Rec]
           /\ ConfirmedKept /\ minted + 1 \in Live'
<1> DEFINE n == minted + 1
<1>0. /\ mem \in [Ids -> Rec] /\ n \in Ids /\ NewRecord(c) \in Rec /\ minted \in Nat
      /\ Ids \subseteq Nat /\ MaxApprovals \in Nat /\ orphans \subseteq 1 .. minted
  BY CallerFacts, CreateFacts, NewRecordFields, BootstrapAssumption
<1>1. /\ mem' \in [Ids -> Rec] /\ mem'[n] = NewRecord(c)
      /\ \A i \in Ids : i # n => mem'[i] = mem[i]
  BY <1>0
<1>2. /\ file' = Project(mem') /\ Fits(mem')
  BY DEF PersistOk
<1>3. /\ file' \in [Ids -> Rec] /\ Fits(file')
      /\ \A i \in Ids : /\ file'[i] = [mem'[i] EXCEPT !.fails = 0]
                        /\ file'[i].kind = mem'[i].kind
                        /\ file'[i].confirmed = mem'[i].confirmed
                        /\ file'[i].exp = mem'[i].exp
  BY <1>1, <1>2, ProjectFields
<1>4. ASSUME NEW i \in Ids
      PROVE  /\ Sound(mem'[i]) /\ ValidRecord(file'[i])
             /\ i > minted' => mem'[i] = None /\ file'[i].kind = "none"
             /\ file[i].confirmed => file'[i] = file[i]
  <2>1. Sound(mem'[i])
    <3>1. CASE i = n
      BY <1>1, <3>1, NewRecordFields DEF Sound, ValidRecord
    <3>2. CASE i # n
      BY <1>1, <3>2, CallerFacts
    <3> QED BY <3>1, <3>2
  <2>2. ValidRecord(file'[i])
    BY <1>3, <2>1 DEF Sound, ValidRecord
  <2>3. i > minted' => mem'[i] = None /\ file'[i].kind = "none"
    <3>1. i > minted' => i > minted /\ i # n
      BY <1>0
    <3> QED BY <1>1, <1>3, <3>1, EmptyFields DEF BootInv, RecordsOk
  <2>4. file[i].confirmed => file'[i] = file[i]
    <3>1. file[i].confirmed => mem[i].confirmed /\ file[i] = [mem[i] EXCEPT !.fails = 0]
      BY DEF BootInv, RecordsOk
    <3>2. mem[i].confirmed => i # n
      BY CreateFacts, EmptyFields
    <3> QED BY <1>1, <1>3, <3>1, <3>2
  <2> QED BY <2>1, <2>2, <2>3, <2>4
<1>5. \A i \in Ids : Recorded(mem'[i], file'[i])
  BY <1>3 DEF Recorded
<1>6. orphans' \subseteq 1 .. minted'
  BY <1>0
<1>7. RecordsOk'
  BY <1>2, <1>3, <1>4, <1>5, <1>6 DEF RecordsOk
<1>8. Live = {} /\ Live' = {n}
  <2>1. Live = {}
    BY CreateFacts
  <2>2. Live' = {i \in Ids : mem'[i].kind \in {"attempt", "app"}}
    BY DEF Live, Pending
  <2> HIDE DEF n
  <2>3. ASSUME NEW i \in Ids PROVE mem'[i].kind \in {"attempt", "app"} <=> i = n
    <3>1. i # n => mem'[i].kind \notin {"attempt", "app"}
      BY <1>1, <2>1 DEF Live, Pending
    <3> QED BY <1>1, <3>1, NewRecordFields
  <2> QED BY <1>0, <2>1, <2>2, <2>3
<1>9. Exclusive'
  BY <1>8 DEF Exclusive
<1>10. CertOk'
  <2>1. certified[n] = 0
    BY CreateFacts
  <2>2. \A i \in Ids : i > minted' => i > minted
    BY <1>0
  <2>3. \A i \in Ids : mem'[i].kind \in {"attempt", "app"} => i = n
    BY <1>8 DEF Live, Pending
  <2> QED BY <2>1, <2>2, <2>3 DEF BootInv, CertOk, Pending
<1> QED BY <1>1, <1>3, <1>4, <1>7, <1>8, <1>9, <1>10 DEF ConfirmedKept

\* The workspace is there: it is recorded, or goes with the call.
LEMMA CreateStep ==
    ASSUME BootInv, NEW c \in Callers, Create(c)
    PROVE  BootInv' /\ ConfirmedKept
<1> DEFINE n == minted + 1
<1>0. /\ call[c].pc = "create" /\ minted' = n /\ open' = open \cup {n}
      /\ UNCHANGED <<now, orphans, starts, boots, certified, confirmedOk>>
  BY DEF Create
<1>f. /\ c \in Asking /\ Holds(c) /\ n \in Ids /\ n \in 0 .. MaxIds
      /\ call[c].all \cap open = {}
      /\ call[c].all \subseteq 1 .. minted /\ call[c].todo \subseteq call[c].all
      /\ call[c].kind \in {"start", "app"} /\ (call[c].kind = "app" => call[c].who \in Ids)
      /\ call[c] \in Caller /\ call \in [Callers -> Caller] /\ minted \in Nat
      /\ minted' \in Nat /\ minted' >= minted
  BY <1>0, CreateFacts, CallerFacts
<1>o. /\ open' \subseteq open \cup {i \in Ids : i > minted}
      /\ minted' \in 0 .. MaxIds /\ orphans' \subseteq 1 .. minted'
      /\ 1 .. minted \subseteq 1 .. minted' /\ n \in 1 .. minted'
      /\ call[c].all \cap open' = {}
  BY <1>0, <1>f, CallerFacts
<1>1. ASSUME NEW r \in Caller, call' = [call EXCEPT ![c] = r], r.pc \in {"deliver", "rollback"},
             r.id = n, r.kind = call[c].kind, r.who = call[c].who, r.all = call[c].all,
             r.todo = call[c].todo
      PROVE  Alone(c) /\ CallOk(call[c])' /\ IdsLeft'
  <2>1. Alone(c) /\ call'[c] = r
    BY <1>1, AloneFields
  <2>2. c \notin Asking'
    BY <1>1, <2>1 DEF Asking
  <2>3. IdsLeft'
    BY <1>0, <1>f, <2>1, <2>2, IdsMinted
  <2>4. CallOk(call[c])'
    BY <1>1, <1>f, <1>o, <2>1 DEF CallOk
  <2> QED BY <2>1, <2>3, <2>4
<1>2. CASE /\ PersistFailed /\ UNCHANGED <<mem, active>>
           /\ call' = [call EXCEPT ![c] = [@ EXCEPT !.pc = "rollback", !.id = n]]
  <2> DEFINE r == [call[c] EXCEPT !.pc = "rollback", !.id = n]
  <2>1. /\ r \in Caller /\ r.pc = "rollback" /\ r.id = n /\ r.kind = call[c].kind
        /\ r.who = call[c].who /\ r.all = call[c].all /\ r.todo = call[c].todo
    BY <1>f DEF Caller
  <2>2. call' = [call EXCEPT ![c] = r]
    BY <1>2, <1>f
  <2> HIDE DEF r
  <2>3. Alone(c) /\ CallOk(call[c])' /\ IdsLeft'
    BY <1>1, <2>1, <2>2
  <2>4. MemStep /\ Exclusive' /\ CertOk'
    BY <1>0, <1>2, <1>f, SameMemory DEF PersistFailed
  <2> QED BY <1>0, <1>2, <1>f, <1>o, <2>3, <2>4, HolderStep, CallerFacts
<1>3. CASE /\ PersistOk(mem') /\ mem' = [mem EXCEPT ![n] = NewRecord(c)] /\ active' = TRUE
           /\ call' = [call EXCEPT ![c] = IF @.kind = "start"
                                          THEN [@ EXCEPT !.pc = "deliver", !.id = n]
                                          ELSE Idle]
  <2>1. Alone(c) /\ CallOk(call[c])' /\ IdsLeft'
    <3>1. CASE call[c].kind = "start"
      <4> DEFINE r == [call[c] EXCEPT !.pc = "deliver", !.id = n]
      <4>1. /\ r \in Caller /\ r.pc = "deliver" /\ r.id = n /\ r.kind = call[c].kind
            /\ r.who = call[c].who /\ r.all = call[c].all /\ r.todo = call[c].todo
        BY <1>f DEF Caller
      <4>2. call' = [call EXCEPT ![c] = r]
        BY <1>3, <1>f, <3>1
      <4> HIDE DEF r
      <4> QED BY <1>1, <4>1, <4>2
    <3>2. CASE call[c].kind # "start"
      <4>1. call' = [call EXCEPT ![c] = Idle]
        BY <1>3, <1>f, <3>2
      <4>2. Alone(c) /\ call'[c] = Idle
        BY <4>1, EmptyFields, AloneFields
      <4>3. CallOk(call[c])' /\ c \notin Asking'
        BY <4>2, EmptyFields DEF CallOk, Asking
      <4> QED BY <1>0, <1>f, <4>2, <4>3, IdsMinted
    <3> QED BY <3>1, <3>2
  <2>2. /\ RecordsOk' /\ Exclusive' /\ CertOk' /\ ConfirmedKept
        /\ mem' \in [Ids -> Rec] /\ file' \in [Ids -> Rec]
    BY <1>0, <1>3, CreateRecorded
  <2>3. /\ \A d \in Callers : d # c => CallOk(call[d])'
        /\ OneHolder'
    BY <1>f, <1>o, <2>1, OthersKept
  <2>4. CallsOk'
    BY <2>1, <2>3 DEF CallsOk, CallOk
  <2>5. open' \subseteq Ids /\ orphans' \subseteq Ids
    BY <1>0, <1>f, CallerFacts
  <2>6. Types'
    BY <1>0, <1>3, <1>o, <2>1, <2>2, <2>5 DEF BootInv, Types, Alone
  <2> QED BY <2>1, <2>2, <2>3, <2>4, <2>6 DEF BootInv
<1> QED BY <1>2, <1>3 DEF Create

\* A workspace that could not be recorded is closed, if that works.
LEMMA RollbackStep ==
    ASSUME BootInv, NEW c \in Callers, Rollback(c)
    PROVE  BootInv' /\ ConfirmedKept
<1>0. /\ Holds(c) /\ Return(c) /\ open' \subseteq open
      /\ UNCHANGED <<now, mem, active, orphans, starts, file, minted, boots, certified,
                     confirmedOk>>
  BY DEF Rollback, Holds, CloseFails
<1>1. MemStep /\ Exclusive' /\ CertOk'
  BY <1>0, SameMemory, CallerFacts
<1> QED BY <1>0, <1>1, ReturnStep, CallerFacts

\* The challenge is delivered, or will be aborted.
LEMMA DeliverStep ==
    ASSUME BootInv, NEW c \in Callers, Deliver(c)
    PROVE  BootInv' /\ ConfirmedKept
<1>0. /\ call[c].pc = "deliver"
      /\ UNCHANGED <<now, mem, active, orphans, starts, file, open, minted, boots, certified,
                     confirmedOk>>
  BY DEF Deliver
<1>1. ASSUME NEW r \in Caller, call' = [call EXCEPT ![c] = r], r.pc \in {"idle", "wait"},
             r.all = {}, r.todo = {}, r.kind \in {"none", "abort"},
             r.kind = "abort" => r.id \in 1 .. minted
      PROVE  BootInv' /\ ConfirmedKept
  <2>1. Alone(c) /\ call'[c] = r
    BY <1>1, AloneFields
  <2>2. c \notin Asking' /\ ~Holds(c)' /\ CallOk(call[c])'
    BY <1>0, <1>1, <2>1 DEF Asking, Holds, CallOk
  <2>3. IdsLeft'
    BY <1>0, <2>1, <2>2, IdsKept
  <2> QED BY <1>0, <2>1, <2>2, <2>3, OutsideStep
<1>2. CASE Return(c)
  BY <1>1, <1>2, EmptyFields DEF Return
<1>3. CASE call' = [call EXCEPT ![c] = [Idle EXCEPT !.pc = "wait", !.kind = "abort",
                                                    !.id = call[c].id]]
  <2> DEFINE r == [Idle EXCEPT !.pc = "wait", !.kind = "abort", !.id = call[c].id]
  <2>1. call[c].id \in 1 .. minted /\ call[c].id \in 0 .. MaxIds
    BY <1>0, CallerFacts DEF CallOk, Caller
  <2>2. r \in Caller /\ r.pc = "wait" /\ r.kind = "abort" /\ r.id = call[c].id
        /\ r.all = {} /\ r.todo = {}
    BY <2>1, EmptyFields DEF Caller, Kinds
  <2>3. call' = [call EXCEPT ![c] = r]
    BY <1>3
  <2> HIDE DEF r
  <2> QED BY <1>1, <2>1, <2>2, <2>3
<1> QED BY <1>2, <1>3 DEF Deliver

-----------------------------------------------------------------------------
(* Changes of one record.                                                   *)

\* One record evolves, and the memory may be written.
LEMMA ChangeOne ==
    ASSUME BootInv, NEW i \in Ids, NEW s \in Rec, Evolves(mem[i], s),
           mem' = [mem EXCEPT ![i] = s], file' = file \/ Persist(mem')
    PROVE  /\ MemStep /\ \A j \in Ids : Evolves(mem[j], mem'[j])
           /\ mem'[i] = s /\ \A j \in Ids : j # i => mem'[j] = mem[j]
<1>0. mem \in [Ids -> Rec]
  BY DEF BootInv, Types
<1>1. /\ mem' \in [Ids -> Rec] /\ mem'[i] = s
      /\ \A j \in Ids : j # i => mem'[j] = mem[j]
  BY <1>0
<1>2. \A j \in Ids : Evolves(mem[j], mem'[j])
  <2> SUFFICES ASSUME NEW j \in Ids, j # i PROVE Evolves(mem[j], mem'[j])
    BY <1>1
  <2> QED BY <1>1 DEF Evolves
<1>3. file' = file \/ (file' = Project(mem') /\ Fits(mem'))
  BY DEF Persist, PersistOk, PersistFailed
<1> QED BY <1>1, <1>2, <1>3 DEF MemStep

\* A record that is not confirmed may go.
LEMMA ForgetOne ==
    ASSUME BootInv, NEW i \in Ids, ~mem[i].confirmed, mem' = Forget(i),
           file' = file \/ Persist(mem')
    PROVE  /\ MemStep /\ \A j \in Ids : Evolves(mem[j], mem'[j])
           /\ mem'[i] = None /\ \A j \in Ids : j # i => mem'[j] = mem[j]
BY ChangeOne, EmptyFields DEF Forget, Evolves

\* A challenge is not confirmed.
LEMMA PendingFacts ==
    ASSUME BootInv, NEW i \in Ids, mem[i].kind \in {"attempt", "app"}
    PROVE  Pending(i) /\ ~mem[i].confirmed /\ mem[i] \in Rec /\ certified[i] = 0
BY DEF BootInv, RecordsOk, Sound, Pending, Types, CertOk

\* The challenge is forgotten in memory first.
LEMMA AbortEnterStep ==
    ASSUME BootInv, NEW c \in Callers, AbortEnter(c)
    PROVE  BootInv' /\ ConfirmedKept
<1> DEFINE i == call[c].id
<1>0. /\ call[c].pc = "wait" /\ call[c].kind = "abort" /\ Free
      /\ UNCHANGED <<now, orphans, starts, file, open, minted, boots, certified, confirmedOk>>
  BY DEF AbortEnter
<1>f. i \in Ids /\ i \in 1 .. minted /\ CallOk(call[c])
  BY <1>0, CallerFacts DEF CallOk
<1>1. CASE mem[i].kind = "attempt" /\ mem' = Forget(i) /\ active' = FALSE /\ Goto(c, "abort")
  <2>1. Pending(i) /\ ~mem[i].confirmed
    BY <1>1, <1>f, PendingFacts
  <2>2. MemStep /\ mem'[i] = None /\ \A j \in Ids : Evolves(mem[j], mem'[j])
    BY <1>0, <1>1, <1>f, <2>1, ForgetOne
  <2>3. Exclusive'
    BY <1>1, <1>f, <2>1, <2>2, ExclusiveEnds, EmptyFields
  <2>4. CertOk'
    BY <1>0, <2>2, CertKept, CallerFacts
  <2>5. /\ Alone(c) /\ call'[c].kind = call[c].kind /\ call'[c].id = call[c].id
        /\ call'[c].all = call[c].all /\ call'[c].todo = call[c].todo
        /\ call'[c].who = call[c].who /\ call'[c].pc = "abort"
    BY <1>1, GotoFields
  <2>6. c \notin Asking'
    BY <2>5 DEF Asking
  <2>7. IdsLeft'
    BY <1>0, <2>5, <2>6, IdsKept
  <2>8. CallOk(call[c])'
    BY <1>0, <1>f, <2>5 DEF CallOk
  <2>9. /\ minted' \in 0 .. MaxIds /\ minted' >= minted /\ orphans' \subseteq 1 .. minted'
        /\ open' \subseteq open \cup {j \in Ids : j > minted}
    BY <1>0, CallerFacts
  <2> QED BY <1>0, <1>1, <2>2, <2>3, <2>4, <2>5, <2>7, <2>8, <2>9, HolderStep, CallerFacts
<1>2. CASE Return(c) /\ UNCHANGED <<mem, active>>
  <2>1. MemStep /\ Exclusive' /\ CertOk'
    BY <1>0, <1>2, SameMemory, CallerFacts
  <2> QED BY <1>0, <1>2, <2>1, ReturnStep, CallerFacts
<1> QED BY <1>1, <1>2 DEF AbortEnter

\* Its workspace is closed, or kept for a retry.
LEMMA AbortCloseStep ==
    ASSUME BootInv, NEW c \in Callers, AbortClose(c)
    PROVE  BootInv' /\ ConfirmedKept
<1>0. /\ call[c].pc = "abort" /\ Holds(c) /\ Return(c) /\ open' \subseteq open
      /\ orphans' \subseteq orphans \cup {call[c].id} /\ Persist(mem)
      /\ UNCHANGED <<now, mem, active, starts, minted, boots, certified, confirmedOk>>
  BY DEF AbortClose, Holds, CloseOk, CloseFails
<1>1. orphans' \subseteq 1 .. minted
  BY <1>0, CallerFacts DEF CallOk
<1>2. file' = file \/ (file' = Project(mem) /\ Fits(mem))
  BY <1>0 DEF Persist, PersistOk, PersistFailed
<1>3. MemStep /\ Exclusive' /\ CertOk'
  BY <1>0, <1>2, SameMemory, CallerFacts
<1> QED BY <1>0, <1>1, <1>3, ReturnStep, CallerFacts

-----------------------------------------------------------------------------
(* submit and submit_app_approval.                                          *)

\* A code is compared, and counted if it is wrong.
LEMMA VerifyStep ==
    ASSUME BootInv, NEW c \in Callers, Verify(c), call[c].kind \in {"submit", "submitApp"}
    PROVE  BootInv' /\ ConfirmedKept
<1> DEFINE i == call[c].id
<1>0. /\ call[c].pc = "wait" /\ Free
      /\ UNCHANGED <<now, active, orphans, starts, open, minted, boots, certified, confirmedOk>>
  BY DEF Verify
<1>f. i \in Ids /\ i \in 1 .. minted /\ CallOk(call[c])
  BY <1>0, CallerFacts DEF CallOk
<1>1. CASE Return(c) /\ UNCHANGED <<mem, file>>
  <2>1. MemStep /\ Exclusive' /\ CertOk'
    BY <1>0, <1>1, SameMemory, CallerFacts
  <2> QED BY <1>0, <1>1, <2>1, ReturnStep, CallerFacts
<1>2. ASSUME Bound(c), MemStep, Exclusive', CertOk', Goto(c, "close"), mem'[i].kind = mem[i].kind
      PROVE  BootInv' /\ ConfirmedKept
  <2>1. /\ Alone(c) /\ call'[c].kind = call[c].kind /\ call'[c].id = i
        /\ call'[c].all = call[c].all /\ call'[c].todo = call[c].todo
        /\ call'[c].who = call[c].who /\ call'[c].pc = "close"
    BY <1>2, GotoFields
  <2>2. c \notin Asking'
    BY <2>1 DEF Asking
  <2>3. IdsLeft'
    BY <1>0, <2>1, <2>2, IdsKept
  <2>4. CallOk(call[c])'
    BY <1>0, <1>2, <1>f, <2>1 DEF CallOk, Bound
  <2>5. /\ minted' \in 0 .. MaxIds /\ minted' >= minted /\ orphans' \subseteq 1 .. minted'
        /\ open' \subseteq open \cup {j \in Ids : j > minted}
    BY <1>0, CallerFacts
  <2> QED BY <1>0, <1>2, <2>1, <2>3, <2>4, <2>5, HolderStep, CallerFacts
<1>3. CASE Bound(c) /\ Goto(c, "close") /\ UNCHANGED <<mem, file>>
  <2>1. MemStep /\ Exclusive' /\ CertOk'
    BY <1>0, <1>3, SameMemory, CallerFacts
  <2> QED BY <1>2, <1>3, <2>1
<1>4. CASE /\ Bound(c)
           /\ mem' = [mem EXCEPT ![i].fails = IF @ < MaxFailures THEN @ + 1 ELSE @]
           /\ \/ Goto(c, "close") /\ UNCHANGED file
              \/ Persist(mem') /\ Return(c)
  <2> DEFINE k == IF mem[i].fails < MaxFailures THEN mem[i].fails + 1 ELSE mem[i].fails
             s == [mem[i] EXCEPT !.fails = k]
  <2>1. mem[i].kind \in {"attempt", "app"} /\ ~mem[i].confirmed /\ mem[i] \in Rec
    BY <1>4, <1>f, PendingFacts DEF Bound
  <2>2. k \in 0 .. MaxFailures
    BY <2>1, BootstrapAssumption DEF Rec
  <2> HIDE DEF k
  <2>3. s \in Rec /\ s.kind = mem[i].kind /\ s.confirmed = mem[i].confirmed
    BY <2>1, <2>2 DEF Rec
  <2>4. mem' = [mem EXCEPT ![i] = s]
    BY <1>4, <1>f, CallerFacts DEF k
  <2> HIDE DEF s
  <2>5. Evolves(mem[i], s)
    BY <2>1, <2>3 DEF Evolves
  <2>6. /\ MemStep /\ \A j \in Ids : Evolves(mem[j], mem'[j])
        /\ mem'[i] = s /\ \A j \in Ids : j # i => mem'[j] = mem[j]
    BY <1>4, <1>f, <2>3, <2>4, <2>5, ChangeOne
  <2>7. \A j \in Ids : mem'[j].kind = mem[j].kind
    BY <2>3, <2>6
  <2>8. Exclusive' /\ CertOk'
    BY <1>0, <2>6, <2>7, ExclusiveKept, CertKept, CallerFacts
  <2>9. CASE Goto(c, "close")
    BY <1>2, <1>4, <1>f, <2>6, <2>7, <2>8, <2>9
  <2>10. CASE Return(c)
    BY <1>0, <2>6, <2>8, <2>10, ReturnStep, CallerFacts
  <2> QED BY <1>4, <2>9, <2>10
<1> QED BY <1>1, <1>3, <1>4 DEF Verify

\* The challenge ends: with a certificate, or without one.
LEMMA SubmitCloseStep ==
    ASSUME BootInv, NEW c \in Callers, SubmitClose(c)
    PROVE  BootInv' /\ ConfirmedKept
<1> DEFINE i == call[c].id
<1>0. /\ call[c].pc = "close" /\ call[c].kind = "submit" /\ Holds(c) /\ Return(c)
      /\ UNCHANGED <<now, orphans, starts, minted, boots, confirmedOk>> /\ open' \subseteq open
  BY DEF SubmitClose, Holds, CloseOk, CloseFails
<1>f. /\ i \in Ids /\ mem[i].kind = "attempt" /\ minted \in Nat
  BY <1>0, CallerFacts DEF CallOk
<1>p. Pending(i) /\ ~mem[i].confirmed /\ mem[i] \in Rec /\ certified[i] = 0
  BY <1>f, PendingFacts
<1>1. CASE UNCHANGED <<mem, active, file, certified>>
  <2>1. MemStep /\ Exclusive' /\ CertOk'
    BY <1>0, <1>1, SameMemory, CallerFacts
  <2> QED BY <1>0, <1>1, <2>1, ReturnStep, CallerFacts
<1>2. CASE /\ active' = FALSE /\ mem' = Forget(i) /\ UNCHANGED certified
           /\ file' = file \/ Persist(mem')
  <2>1. MemStep /\ mem'[i] = None /\ \A j \in Ids : Evolves(mem[j], mem'[j])
    BY <1>2, <1>f, <1>p, ForgetOne
  <2>2. Exclusive'
    BY <1>2, <1>f, <1>p, <2>1, ExclusiveEnds, EmptyFields
  <2>3. CertOk'
    BY <1>0, <1>2, <2>1, CertKept, CallerFacts
  <2> QED BY <1>0, <1>2, <2>1, <2>2, <2>3, ReturnStep, CallerFacts
<1>3. CASE /\ active' = FALSE /\ mem' = [mem EXCEPT ![i] = CoreApproval(call[c].at)]
           /\ certified' = [certified EXCEPT ![i] = @ + 1] /\ Persist(mem')
  <2> DEFINE s == CoreApproval(call[c].at)
  <2>1. call[c].at + RecoveryTTL \in Nat /\ call[c].at + RecoveryTTL # 0
    BY CallerFacts, BootstrapAssumption DEF Caller
  <2>2. /\ s \in Rec /\ s.kind = "core" /\ s.confirmed = FALSE
        /\ s.exp = call[c].at + RecoveryTTL
    BY <2>1, EmptyFields DEF CoreApproval, Rec
  <2> HIDE DEF s
  <2>3. Evolves(mem[i], s)
    BY <1>f, <1>p, <2>1, <2>2 DEF Evolves, ValidRecord
  <2>4. /\ MemStep /\ \A j \in Ids : Evolves(mem[j], mem'[j])
        /\ mem'[i] = s /\ \A j \in Ids : j # i => mem'[j] = mem[j]
    BY <1>3, <1>f, <2>2, <2>3, ChangeOne DEF s
  <2>5. Exclusive'
    BY <1>3, <1>f, <1>p, <2>2, <2>4, ExclusiveEnds
  <2>6. /\ certified' \in [Ids -> Nat] /\ certified'[i] = 1
        /\ \A j \in Ids : j # i => certified'[j] = certified[j]
    BY <1>3, <1>f, <1>p, CallerFacts
  <2>7. i <= minted
    BY <1>0, CallerFacts DEF CallOk
  <2>8. CertOk'
    <3> SUFFICES ASSUME NEW j \in Ids
                 PROVE  /\ certified'[j] <= 1
                        /\ (mem'[j].kind \in {"attempt", "app"}) \/ j > minted'
                              => certified'[j] = 0
      BY DEF CertOk, Pending
    <3>1. CASE j = i
      BY <1>0, <1>f, <2>2, <2>4, <2>6, <2>7, <3>1, CallerFacts
    <3>2. CASE j # i
      BY <1>0, <2>4, <2>6, <3>2 DEF BootInv, CertOk, Pending
    <3> QED BY <3>1, <3>2
  <2> QED BY <1>0, <1>3, <2>4, <2>5, <2>6, <2>8, ReturnStep, CallerFacts
<1> QED BY <1>1, <1>2, <1>3 DEF SubmitClose

\* An app approval ends.
LEMMA SubmitAppCloseStep ==
    ASSUME BootInv, NEW c \in Callers, SubmitAppClose(c)
    PROVE  BootInv' /\ ConfirmedKept
<1> DEFINE i == call[c].id
<1>0. /\ call[c].pc = "close" /\ call[c].kind = "submitApp" /\ Holds(c) /\ Return(c)
      /\ UNCHANGED <<now, orphans, starts, minted, boots, certified, confirmedOk>>
      /\ open' \subseteq open
  BY DEF SubmitAppClose, Holds, CloseOk, CloseFails
<1>f. /\ i \in Ids /\ mem[i].kind = "app" /\ minted \in Nat
  BY <1>0, CallerFacts DEF CallOk
<1>p. Pending(i) /\ ~mem[i].confirmed
  BY <1>f, PendingFacts
<1>1. CASE UNCHANGED <<mem, active, file>>
  <2>1. MemStep /\ Exclusive' /\ CertOk'
    BY <1>0, <1>1, SameMemory, CallerFacts
  <2> QED BY <1>0, <1>1, <2>1, ReturnStep, CallerFacts
<1>2. CASE active' = FALSE /\ mem' = Forget(i) /\ Persist(mem')
  <2>1. MemStep /\ mem'[i] = None /\ \A j \in Ids : Evolves(mem[j], mem'[j])
    BY <1>2, <1>f, <1>p, ForgetOne
  <2>2. Exclusive'
    BY <1>2, <1>f, <1>p, <2>1, ExclusiveEnds, EmptyFields
  <2>3. CertOk'
    BY <1>0, <1>2, <2>1, CertKept, CallerFacts
  <2> QED BY <1>0, <1>2, <2>1, <2>2, <2>3, ReturnStep, CallerFacts
<1> QED BY <1>1, <1>2 DEF SubmitAppClose

-----------------------------------------------------------------------------
(* authorize_first_app, confirm_first_app, time and restarts.               *)

\* An approval that was not confirmed in time is dropped.
LEMMA ExpireCoreStep ==
    ASSUME BootInv, NEW c \in Callers, ExpireCore(c)
    PROVE  BootInv' /\ ConfirmedKept
<1> DEFINE i == call[c].id
<1>0. /\ call[c].kind \in {"authorize", "confirm"} /\ Free /\ Return(c)
      /\ mem[i].kind = "core" /\ ~mem[i].confirmed /\ mem' = Forget(i) /\ Persist(mem')
      /\ UNCHANGED <<now, active, orphans, starts, open, minted, boots, certified, confirmedOk>>
  BY DEF ExpireCore, CoreExpired
<1>f. i \in Ids
  BY <1>0, CallerFacts DEF CallOk
<1>1. /\ MemStep /\ \A j \in Ids : Evolves(mem[j], mem'[j])
      /\ \A j \in Ids : j # i => mem'[j] = mem[j]
  BY <1>0, <1>f, ForgetOne
<1>2. Exclusive'
  BY <1>0, <1>1, ExclusiveKept DEF Pending
<1>3. CertOk'
  BY <1>0, <1>1, CertKept, CallerFacts
<1> QED BY <1>0, <1>1, <1>2, <1>3, ReturnStep, CallerFacts

\* authorize changes nothing.
LEMMA AuthorizeStep ==
    ASSUME BootInv, NEW c \in Callers, Authorize(c)
    PROVE  BootInv' /\ ConfirmedKept
<1>0. /\ Free /\ Return(c)
      /\ UNCHANGED <<now, mem, active, orphans, starts, file, open, minted, boots, certified,
                     confirmedOk>>
  BY DEF Authorize
<1>1. MemStep /\ Exclusive' /\ CertOk'
  BY <1>0, SameMemory, CallerFacts
<1> QED BY <1>0, <1>1, ReturnStep, CallerFacts

\* An approval is confirmed and loses its deadline.
LEMMA ConfirmStep ==
    ASSUME BootInv, NEW c \in Callers, Confirm(c)
    PROVE  BootInv' /\ ConfirmedKept
<1> DEFINE i == call[c].id
<1>0. /\ call[c].kind = "confirm" /\ Free /\ Return(c)
      /\ confirmedOk' \subseteq confirmedOk \cup {i}
      /\ UNCHANGED <<now, active, orphans, starts, open, minted, boots, certified>>
  BY DEF Confirm
<1>f. i \in Ids /\ confirmedOk' \subseteq Ids
  BY <1>0, CallerFacts DEF CallOk
<1>1. CASE UNCHANGED <<mem, file>>
  <2>1. MemStep /\ Exclusive' /\ CertOk'
    BY <1>0, <1>1, SameMemory, CallerFacts
  <2> QED BY <1>0, <1>1, <1>f, <2>1, ReturnStep, CallerFacts
<1>2. CASE /\ mem[i].kind = "core" /\ ~mem[i].confirmed
           /\ mem' = [mem EXCEPT ![i].confirmed = TRUE, ![i].exp = 0]
           /\ file' = file \/ Persist(mem')
  <2> DEFINE s == [mem[i] EXCEPT !.confirmed = TRUE, !.exp = 0]
  <2>0. mem[i] \in Rec
    BY <1>f, CallerFacts
  <2>1. s \in Rec /\ s.kind = "core" /\ s.confirmed = TRUE /\ s.exp = 0
    BY <1>2, <2>0 DEF Rec
  <2>2. mem' = [mem EXCEPT ![i] = s]
    BY <1>2, <1>f, CallerFacts
  <2> HIDE DEF s
  <2>3. Evolves(mem[i], s)
    BY <1>2, <2>1 DEF Evolves, ValidRecord
  <2>4. /\ MemStep /\ \A j \in Ids : Evolves(mem[j], mem'[j])
        /\ mem'[i] = s /\ \A j \in Ids : j # i => mem'[j] = mem[j]
    BY <1>2, <1>f, <2>1, <2>2, <2>3, ChangeOne
  <2>5. Exclusive'
    BY <1>0, <1>2, <2>1, <2>4, ExclusiveKept
  <2>6. CertOk'
    BY <1>0, <2>4, CertKept, CallerFacts
  <2> QED BY <1>0, <1>f, <2>4, <2>5, <2>6, ReturnStep, CallerFacts
<1> QED BY <1>1, <1>2 DEF Confirm, Persist, PersistFailed

\* A record that is confirmed on disk is a Core approval without failures.
LEMMA ConfirmedOnDisk ==
    ASSUME BootInv, NEW i \in Ids, file[i].confirmed
    PROVE  file[i].kind = "core" /\ file[i] = [file[i] EXCEPT !.fails = 0]
<1>1. /\ mem[i] \in Rec /\ Sound(mem[i]) /\ mem[i].confirmed
      /\ file[i] = [mem[i] EXCEPT !.fails = 0]
  BY DEF BootInv, Types, RecordsOk
<1> QED BY <1>1 DEF Sound, Rec

\* restore takes the file's approvals; its challenges are only to be closed.
LEMMA RestartStep ==
    ASSUME BootInv, Restart
    PROVE  BootInv' /\ ConfirmedKept
<1>0. /\ boots < MaxBoots /\ Loadable /\ boots' = boots + 1
      /\ mem' = [i \in Ids |-> IF file[i].kind = "core" THEN file[i] ELSE None]
      /\ orphans' = {i \in Ids : file[i].kind \in {"attempt", "app"}}
      /\ active' = FALSE /\ starts' = [p \in Peers |-> {}] /\ call' = [c \in Callers |-> Idle]
      /\ UNCHANGED <<now, file, open, minted, certified, confirmedOk>>
  BY DEF Restart
<1>f. /\ file \in [Ids -> Rec] /\ minted \in Nat /\ Ids \subseteq Nat /\ MaxApprovals \in Nat
      /\ RecordsOk /\ CertOk
  BY BootstrapAssumption DEF BootInv, Types, Ids
<1>1. mem' \in [Ids -> Rec]
  BY <1>0, <1>f, EmptyFields
<1>2. ASSUME NEW i \in Ids
      PROVE  /\ mem'[i] \in {None, file[i]} /\ Sound(mem'[i])
             /\ ~(mem'[i].kind \in {"attempt", "app"})
             /\ mem'[i].kind # "none" => file[i].kind # "none"
             /\ i > minted' => mem'[i] = None
             /\ file'[i].confirmed => mem'[i].confirmed /\ file'[i] = [mem'[i] EXCEPT !.fails = 0]
  <2>1. mem'[i] = IF file[i].kind = "core" THEN file[i] ELSE None
    BY <1>0
  <2>2. ValidRecord(file[i])
    BY <1>f DEF RecordsOk
  <2>3. i > minted' => file[i].kind = "none"
    BY <1>0, <1>f DEF RecordsOk
  <2>4. CASE file[i].kind = "core"
    BY <1>0, <2>1, <2>2, <2>3, <2>4, ConfirmedOnDisk DEF Sound
  <2>5. CASE file[i].kind # "core"
    BY <1>0, <2>1, <2>3, <2>5, ConfirmedOnDisk, EmptyFields DEF Sound, ValidRecord
  <2> QED BY <2>4, <2>5
<1>3. Exclusive'
  <2>1. Live' = {}
    BY <1>2 DEF Live, Pending
  <2> QED BY <1>0, <2>1 DEF Exclusive
<1>4. orphans' \subseteq 1 .. minted'
  BY <1>0, <1>f DEF RecordsOk, Ids
<1>5. \A i \in Ids : Recorded(mem'[i], file'[i])
  BY <1>0, <1>2, EmptyFields DEF Recorded
<1>6. RecordsOk'
  BY <1>0, <1>2, <1>4, <1>5, <1>f DEF RecordsOk
<1>7. CertOk'
  BY <1>0, <1>2, <1>f DEF CertOk, Pending
<1>8. /\ call' \in [Callers -> Caller] /\ \A c \in Callers : call'[c] = Idle
  BY <1>0, EmptyFields
<1>9. CallsOk' /\ OneHolder'
  BY <1>8, EmptyFields DEF CallsOk, CallOk, OneHolder, Holds
<1>10. IdsLeft'
  <2>1. Asking' = {}
    BY <1>8, EmptyFields DEF Asking
  <2> QED BY <1>0, <2>1, FS_EmptySet DEF IdsLeft, BootInv, Types
<1>11. starts' \in [Peers -> SUBSET (Ids \X (0 .. MaxTime))] /\ \A p \in Peers : Few(starts'[p])
  BY <1>0, FS_EmptySet, BootstrapAssumption DEF Few
<1>12. boots' \in 0 .. MaxBoots /\ orphans' \subseteq Ids
  BY <1>0, BootstrapAssumption DEF BootInv, Types
<1>13. Types'
  BY <1>0, <1>1, <1>8, <1>11, <1>12 DEF BootInv, Types
<1> QED BY <1>0, <1>3, <1>6, <1>7, <1>9, <1>10, <1>13 DEF BootInv, ConfirmedKept

\* The clock moves alone.
LEMMA TickStep ==
    ASSUME BootInv, Tick
    PROVE  BootInv' /\ ConfirmedKept
<1>1. now' \in 0 .. MaxTime /\ UNCHANGED <<mem, active, orphans, starts, file, open, call, minted,
                                            boots, certified, confirmedOk>>
  BY BootstrapAssumption DEF Tick, BootInv, Types
<1> QED BY <1>1 DEF BootInv, Types, OneHolder, Holds, Exclusive, Live, Pending, RecordsOk,
                    CertOk, IdsLeft, Asking, CallsOk, CallOk, ConfirmedKept

-----------------------------------------------------------------------------
(* The invariant.                                                           *)

\* A new relay has no records, no workspaces and no calls.
LEMMA BootInitial == Init => BootInv
<1> SUFFICES ASSUME Init PROVE BootInv
  OBVIOUS
<1>f. 0 \in 0 .. MaxTime /\ 0 \in 0 .. MaxIds /\ 0 \in 0 .. MaxBoots /\ MaxApprovals \in Nat
      /\ MaxPeerStarts \in Nat /\ MaxIds \in Nat
  BY BootstrapAssumption
<1>1. \A i \in Ids : mem[i] = None /\ file[i] = None /\ certified[i] = 0
  BY DEF Init
<1>2. \A c \in Callers : call[c] = Idle
  BY DEF Init
<1>3. Types
  <2>1. mem \in [Ids -> Rec] /\ file \in [Ids -> Rec] /\ call \in [Callers -> Caller]
    BY EmptyFields DEF Init
  <2>2. \A p \in Peers : starts[p] = {}
    BY DEF Init
  <2>3. \A p \in Peers : Few(starts[p])
    BY <1>f, <2>2, FS_EmptySet DEF Few
  <2>4. /\ starts \in [Peers -> SUBSET (Ids \X (0 .. MaxTime))] /\ certified \in [Ids -> Nat]
    BY DEF Init
  <2> QED BY <1>f, <2>1, <2>3, <2>4 DEF Init, Types
<1>4. Exclusive
  <2>1. Live = {}
    BY <1>1, EmptyFields DEF Live, Pending
  <2> QED BY <2>1 DEF Init, Exclusive
<1>5. Fits(file)
  <2>1. /\ {i \in Ids : file[i].kind # "none"} = {} /\ {i \in Ids : file[i].kind = "core"} = {}
        /\ {i \in Ids : file[i].kind \in {"attempt", "app"}} = {}
    BY <1>1, EmptyFields
  <2>2. Size(file) = 0 /\ Bytes(file) = PendingBytes * 0 + CoreBytes * 0
    BY <2>1, FS_EmptySet DEF Size, Bytes
  <2> QED BY <2>2, BootstrapAssumption DEF Fits
<1>6. RecordsOk
  <2>1. Sound(None) /\ ValidRecord(None)
    BY EmptyFields DEF Sound, ValidRecord
  <2>2. orphans \subseteq 1 .. minted
    BY DEF Init
  <2>3. \A i \in Ids : ~file[i].confirmed /\ file[i].kind = "none" /\ mem[i] = None
    BY <1>1, EmptyFields
  <2>4. \A i \in Ids : Sound(mem[i]) /\ ValidRecord(file[i])
    BY <1>1, <2>1
  <2>5. \A i \in Ids : Recorded(mem[i], file[i])
    BY <1>1 DEF Recorded
  <2> QED BY <1>5, <2>2, <2>3, <2>4, <2>5 DEF RecordsOk
<1>7. CertOk
  BY <1>1 DEF CertOk
<1>8. IdsLeft
  <2>1. Asking = {}
    BY <1>2, EmptyFields DEF Asking
  <2> QED BY <1>f, <2>1, FS_EmptySet DEF IdsLeft, Init
<1>9. CallsOk /\ OneHolder
  BY <1>2, EmptyFields DEF CallsOk, CallOk, OneHolder, Holds
<1> QED BY <1>3, <1>4, <1>6, <1>7, <1>8, <1>9 DEF BootInv

\* Nothing happens.
LEMMA BootStutter ==
    ASSUME BootInv, UNCHANGED bootVars
    PROVE  BootInv' /\ ConfirmedKept
BY DEF bootVars, BootInv, Types, OneHolder, Holds, Exclusive, Live, Pending, RecordsOk,
       CertOk, IdsLeft, Asking, CallsOk, CallOk, ConfirmedKept

\* Every step keeps the invariant.
LEMMA BootStep == BootInv /\ [Next]_bootVars => BootInv' /\ ConfirmedKept
<1> SUFFICES ASSUME BootInv, [Next]_bootVars PROVE BootInv' /\ ConfirmedKept
  OBVIOUS
<1>1. ASSUME NEW c \in Callers, AskSome(c) PROVE BootInv' /\ ConfirmedKept
  BY <1>1, AskSomeStep
<1>2. ASSUME NEW c \in Callers, Enter(c) PROVE BootInv' /\ ConfirmedKept
  BY <1>2, SweepStep, AbortEnterStep, VerifyStep, ExpireCoreStep, AuthorizeStep, ConfirmStep
     DEF Enter, SubmitEnter, SubmitAppEnter
<1>3. ASSUME NEW c \in Callers, Serve(c) PROVE BootInv' /\ ConfirmedKept
  BY <1>3, SweepCloseStep, SweepDoneStep, CreateFailsStep, CreateStep, RollbackStep, DeliverStep,
     AbortCloseStep, SubmitCloseStep, SubmitAppCloseStep DEF Serve
<1> QED BY <1>1, <1>2, <1>3, TickStep, RestartStep, BootStutter DEF Next

\* The invariant holds always.
THEOREM BootInvariant == Spec => []BootInv
BY BootInitial, BootStep, PTL DEF Spec

\* ConfirmedForever: no step reaps or rewrites an approval that is confirmed on
\* disk, whatever is persisted or fails to be.
THEOREM BootConfirmedForever == Spec => ConfirmedForever
<1>1. BootInv /\ [Next]_bootVars =>
          [\A i \in Ids : file[i].confirmed => file'[i] = file[i]]_bootVars
  BY BootStep DEF ConfirmedKept
<1> QED BY <1>1, BootInvariant, PTL DEF Spec, ConfirmedForever

\* Only a workspace that is open, or was, is leaked.
LEMMA LeakedStep == BootInv /\ leaked \subseteq Ids /\ [Next]_bootVars => (leaked \subseteq Ids)'
<1> SUFFICES ASSUME BootInv, leaked \subseteq Ids, [Next]_bootVars PROVE leaked' \subseteq Ids
  OBVIOUS
<1>1. open \subseteq Ids /\ open' \subseteq Ids
  BY BootStep DEF BootInv, Types
<1>2. leaked' \subseteq leaked \cup open \cup open'
  <2>1. ASSUME NEW c \in Callers, AskSome(c) PROVE leaked' = leaked
    BY <2>1 DEF AskSome, AskStart, AskSubmit, AskSubmitApp, AskApp, AskCore, AskReconcile, Ask
  <2>2. ASSUME NEW c \in Callers, Enter(c) PROVE leaked' = leaked
    BY <2>2 DEF Enter, Sweep, AbortEnter, SubmitEnter, SubmitAppEnter, Verify, ExpireCore,
                Authorize, Confirm
  <2>3. ASSUME NEW c \in Callers, CreateFails(c) \/ Rollback(c)
        PROVE  leaked' \subseteq leaked \cup open'
    BY <2>3 DEF CreateFails, Rollback
  <2>4. ASSUME NEW c \in Callers, Serve(c), ~(CreateFails(c) \/ Rollback(c))
        PROVE  leaked' = leaked
    BY <2>4 DEF Serve, SweepClose, SweepDone, Create, Deliver, AbortClose, SubmitClose,
                SubmitAppClose
  <2>5. CASE Tick
    BY <2>5 DEF Tick
  <2>6. CASE Restart
    BY <2>6 DEF Restart
  <2>7. CASE UNCHANGED bootVars
    BY <2>7 DEF bootVars
  <2> QED BY <2>1, <2>2, <2>3, <2>4, <2>5, <2>6, <2>7 DEF Next
<1> QED BY <1>1, <1>2

\* RuntimeInv: the types, with at most MaxPeerStarts starts of a peer; outside
\* a call the session is marked exactly while there is one challenge; and no
\* challenge gives more than one certificate.
THEOREM BootRuntimeInv == Spec => []RuntimeInv
<1>1. BootInv /\ leaked \subseteq Ids => RuntimeInv
  <2> SUFFICES ASSUME BootInv, leaked \subseteq Ids PROVE RuntimeInv
    OBVIOUS
  <2>1. TypeOK
    BY DEF BootInv, Types, TypeOK, Few, Caller
  <2>2. Cardinality(Live) <= 1
    <3>1. CASE Live = {}
      BY <3>1, FS_EmptySet
    <3>2. ASSUME NEW i \in Live PROVE Cardinality(Live) <= 1
      <4>1. Live = {i}
        BY <3>2 DEF BootInv, Exclusive
      <4>2. Cardinality({i}) = 1
        BY FS_Singleton
      <4> QED BY <4>1, <4>2
    <3> QED BY <3>1, <3>2
  <2>3. SessionExclusive
    BY <2>2 DEF SessionExclusive, BootInv, Exclusive
  <2>4. CertificateOnce
    BY DEF CertificateOnce, BootInv, CertOk
  <2> QED BY <2>1, <2>3, <2>4 DEF RuntimeInv
<1>2. Init => leaked \subseteq Ids
  BY DEF Init
<1> QED BY <1>1, <1>2, BootInvariant, LeakedStep, PTL DEF Spec

\* AlwaysRestorable: restore accepts whatever file a crash leaves; the file
\* names every record in memory; and what is in memory can be written again,
\* within the number of records and the length, unless a Core approval has
\* taken the place of the attempt that the file still has.
THEOREM BootAlwaysRestorable == Spec => []AlwaysRestorable
<1>1. BootInv => AlwaysRestorable
  <2> SUFFICES ASSUME BootInv PROVE AlwaysRestorable
    OBVIOUS
  <2>1. /\ Fits(file) /\ \A i \in Ids : ValidRecord(file[i])
        /\ \A i \in Ids : Recorded(mem[i], file[i])
    BY DEF BootInv, RecordsOk
  <2>2. FileRestorable
    BY <2>1 DEF FileRestorable, Loadable
  <2>3. MemoryRecorded
    BY <2>1 DEF MemoryRecorded, Recorded
  <2>4. MemoryFits
    <3>1. CASE \E i \in Ids : mem[i].kind = "core" /\ file[i].kind = "attempt"
      BY <3>1 DEF MemoryFits
    <3>2. CASE \A i \in Ids : ~(mem[i].kind = "core" /\ file[i].kind = "attempt")
      <4>1. \A i \in Ids : mem[i].kind \in {"none", file[i].kind}
        BY <2>1, <3>2 DEF Recorded
      <4>2. Fits(mem)
        BY <2>1, <4>1, FitsShrinks
      <4> QED BY <4>2 DEF MemoryFits
    <3> QED BY <3>1, <3>2
  <2> QED BY <2>2, <2>3, <2>4 DEF AlwaysRestorable
<1> QED BY <1>1, BootInvariant, PTL

-----------------------------------------------------------------------------
(* Workspaces that have to be closed.                                       *)

\* The workspace a call is going to close: of an attempt that it aborts, or
\* that it could not record.
Closing(c) == IF call[c].pc \in {"rollback", "abort"} THEN {call[c].id} ELSE {}

\* The records and one caller account for what that caller can lose sight of.
Watched(c) == Live \cup orphans \cup call[c].all \cup Closing(c)

\* The caller still accounts for what it watched or opened; so do the records.
Sees(c) == \A w \in open' : w \in Watched(c) \/ w \notin open => w \in Watched(c)' \cup leaked'
Filed(c) == \A w \in open' : w \in Watched(c) \/ w \notin open
                               => w \in Live' \cup orphans' \cup leaked'

\* The other callers keep what they have.
LEMMA TrackedKept ==
    ASSUME LeaksOnlyIgnored, NEW c \in Callers, Alone(c), leaked \subseteq leaked', Sees(c)
    PROVE  LeaksOnlyIgnored'
<1> SUFFICES ASSUME NEW w \in open' PROVE w \in Tracked' \cup leaked'
  BY DEF LeaksOnlyIgnored
<1>0. ASSUME NEW d \in Callers
      PROVE  /\ call'[d].pc \in {"rollback", "abort"} => call'[d].id \in Tracked'
             /\ call'[d].all \subseteq Tracked'
  BY DEF Tracked
<1>1. Watched(c)' \subseteq Tracked'
  <2>1. Closing(c)' \subseteq Tracked'
    BY <1>0 DEF Closing
  <2>2. Live' \subseteq Tracked' /\ orphans' \subseteq Tracked'
    BY DEF Tracked
  <2> QED BY <1>0, <2>1, <2>2 DEF Watched
<1>2. CASE w \in Watched(c) \/ w \notin open
  BY <1>1, <1>2 DEF Sees
<1>3. ASSUME NEW d \in Callers, w \in call[d].all PROVE w \in Tracked' \cup leaked'
  <2>1. CASE d = c
    BY <1>2, <1>3, <2>1 DEF Watched
  <2>2. CASE d # c
    BY <1>0, <1>3, <2>2 DEF Alone
  <2> QED BY <2>1, <2>2
<1>4. ASSUME NEW d \in Callers, call[d].pc \in {"rollback", "abort"}, w = call[d].id
      PROVE  w \in Tracked' \cup leaked'
  <2>1. CASE d = c
    BY <1>2, <1>4, <2>1 DEF Watched, Closing
  <2>2. CASE d # c
    BY <1>0, <1>4, <2>2 DEF Alone
  <2> QED BY <2>1, <2>2
<1>5. \/ w \notin open
      \/ w \in leaked
      \/ w \in Live \cup orphans
      \/ \E d \in Callers : w \in call[d].all
      \/ \E d \in Callers : call[d].pc \in {"rollback", "abort"} /\ w = call[d].id
  BY DEF LeaksOnlyIgnored, Tracked
<1> QED BY <1>2, <1>3, <1>4, <1>5 DEF Watched

\* A call that returns leaves what it watched closed, recorded or leaked.
LEMMA TrackedReturn ==
    ASSUME BootInv, LeaksOnlyIgnored, NEW c \in Callers, Return(c), leaked \subseteq leaked',
           Filed(c)
    PROVE  LeaksOnlyIgnored'
<1>1. Alone(c)
  BY ReturnFields
<1>2. Sees(c)
  BY DEF Watched, Sees, Filed
<1> QED BY <1>1, <1>2, TrackedKept

\* What a caller knows of its workspaces at each step.
LEMMA WatchedFacts ==
    ASSUME BootInv, NEW c \in Callers
    PROVE  /\ call[c].pc \in {"idle", "wait", "close"} => Watched(c) = Live \cup orphans
           /\ call[c].pc \in {"create", "deliver"} =>
                 Watched(c) \cap open \subseteq Live \cup orphans
           /\ call[c].pc = "rollback" =>
                 Watched(c) \cap open \subseteq Live \cup orphans \cup {call[c].id}
           /\ call[c].pc = "reap" => /\ Watched(c) = Live \cup call[c].all /\ orphans = {}
                                     /\ (call[c].all \ call[c].todo) \cap open = {}
           /\ call[c].pc = "abort" => Watched(c) = Live \cup orphans \cup {call[c].id}
           /\ minted + 1 \notin Watched(c) \/ call[c].pc # "create"
<1>1. CallOk(call[c])
  BY CallerFacts
<1>2. CASE call[c].pc = "create"
  <2>1. minted + 1 \notin call[c].all /\ minted + 1 \notin orphans /\ minted + 1 \notin Live
    <3>1. call[c].all \subseteq 1 .. minted /\ orphans \subseteq 1 .. minted /\ minted \in Nat
      BY <1>1, CallerFacts DEF CallOk
    <3>2. minted + 1 \notin 1 .. minted
      BY <3>1
    <3> QED BY <1>2, <3>1, <3>2, CreateFacts
  <2> QED BY <1>1, <1>2, <2>1 DEF CallOk, Watched, Closing
<1>3. CASE call[c].pc # "create"
  BY <1>1, <1>3 DEF CallOk, Watched, Closing
<1> QED BY <1>2, <1>3

\* No step of a caller loses sight of a workspace that has to be closed.
LEMMA TrackedCaller ==
    ASSUME BootInv, LeaksOnlyIgnored, NEW c \in Callers, AskSome(c) \/ Enter(c) \/ Serve(c)
    PROVE  LeaksOnlyIgnored'
<1> DEFINE i == call[c].id
<1>l. UNCHANGED mem => Live' = Live
  BY DEF Live, Pending
<1>k. (\A j \in Ids : mem'[j].kind = mem[j].kind) => Live' = Live
  BY DEF Live, Pending
<1>n. /\ open' \subseteq open /\ Watched(c) \cap open' \subseteq Watched(c)' => Sees(c)
      /\ open' \subseteq open /\ (\A w \in open' : w \in Watched(c) => w \in Live' \cup orphans')
            => Filed(c)
      /\ Filed(c) => Sees(c)
  BY DEF Sees, Filed, Watched
<1>1. CASE AskSome(c)
  <2>1. /\ call[c].pc = "idle" /\ UNCHANGED <<mem, orphans, open, leaked>>
        /\ \A d \in Callers : d # c => call'[d] = call[d]
    BY <1>1, CallerFacts DEF AskSome, AskStart, AskSubmit, AskSubmitApp, AskApp, AskCore,
                             AskReconcile, Ask
  <2>2. Alone(c)
    BY <1>1, <2>1, AskSomeStep DEF Alone, BootInv, Types
  <2>3. Watched(c) \cap open' \subseteq Watched(c)'
    BY <1>l, <2>1, WatchedFacts DEF Watched
  <2> QED BY <1>n, <2>1, <2>2, <2>3, TrackedKept
<1>2. CASE Sweep(c)
  <2> DEFINE dead == {j \in Ids : PendingExpired(mem[j], call[c].at)}
             r == [call[c] EXCEPT !.pc = "reap", !.all = orphans \cup dead,
                       !.todo = orphans \cup dead,
                       !.reaped = ({j \in Ids : CoreExpired(mem[j], call[c].at)} # {})]
  <2>1. /\ call[c].pc = "wait" /\ UNCHANGED <<open, leaked>> /\ call' = [call EXCEPT ![c] = r]
        /\ \A j \in Ids : Pending(j) => j \in dead \/ mem'[j] = mem[j]
    BY <1>2 DEF Sweep, CoreExpired, Pending
  <2>2. r.all = orphans \cup dead /\ call \in [Callers -> Caller]
    BY CallerFacts DEF Caller
  <2>3. call'[c].all = orphans \cup dead /\ \A d \in Callers : d # c => call'[d] = call[d]
    BY <2>1, <2>2
  <2>4. Alone(c)
    BY <1>2, <2>3, SweepStep DEF Alone, BootInv, Types
  <2>5. Live \subseteq Live' \cup dead
    BY <2>1 DEF Live, Pending
  <2>6. Watched(c) \cap open' \subseteq Watched(c)'
    BY <2>1, <2>3, <2>5, WatchedFacts DEF Watched
  <2> QED BY <1>n, <2>1, <2>4, <2>6, TrackedKept
<1>3. CASE SweepClose(c)
  <2>1. call[c].pc = "reap" /\ UNCHANGED <<mem, leaked>> /\ open' \subseteq open
    BY <1>3 DEF SweepClose, CloseOk, CloseFails
  <2>2. PICK v \in call[c].todo :
            \/ call' = [call EXCEPT ![c].todo = @ \ {v}] /\ UNCHANGED orphans
            \/ orphans' = call[c].all /\ Return(c)
    BY <1>3 DEF SweepClose
  <2>3. CASE orphans' = call[c].all /\ Return(c)
    <3>1. \A w \in open' : w \in Watched(c) => w \in Live' \cup orphans'
      BY <1>l, <2>1, <2>3, WatchedFacts
    <3> QED BY <1>n, <2>1, <2>3, <3>1, TrackedReturn
  <2>4. CASE call' = [call EXCEPT ![c].todo = @ \ {v}] /\ UNCHANGED orphans
    <3>1. call'[c].all = call[c].all /\ \A d \in Callers : d # c => call'[d] = call[d]
      BY <2>4, CallerFacts DEF Caller
    <3>2. Alone(c)
      BY <1>3, <3>1, SweepCloseStep DEF Alone, BootInv, Types
    <3>3. Watched(c) \cap open' \subseteq Watched(c)'
      BY <1>l, <2>1, <2>4, <3>1, WatchedFacts DEF Watched
    <3> QED BY <1>n, <2>1, <3>2, <3>3, TrackedKept
  <2> QED BY <2>2, <2>3, <2>4
<1>4. CASE SweepDone(c)
  <2>1. /\ call[c].pc = "reap" /\ call[c].todo = {} /\ UNCHANGED <<mem, orphans, open, leaked>>
        /\ Return(c) \/ Goto(c, "create")
    BY <1>4, AdmitFacts DEF SweepDone
  <2>2. \A w \in open' : w \in Watched(c) => w \in Live' \cup orphans'
    BY <1>l, <2>1, WatchedFacts
  <2>3. CASE Return(c)
    BY <1>n, <2>1, <2>2, <2>3, TrackedReturn
  <2>4. CASE Goto(c, "create")
    <3>1. Alone(c)
      BY <2>4, GotoFields
    <3> QED BY <1>n, <2>1, <2>2, <3>1, TrackedKept
  <2> QED BY <2>1, <2>3, <2>4
<1>5. CASE CreateFails(c) \/ Rollback(c)
  <2>1. /\ Return(c) /\ UNCHANGED <<mem, orphans>> /\ leaked \subseteq leaked'
        /\ \/ /\ call[c].pc = "create" /\ open' \subseteq open \cup {minted + 1}
              /\ open' \ open \subseteq leaked'
           \/ /\ call[c].pc = "rollback" /\ open' \subseteq open
              /\ {call[c].id} \cap open' \subseteq leaked'
    BY <1>5 DEF CreateFails, Rollback, CloseFails
  <2>2. Filed(c)
    BY <1>l, <2>1, WatchedFacts DEF Filed
  <2> QED BY <2>1, <2>2, TrackedReturn
<1>6. CASE Create(c)
  <2>1. /\ call[c].pc = "create" /\ UNCHANGED <<orphans, leaked>>
        /\ open' = open \cup {minted + 1}
    BY <1>6 DEF Create
  <2>2. Live = {} /\ Watched(c) \cap open \subseteq orphans /\ minted + 1 \notin Watched(c)
    BY <2>1, CreateFacts, WatchedFacts
  <2>3. minted + 1 \in Watched(c)'
    <3>1. CASE call' = [call EXCEPT ![c] = [@ EXCEPT !.pc = "rollback", !.id = minted + 1]]
      <4>1. call'[c].pc = "rollback" /\ call'[c].id = minted + 1
        BY <3>1, CallerFacts DEF Caller
      <4> QED BY <4>1 DEF Watched, Closing
    <3>2. CASE /\ PersistOk(mem') /\ mem' = [mem EXCEPT ![minted + 1] = NewRecord(c)]
               /\ active' = TRUE
      <4>1. minted + 1 \in Live'
        BY <1>6, <2>1, <3>2, CreateRecorded DEF Create
      <4> QED BY <4>1 DEF Watched
    <3> QED BY <1>6, <3>1, <3>2 DEF Create
  <2>4. Sees(c)
    BY <2>1, <2>2, <2>3 DEF Sees, Watched
  <2>5. \A d \in Callers : d # c => call'[d] = call[d]
    BY <1>6, CallerFacts DEF Create
  <2>6. Alone(c)
    BY <1>6, <2>5, CreateStep DEF Alone, BootInv, Types
  <2> QED BY <2>1, <2>4, <2>6, TrackedKept
<1>7. CASE Deliver(c)
  <2>1. /\ call[c].pc = "deliver" /\ UNCHANGED <<mem, orphans, open, leaked>>
        /\ \A d \in Callers : d # c => call'[d] = call[d]
    BY <1>7, CallerFacts DEF Deliver, Return
  <2>2. Alone(c)
    BY <1>7, <2>1, DeliverStep DEF Alone, BootInv, Types
  <2>3. Watched(c) \cap open' \subseteq Watched(c)'
    BY <1>l, <2>1, WatchedFacts DEF Watched
  <2> QED BY <1>n, <2>1, <2>2, <2>3, TrackedKept
<1>8. CASE AbortEnter(c)
  <2>1. call[c].pc = "wait" /\ UNCHANGED <<orphans, open, leaked>>
    BY <1>8 DEF AbortEnter
  <2>2. CASE Return(c) /\ UNCHANGED mem
    <3>1. \A w \in open' : w \in Watched(c) => w \in Live' \cup orphans'
      BY <1>l, <2>1, <2>2, WatchedFacts
    <3> QED BY <1>n, <2>1, <2>2, <3>1, TrackedReturn
  <2>3. CASE mem' = Forget(i) /\ Goto(c, "abort")
    <3>1. Alone(c) /\ call'[c].id = i /\ call'[c].pc = "abort"
      BY <2>3, GotoFields
    <3>2. \A j \in Ids : j # i => mem'[j] = mem[j]
      BY <2>3, CallerFacts DEF Forget
    <3>3. Live \subseteq Live' \cup {i}
      BY <3>2 DEF Live, Pending
    <3>4. Watched(c) \cap open' \subseteq Watched(c)'
      <4>1. Watched(c) = Live \cup orphans
        BY <2>1, WatchedFacts
      <4>2. i \in Watched(c)'
        BY <3>1 DEF Watched, Closing
      <4> QED BY <2>1, <3>3, <4>1, <4>2 DEF Watched
    <3> QED BY <1>n, <2>1, <3>1, <3>4, TrackedKept
  <2> QED BY <1>8, <2>2, <2>3 DEF AbortEnter
<1>9. CASE AbortClose(c)
  <2>1. /\ call[c].pc = "abort" /\ Return(c) /\ UNCHANGED <<mem, leaked>> /\ open' \subseteq open
        /\ orphans \subseteq orphans' /\ (i \in open' => i \in orphans')
    BY <1>9 DEF AbortClose, CloseOk, CloseFails
  <2>2. \A w \in open' : w \in Watched(c) => w \in Live' \cup orphans'
    BY <1>l, <2>1, WatchedFacts
  <2> QED BY <1>n, <2>1, <2>2, TrackedReturn
<1>10. CASE SubmitEnter(c) \/ SubmitAppEnter(c)
  <2>1. /\ call[c].pc = "wait" /\ UNCHANGED <<orphans, open, leaked>>
        /\ Return(c) \/ Goto(c, "close")
        /\ \/ UNCHANGED mem
           \/ mem' = [mem EXCEPT ![i].fails = IF @ < MaxFailures THEN @ + 1 ELSE @]
    BY <1>10 DEF SubmitEnter, SubmitAppEnter, Verify
  <2>2. \A j \in Ids : mem'[j].kind = mem[j].kind
    BY <2>1, CallerFacts DEF Rec
  <2>3. \A w \in open' : w \in Watched(c) => w \in Live' \cup orphans'
    BY <1>k, <2>1, <2>2, WatchedFacts
  <2>4. CASE Goto(c, "close")
    <3>1. Alone(c)
      BY <2>4, GotoFields
    <3> QED BY <1>n, <2>1, <2>3, <3>1, TrackedKept
  <2> QED BY <1>n, <2>1, <2>3, <2>4, TrackedReturn
<1>11. CASE SubmitClose(c) \/ SubmitAppClose(c)
  <2>1. /\ call[c].pc = "close" /\ UNCHANGED <<orphans, leaked>> /\ Return(c) /\ open' \subseteq open
        /\ \/ UNCHANGED mem
           \/ /\ i \notin open'
              /\ \E s : mem' = [mem EXCEPT ![i] = s]
    BY <1>11 DEF SubmitClose, SubmitAppClose, CloseOk, CloseFails, Forget
  <2>2. i \notin open' \/ UNCHANGED mem
    BY <2>1
  <2>3. \A j \in Ids : j # i \/ UNCHANGED mem => mem'[j] = mem[j]
    BY <2>1, CallerFacts
  <2>4. \A w \in open' : w \in Live => w \in Live'
    BY <2>2, <2>3 DEF Live, Pending
  <2>5. \A w \in open' : w \in Watched(c) => w \in Live' \cup orphans'
    BY <2>1, <2>4, WatchedFacts
  <2> QED BY <1>n, <2>1, <2>5, TrackedReturn
<1>12. CASE ExpireCore(c) \/ Authorize(c) \/ Confirm(c)
  <2>1. /\ call[c].pc = "wait" /\ UNCHANGED <<orphans, open, leaked>> /\ Return(c)
        /\ \/ UNCHANGED mem
           \/ /\ mem[i].kind = "core"
              /\ \A j \in Ids : j # i => mem'[j] = mem[j]
    BY <1>12, CallerFacts DEF ExpireCore, Authorize, Confirm, CoreExpired, Forget
  <2>2. Live \subseteq Live'
    BY <2>1 DEF Live, Pending
  <2>3. \A w \in open' : w \in Watched(c) => w \in Live' \cup orphans'
    BY <2>1, <2>2, WatchedFacts
  <2> QED BY <1>n, <2>1, <2>3, TrackedReturn
<1> QED BY <1>1, <1>2, <1>3, <1>4, <1>5, <1>6, <1>7, <1>8, <1>9, <1>10, <1>11, <1>12
       DEF Enter, Serve

\* After a restart the file names the workspaces of the records; the others
\* that were to be closed are counted as leaked.
LEMMA TrackedRestart ==
    ASSUME BootInv, LeaksOnlyIgnored, Restart
    PROVE  LeaksOnlyIgnored'
<1>1. /\ orphans' = {i \in Ids : file[i].kind \in {"attempt", "app"}} /\ UNCHANGED open
      /\ leaked' = leaked \cup ((Tracked \ (Live \cup orphans')) \cap open)
  BY DEF Restart
<1>2. Live \subseteq orphans'
  <2> SUFFICES ASSUME NEW i \in Live PROVE i \in orphans'
    OBVIOUS
  <2>1. i \in Ids /\ mem[i].kind \in {"attempt", "app"} /\ Recorded(mem[i], file[i])
    BY DEF Live, Pending, BootInv, RecordsOk
  <2> QED BY <1>1, <2>1 DEF Recorded
<1>3. orphans' \subseteq Tracked'
  BY DEF Tracked
<1>4. open \subseteq Tracked \cup leaked
  BY DEF LeaksOnlyIgnored
<1>5. open' \subseteq Tracked' \cup leaked'
  BY <1>1, <1>2, <1>3, <1>4
<1> QED BY <1>5 DEF LeaksOnlyIgnored

\* LeaksOnlyIgnored: an open workspace has a record, waits for another close or
\* is with a call that will close it; or its close failed where the code
\* ignores that, or was known to the memory alone when the process stopped.
THEOREM BootLeaksOnlyIgnored == Spec => []LeaksOnlyIgnored
<1>1. Init => LeaksOnlyIgnored
  BY DEF Init, LeaksOnlyIgnored
<1>2. BootInv /\ LeaksOnlyIgnored /\ [Next]_bootVars => LeaksOnlyIgnored'
  <2> SUFFICES ASSUME BootInv, LeaksOnlyIgnored, [Next]_bootVars PROVE LeaksOnlyIgnored'
    OBVIOUS
  <2>1. CASE Tick
    BY <2>1 DEF Tick, LeaksOnlyIgnored, Tracked, Live, Pending
  <2>2. CASE UNCHANGED bootVars
    BY <2>2 DEF bootVars, LeaksOnlyIgnored, Tracked, Live, Pending
  <2> QED BY <2>1, <2>2, TrackedCaller, TrackedRestart DEF Next
<1> QED BY <1>1, <1>2, BootInvariant, PTL DEF Spec
=============================================================================
