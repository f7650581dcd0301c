--------------------------- MODULE IssuanceProofs ----------------------------
(***************************************************************************)
(* The invariants of the issuance of App certificates, for every number of *)
(* handlers, approvals and Apps and every choice of lifetimes.             *)
(*                                                                         *)
(* A handler goes from one file to the other without a lock that covers    *)
(* both, so the argument is about what a handler knows between two steps:  *)
(* `HandlersKnow'.  A confirmation is of the approval it names because no  *)
(* two approvals have the same certificate: `Owned'.  That no second       *)
(* certificate is made is an argument over time: until the clock reaches   *)
(* ResultTTL no transaction can prune a record, not even one that uses the *)
(* time at which its submit began.                                         *)
(***************************************************************************)
EXTENDS Issuance, FiniteSetTheorems, TLAPS

Record  == [status : {"none", "pending", "issued"}, fp : {0} \cup Certs, until : Nat]
Entry   == [state : {"none", "pending", "active", "revoked"}, fp : {0} \cup Certs]
Handler == [pc : Steps, a : Approvals, at : 0 .. MaxTime, fp : {0} \cup Certs]

Kept(m) == {a \in Approvals : m[a].status # "none"}

Few(m) == IsFiniteSet(Kept(m)) /\ Cardinality(Kept(m)) <= MaxRecords

\* The types of TypeOK; finiteness gives the bound on the records its meaning.
Types ==
    /\ now \in 0 .. MaxTime /\ certs \in 0 .. MaxCerts /\ crashes \in 0 .. MaxCrashes
    /\ approval \in [Approvals -> States] /\ saved \in [Approvals \ Later -> States]
    /\ results \in [Approvals -> Record] /\ Few(results)
    /\ allow \in [Apps -> Entry] /\ cached \in [Apps -> Entry]
    /\ handler \in [Handlers -> Handler]
    /\ made \in [Approvals -> SUBSET Certs] /\ told \in [Approvals -> SUBSET Certs]
    /\ conns \subseteq Certs

\* What a handler knows between two transactions.
Knows(r) ==
    /\ r.at <= now
    /\ r.pc \in {"attach", "enroll", "mark"} => r.fp # 0
    /\ r.pc = "mark" => allow[AppOf[r.a]].fp = r.fp
    /\ r.pc \in {"first", "reload", "activate"} => r.fp \in told[r.a]
    /\ r.pc \in {"reload", "activate"} => Settled(r.a)

HandlersKnow == \A h \in Handlers : Knows(handler[h])

\* What a record says is so: a certificate that is issued is listed.  It is
\* retained for ResultTTL at least.
Says(a, r) ==
    /\ r.status = "issued" => r.fp # 0 /\ allow[AppOf[a]].fp = r.fp
    /\ r.status # "none" => r.until >= ResultTTL

FilesAgree ==
    /\ \A x \in Apps : allow[x].state = "none" => allow[x].fp = 0
    /\ \A a \in Approvals : Says(a, results[a])

\* Before ResultTTL an approval has one certificate, or one handler that is
\* about to make it, and then also a record.
OneUnderWay ==
    now < ResultTTL =>
        /\ \A a \in Approvals : made[a] # {} => results[a].status # "none"
        /\ \A a \in Approvals, c, d \in Certs : c \in made[a] /\ d \in made[a] => c = d
        /\ \A h \in Handlers : handler[h].pc = "issue" =>
              /\ results[handler[h].a].status # "none"
              /\ made[handler[h].a] = {}
        /\ \A h, g \in Handlers :
              /\ handler[h].pc = "issue" /\ handler[g].pc = "issue"
              /\ handler[h].a = handler[g].a
              => h = g

IssInv == Types /\ HandlersKnow /\ FilesAgree /\ OneUnderWay /\ ActiveWasDelivered

\* A certificate is of one approval, and so are its records, its answers and the
\* handlers that carry it: a confirmation cannot take one for another.
Owned ==
    /\ \A a \in Approvals : \A c \in made[a] : c \in Certs /\ c <= certs
    /\ \A a, b \in Approvals : \A c \in made[a] : c \in made[b] => a = b
    /\ \A a \in Approvals : told[a] \subseteq made[a]
    /\ \A a \in Approvals : results[a].fp # 0 => results[a].fp \in made[a]
    /\ \A h \in Handlers : /\ handler[h].pc \in {"attach", "enroll", "mark", "answer"}
                            /\ handler[h].fp # 0
                            => handler[h].fp \in made[handler[h].a]

-----------------------------------------------------------------------------
(* Lemmas about the operators of the model.                                 *)

\* An idle handler is well-formed.
LEMMA IdleIsHandler ==
    ASSUME TRUE
    PROVE  /\ Idle \in Handler /\ Idle.pc = "idle" /\ Idle.at = 0
           /\ NoRecord \in Record /\ NoRecord.status = "none"
           /\ NoEntry \in Entry /\ NoEntry.state = "none" /\ NoEntry.fp = 0
<1>1. (CHOOSE a \in Approvals : TRUE) \in Approvals
  BY IssuanceAssumption
<1>2. 0 \in 0 .. MaxTime
  BY IssuanceAssumption
<1> QED BY <1>1, <1>2 DEF Idle, Handler, Steps, NoRecord, Record, NoEntry, Entry

\* Pruning keeps a record or clears its slot.
LEMMA PruneShape ==
    ASSUME Types, NEW t
    PROVE  /\ Prune(t) \in [Approvals -> Record]
           /\ \A a \in Approvals : Prune(t)[a] = results[a] \/ Prune(t)[a] = NoRecord
           /\ Few(Prune(t))
<1>1. /\ Prune(t) \in [Approvals -> Record]
      /\ \A a \in Approvals : Prune(t)[a] = results[a] \/ Prune(t)[a] = NoRecord
  BY IdleIsHandler DEF Prune, Types
<1>2. Kept(Prune(t)) \subseteq Kept(results)
  BY <1>1, IdleIsHandler DEF Kept
<1>3. /\ IsFiniteSet(Kept(Prune(t)))
      /\ Cardinality(Kept(Prune(t))) <= Cardinality(Kept(results))
  BY <1>2, FS_Subset DEF Types, Few
<1>4. /\ Cardinality(Kept(Prune(t))) \in Nat /\ Cardinality(Kept(results)) \in Nat
      /\ Cardinality(Kept(results)) <= MaxRecords /\ MaxRecords \in Nat
  BY <1>3, FS_CardinalityType, IssuanceAssumption DEF Types, Few
<1>5. Cardinality(Kept(Prune(t))) <= MaxRecords
  BY <1>3, <1>4
<1> QED BY <1>1, <1>3, <1>5 DEF Few

\* Before ResultTTL pruning with a time that is not in the future drops nothing.
LEMMA PruneEarly ==
    ASSUME Types, FilesAgree, now < ResultTTL, NEW t \in Nat, t <= now
    PROVE  \A a \in Approvals :
               results[a].status # "none" => Prune(t)[a] = results[a]
<1>1. ASSUME NEW a \in Approvals, results[a].status # "none"
      PROVE  results[a].until > t
  <2>1. results[a].until \in Nat /\ results[a].until >= ResultTTL
    BY <1>1 DEF Types, FilesAgree, Says, Record
  <2>2. ResultTTL \in Nat /\ now \in Nat
    BY IssuanceAssumption DEF Types
  <2> QED BY <2>1, <2>2
<1> QED BY <1>1 DEF Prune, Retained

\* A change of one record that is there, or of one slot below the bound.
LEMMA FewSet ==
    ASSUME NEW m \in [Approvals -> Record], Few(m), NEW a \in Approvals, NEW r \in Record,
           m[a].status # "none" \/ ~(Cardinality(Kept(m)) >= MaxRecords)
    PROVE  Few([m EXCEPT ![a] = r])
<1> DEFINE n == [m EXCEPT ![a] = r]
<1>1. Kept(n) \subseteq Kept(m) \cup {a}
  BY DEF Kept
<1>2. /\ IsFiniteSet(Kept(m) \cup {a})
      /\ Cardinality(Kept(m) \cup {a}) =
            IF a \in Kept(m) THEN Cardinality(Kept(m)) ELSE Cardinality(Kept(m)) + 1
  BY FS_AddElement DEF Few
<1>3. /\ IsFiniteSet(Kept(n)) /\ Cardinality(Kept(n)) <= Cardinality(Kept(m) \cup {a})
  BY <1>1, <1>2, FS_Subset
<1>4. /\ Cardinality(Kept(n)) \in Nat /\ Cardinality(Kept(m)) \in Nat
      /\ Cardinality(Kept(m) \cup {a}) \in Nat /\ MaxRecords \in Nat
  BY <1>2, <1>3, FS_CardinalityType, IssuanceAssumption DEF Few
<1>5. Cardinality(Kept(m)) <= MaxRecords /\ (m[a].status # "none" => a \in Kept(m))
  BY DEF Few, Kept
<1>6. Cardinality(Kept(n)) <= MaxRecords
  BY <1>2, <1>3, <1>4, <1>5
<1> QED BY <1>3, <1>6 DEF Few

-----------------------------------------------------------------------------
(* What keeps the parts of the invariant.                                   *)

\* The Cores forget nothing they were told, and what is settled stays so.
Learns ==
    /\ \A a \in Approvals : told[a] \subseteq told'[a]
    /\ \A a \in Approvals : Settled(a) => Settled(a)'

\* The allowlist gives no App another fingerprint.
Grows ==
    /\ now' >= now
    /\ \A x \in Apps : allow[x].fp # 0 => allow'[x].fp = allow[x].fp
    /\ Learns

\* Nothing is forgotten where nothing of it changes.
LEMMA LearnsSame ==
    ASSUME UNCHANGED <<approval, told, crashes>>
    PROVE  Learns
BY DEF Learns, Settled

\* What the runtime writes has the type of its file.
LEMMA SaveType ==
    ASSUME approval' \in [Approvals -> States], Save
    PROVE  saved' \in [Approvals \ Later -> States]
BY DEF Save

\* What a handler knows stays true while others run.
LEMMA KnowKept ==
    ASSUME IssInv, Grows, now' \in Nat,
           \A h \in Handlers : handler'[h] = handler[h] \/ Knows(handler[h])'
    PROVE  HandlersKnow'
<1> SUFFICES ASSUME NEW h \in Handlers, handler'[h] = handler[h] PROVE Knows(handler[h])'
  BY DEF HandlersKnow
<1>1. Knows(handler[h]) /\ handler[h] \in Handler /\ AppOf[handler[h].a] \in Apps
  BY IssuanceAssumption DEF IssInv, HandlersKnow, Types, Handler
<1>2. now \in Nat /\ handler[h].at \in Nat
  BY <1>1, IssuanceAssumption DEF IssInv, Types, Handler
<1>3. handler[h].at <= now'
  BY <1>1, <1>2 DEF Knows, Grows
<1>4. handler[h].pc = "mark" => allow'[AppOf[handler[h].a]].fp = handler[h].fp
  BY <1>1 DEF Knows, Grows
<1>5. handler[h].pc \in {"first", "reload", "activate"} =>
          handler[h].fp \in told'[handler[h].a]
  BY <1>1 DEF Knows, Grows, Learns, Handler
<1>6. handler[h].pc \in {"reload", "activate"} => Settled(handler[h].a)'
  <2>1. handler'[h].a = handler[h].a /\ handler[h].a \in Approvals
    BY <1>1 DEF Handler
  <2>2. PICK a \in Approvals : a = handler[h].a
    BY <2>1
  <2>3. Settled(a) => Settled(a)'
    BY DEF Grows, Learns
  <2> QED BY <1>1, <2>1, <2>2, <2>3 DEF Knows, Settled
<1>7. handler'[h] = handler[h]
  OBVIOUS
<1> QED BY <1>1, <1>3, <1>4, <1>5, <1>6, <1>7 DEF Knows, Settled

\* The files go on agreeing while others run.
LEMMA AgreeKept ==
    ASSUME IssInv, Grows,
           \A x \in Apps : allow'[x].state = "none" => allow'[x].fp = 0,
           \A a \in Approvals : \/ results'[a] = results[a]
                                \/ results'[a].status = "none"
                                \/ Says(a, results[a])'
    PROVE  FilesAgree'
<1> SUFFICES ASSUME NEW a \in Approvals PROVE Says(a, results[a])'
  BY DEF FilesAgree
<1>1. Says(a, results[a]) /\ AppOf[a] \in Apps
  BY IssuanceAssumption DEF IssInv, FilesAgree
<1>2. CASE results'[a] = results[a]
  BY <1>1, <1>2 DEF Says, Grows
<1>3. CASE results'[a].status = "none"
  BY <1>3 DEF Says
<1> QED BY <1>2, <1>3

\* Nothing new is under way, and no record is lost before ResultTTL.
LEMMA UnderWayKept ==
    ASSUME IssInv, now' >= now, now' \in Nat, UNCHANGED made,
           now < ResultTTL => \A a \in Approvals :
               results[a].status # "none" => results'[a].status # "none",
           \A h \in Handlers : handler'[h] = handler[h] \/ handler'[h].pc # "issue"
    PROVE  OneUnderWay'
<1> SUFFICES ASSUME now' < ResultTTL PROVE OneUnderWay'
  BY DEF OneUnderWay
<1>1. now < ResultTTL
  BY IssuanceAssumption DEF IssInv, Types
<1>2. \A h \in Handlers : handler[h].a \in Approvals
  BY DEF IssInv, Types, Handler
<1> QED BY <1>1, <1>2 DEF IssInv, OneUnderWay

\* An entry that is active was delivered while others run.
LEMMA DeliveredKept ==
    ASSUME IssInv, Grows,
           \A x \in Apps : \/ allow'[x] = allow[x]
                           \/ allow'[x].state # "active"
                           \/ \E a \in Approvals : AppOf[a] = x /\ allow'[x].fp \in told'[a]
                                                    /\ Settled(a)'
    PROVE  ActiveWasDelivered'
BY DEF IssInv, ActiveWasDelivered, Grows, Learns

\* All parts at once, for a step that changes neither list nor records.
LEMMA QuietKept ==
    ASSUME IssInv, Types', UNCHANGED <<results, allow, made>>,
           now' >= now,
           Learns,
           \A h \in Handlers :
               handler'[h] = handler[h] \/ (Knows(handler[h])' /\ handler'[h].pc # "issue")
    PROVE  IssInv'
<1>1. Grows /\ now' \in Nat
  BY IssuanceAssumption DEF Grows, Types
<1>2. FilesAgree'
  BY <1>1, AgreeKept DEF IssInv, FilesAgree
<1> QED BY <1>1, <1>2, KnowKept, UnderWayKept, DeliveredKept DEF IssInv

\* An idle handler knows all it has to.
LEMMA IdleKnows ==
    ASSUME IssInv, NEW h \in Handlers, Fail(h), now' \in Nat
    PROVE  /\ handler' \in [Handlers -> Handler]
           /\ \A g \in Handlers :
                 handler'[g] = handler[g] \/ (Knows(handler[g])' /\ handler'[g].pc # "issue")
<1>1. handler \in [Handlers -> Handler]
  BY DEF IssInv, Types
<1>2. Knows(handler[h])' /\ handler'[h].pc # "issue"
  BY <1>1, IdleIsHandler DEF Fail, Knows
<1> QED BY <1>1, <1>2, IdleIsHandler DEF Fail, Knows

-----------------------------------------------------------------------------
(* The steps of a submit.                                                   *)

\* The fields of a handler.
LEMMA HandlerFields ==
    ASSUME IssInv, NEW h \in Handlers
    PROVE  /\ handler[h] \in Handler /\ handler[h].a \in Approvals
           /\ handler[h].at \in 0 .. MaxTime /\ handler[h].fp \in {0} \cup Certs
           /\ AppOf[handler[h].a] \in Apps
           /\ now \in Nat /\ handler[h].at \in Nat /\ handler[h].at <= now
           /\ AuthTTL \in Nat /\ ResultTTL \in Nat /\ Knows(handler[h])
BY IssuanceAssumption DEF IssInv, Types, Handler, HandlersKnow, Knows

\* A handler that goes on with a new record of its own.
LEMMA GoOn ==
    ASSUME IssInv, NEW h \in Handlers, NEW r \in Handler,
           handler' = [handler EXCEPT ![h] = r]
    PROVE  /\ handler' \in [Handlers -> Handler] /\ handler'[h] = r
           /\ \A g \in Handlers : g # h => handler'[g] = handler[g]
BY DEF IssInv, Types

\* A step of one handler that leaves the records, the list and the
\* certificates alone: it goes on with what it knows, or returns.
LEMMA HandlerStep ==
    ASSUME IssInv, Types', UNCHANGED <<now, results, allow, made>>,
           Learns,
           NEW h \in Handlers, handler'[h].pc # "issue", Knows(handler[h])',
           \A g \in Handlers : g # h => handler'[g] = handler[g]
    PROVE  IssInv'
<1>1. now' >= now
  BY IssuanceAssumption DEF IssInv, Types
<1>2. \A g \in Handlers :
          handler'[g] = handler[g] \/ (Knows(handler[g])' /\ handler'[g].pc # "issue")
  BY DEF Knows
<1> QED BY <1>1, <1>2, QuietKept

\* The bootstrap runtime lets a submit through, or drops the approval.
LEMMA AuthorizeStep ==
    ASSUME IssInv, NEW h \in Handlers, NEW a \in Approvals, Authorize(h, a)
    PROVE  IssInv'
<1> DEFINE r == [Idle EXCEPT !.pc = "authorized", !.a = a, !.at = now]
<1>0. Types /\ now \in Nat
  BY IssuanceAssumption DEF IssInv, Types
<1>1. r \in Handler /\ r.pc = "authorized" /\ r.at = now
  BY IdleIsHandler DEF IssInv, Types, Handler, Steps
<1>2. UNCHANGED <<now, results, allow, cached, certs, made, told, conns, crashes>>
  BY DEF Authorize
<1>3. /\ approval' \in [Approvals -> States]
      /\ \A b \in Approvals : approval'[b] = approval[b] \/ approval'[b] = "gone"
  BY <1>0 DEF Authorize, Types, States
<1>4. saved' \in [Approvals \ Later -> States]
  BY <1>0, <1>3, SaveType DEF Authorize, Types
<1>5. handler' = [handler EXCEPT ![h] = r] \/ UNCHANGED handler
  BY DEF Authorize
<1>6. Learns
  BY <1>2, <1>3 DEF Learns, Settled
<1> HIDE DEF r
<1>7. CASE UNCHANGED handler
  <2>1. Types'
    BY <1>0, <1>2, <1>3, <1>4, <1>7 DEF Types
  <2> QED BY <1>0, <1>2, <1>6, <1>7, <2>1, QuietKept
<1>8. CASE handler' = [handler EXCEPT ![h] = r]
  <2>1. /\ handler' \in [Handlers -> Handler] /\ handler'[h] = r
        /\ \A g \in Handlers : g # h => handler'[g] = handler[g]
    BY <1>1, <1>8, GoOn
  <2>2. Types'
    BY <1>0, <1>2, <1>3, <1>4, <2>1 DEF Types
  <2>3. Knows(handler[h])' /\ handler'[h].pc # "issue"
    BY <1>0, <1>1, <1>2, <2>1 DEF Knows
  <2> QED BY <1>2, <1>6, <2>1, <2>2, <2>3, HandlerStep
<1> QED BY <1>5, <1>7, <1>8

\* An answer is decided: the handler has only to send it.
LEMMA ReplyStep ==
    ASSUME IssInv, NEW h \in Handlers, NEW a \in Approvals, NEW r \in Record,
           Reply(h, a, r), now' = now
    PROVE  /\ handler' \in [Handlers -> Handler]
           /\ \A g \in Handlers :
                 handler'[g] = handler[g] \/ (Knows(handler[g])' /\ handler'[g].pc # "issue")
<1> DEFINE s == [Idle EXCEPT !.pc = "answer", !.a = a, !.at = now,
                             !.fp = IF r.status = "issued" THEN r.fp ELSE 0]
<1>0. now \in 0 .. MaxTime /\ now \in Nat /\ r.fp \in {0} \cup Certs
  BY IssuanceAssumption DEF IssInv, Types, Record
<1>1. s \in Handler /\ s.pc = "answer" /\ s.at = now
  BY <1>0, IdleIsHandler DEF Handler, Steps
<1>2. handler' = [handler EXCEPT ![h] = s]
  BY DEF Reply
<1> HIDE DEF s
<1>3. /\ handler' \in [Handlers -> Handler] /\ handler'[h] = s
      /\ \A g \in Handlers : g # h => handler'[g] = handler[g]
  BY <1>1, <1>2, GoOn
<1>4. Knows(handler[h])' /\ handler'[h].pc # "issue"
  BY <1>0, <1>1, <1>3 DEF Knows
<1> QED BY <1>3, <1>4 DEF Knows

\* A transaction that only prunes.
LEMMA PruneStep ==
    ASSUME IssInv, NEW t \in Nat, t <= now, results' = Prune(t), Types',
           UNCHANGED <<now, allow, made>>,
           Learns,
           \A h \in Handlers :
               handler'[h] = handler[h] \/ (Knows(handler[h])' /\ handler'[h].pc # "issue")
    PROVE  IssInv'
<1>0. Types /\ FilesAgree /\ now \in Nat
  BY IssuanceAssumption DEF IssInv, Types
<1>1. Grows
  BY <1>0 DEF Grows
<1>2. \A a \in Approvals : results'[a] = results[a] \/ results'[a].status = "none"
  BY <1>0, PruneShape, IdleIsHandler
<1>3. FilesAgree'
  BY <1>0, <1>1, <1>2, AgreeKept DEF FilesAgree
<1>4. now < ResultTTL => \A a \in Approvals :
          results[a].status # "none" => results'[a].status # "none"
  BY <1>0, PruneEarly
<1>5. OneUnderWay'
  BY <1>0, <1>4, UnderWayKept
<1> QED BY <1>0, <1>1, <1>3, <1>5, KnowKept, DeliveredKept DEF IssInv

\* begin_pending: the record is there before the certificate is made.
LEMMA BeginStep ==
    ASSUME IssInv, NEW h \in Handlers, BeginPending(h)
    PROVE  IssInv'
<1> DEFINE a == handler[h].a
<1>0. /\ Types /\ FilesAgree /\ HandlersKnow /\ OneUnderWay
  BY DEF IssInv
<1>u. UNCHANGED <<now, approval, saved, allow, cached, certs, made, told, conns, crashes>>
  BY DEF BeginPending
<1>l. Learns
  BY <1>u, LearnsSame
<1>f. /\ handler[h] \in Handler /\ a \in Approvals /\ now \in Nat /\ now \in 0 .. MaxTime
      /\ AuthTTL \in Nat /\ ResultTTL \in Nat
  BY <1>0, HandlerFields DEF Types
<1>p. /\ Prune(now) \in [Approvals -> Record] /\ Few(Prune(now))
      /\ \A b \in Approvals : Prune(now)[b] = results[b] \/ Prune(now)[b] = NoRecord
  BY <1>0, PruneShape
<1>1. CASE Fail(h) /\ UNCHANGED results
  <2>1. now' \in Nat /\ now' >= now
    BY <1>1, <1>u, <1>f
  <2>2. /\ handler' \in [Handlers -> Handler]
        /\ \A g \in Handlers :
              handler'[g] = handler[g] \/ (Knows(handler[g])' /\ handler'[g].pc # "issue")
    BY <1>1, <2>1, IdleKnows
  <2>3. Types'
    BY <1>0, <1>1, <1>u, <2>2 DEF Types
  <2> QED BY <1>1, <1>u, <1>l, <2>1, <2>2, <2>3, QuietKept
<1>2. CASE /\ Prune(now)[a].status # "none" /\ results' = Prune(now)
           /\ Reply(h, a, Prune(now)[a])
  <2>1. Prune(now)[a] \in Record
    BY <1>f, <1>p
  <2>2. /\ handler' \in [Handlers -> Handler]
        /\ \A g \in Handlers :
              handler'[g] = handler[g] \/ (Knows(handler[g])' /\ handler'[g].pc # "issue")
    BY <1>2, <1>u, <1>f, <2>1, ReplyStep
  <2>3. Types'
    BY <1>0, <1>2, <1>u, <1>p, <2>2 DEF Types
  <2> QED BY <1>2, <1>u, <1>f, <1>l, <2>2, <2>3, PruneStep
<1>3. CASE /\ Prune(now)[a].status = "none"
           /\ ~(Cardinality(Kept(Prune(now))) >= MaxRecords)
           /\ results' = [Prune(now) EXCEPT ![a] = [status |-> "pending", fp |-> 0,
                                                   until |-> now + AuthTTL + ResultTTL]]
           /\ handler' = [handler EXCEPT ![h].pc = "issue", ![h].at = now]
  <2> DEFINE r == [status |-> "pending", fp |-> 0, until |-> now + AuthTTL + ResultTTL]
             s == [handler[h] EXCEPT !.pc = "issue", !.at = now]
  <2>1. r \in Record /\ r.status = "pending" /\ r.until >= ResultTTL
    BY <1>f DEF Record
  <2>2. results' = [Prune(now) EXCEPT ![a] = r]
    BY <1>3
  <2>3. s \in Handler /\ s.pc = "issue" /\ s.at = now /\ s.a = a
    BY <1>f DEF Handler, Steps
  <2>4. handler' = [handler EXCEPT ![h] = s]
    BY <1>0, <1>3 DEF Types
  <2> HIDE DEF r, s
  <2>5. /\ handler' \in [Handlers -> Handler] /\ handler'[h] = s
        /\ \A g \in Handlers : g # h => handler'[g] = handler[g]
    BY <2>3, <2>4, GoOn
  <2>6. /\ results' \in [Approvals -> Record] /\ results'[a] = r
        /\ \A b \in Approvals : b # a => results'[b] = Prune(now)[b]
    BY <1>f, <1>p, <2>1, <2>2
  <2>7. Few(results')
    <3>1. Few([Prune(now) EXCEPT ![a] = r])
      BY <1>3, <1>f, <1>p, <2>1, FewSet
    <3> QED BY <2>2, <3>1
  <2>8. Types'
    BY <1>0, <1>3, <1>u, <2>5, <2>6, <2>7 DEF Types, Few, Kept
  <2>9. Grows
    BY <1>3, <1>u, <1>f, <1>l DEF Grows
  <2>10. Knows(handler[h])'
    BY <1>u, <1>f, <2>3, <2>5 DEF Knows
  <2>11. HandlersKnow'
    BY <1>u, <1>f, <2>5, <2>9, <2>10, KnowKept
  <2>12. \A b \in Approvals : \/ results'[b] = results[b]
                              \/ results'[b].status = "none"
                              \/ Says(b, results[b])'
    BY <1>p, <2>1, <2>6, IdleIsHandler DEF Says
  <2>13. FilesAgree'
    BY <1>0, <1>u, <2>9, <2>12, AgreeKept DEF FilesAgree
  <2>14. ActiveWasDelivered'
    BY <1>u, <2>9, DeliveredKept
  <2>15. ASSUME now < ResultTTL
         PROVE  /\ results[a].status = "none" /\ made[a] = {}
                /\ \A g \in Handlers : handler[g].pc = "issue" => handler[g].a # a
                /\ \A b \in Approvals : results[b].status # "none" => results'[b].status # "none"
    <3>1. \A b \in Approvals : results[b].status # "none" => Prune(now)[b] = results[b]
      BY <1>0, <1>f, <2>15, PruneEarly
    <3>2. results[a].status = "none"
      BY <1>3, <1>f, <3>1
    <3> QED BY <1>0, <1>f, <2>15, <2>1, <2>6, <3>1, <3>2 DEF OneUnderWay
  <2>16. OneUnderWay'
    <3> SUFFICES ASSUME now < ResultTTL PROVE OneUnderWay'
      BY <1>u DEF OneUnderWay
    <3>1. \A g \in Handlers : g # h /\ handler[g].pc = "issue" =>
              handler[g].a \in Approvals /\ handler[g].a # a
      BY <2>15, HandlerFields
    <3>2. \A b \in Approvals : made'[b] # {} => results'[b].status # "none"
      BY <1>0, <1>u, <2>15 DEF OneUnderWay
    <3>3. \A b \in Approvals, c, d \in Certs : c \in made'[b] /\ d \in made'[b] => c = d
      BY <1>0, <1>u DEF OneUnderWay
    <3>4. ASSUME NEW g \in Handlers, handler'[g].pc = "issue"
          PROVE  results'[handler'[g].a].status # "none" /\ made'[handler'[g].a] = {}
      <4>1. CASE g = h
        BY <1>u, <2>1, <2>3, <2>5, <2>6, <2>15, <4>1
      <4>2. CASE g # h
        BY <1>0, <1>u, <2>5, <2>15, <3>1, <3>4, <4>2 DEF OneUnderWay
      <4> QED BY <4>1, <4>2
    <3>5. ASSUME NEW g \in Handlers, NEW k \in Handlers, g # k,
                 handler'[g].pc = "issue", handler'[k].pc = "issue"
          PROVE  handler'[g].a # handler'[k].a
      BY <1>0, <2>3, <2>5, <3>1, <3>5 DEF OneUnderWay
    <3> QED BY <3>2, <3>3, <3>4, <3>5 DEF OneUnderWay
  <2> QED BY <2>8, <2>11, <2>13, <2>14, <2>16 DEF IssInv
<1> QED BY <1>1, <1>2, <1>3 DEF BeginPending, Kept

\* A step of one handler that returns and leaves them alone.
LEMMA ReturnStep ==
    ASSUME IssInv, NEW h \in Handlers, Fail(h),
           UNCHANGED <<now, results, allow, made, certs, crashes, conns>>,
           told' \in [Approvals -> SUBSET Certs], Learns,
           cached' \in [Apps -> Entry],
           approval' \in [Approvals -> States], saved' \in [Approvals \ Later -> States]
    PROVE  IssInv'
<1>1. now' \in Nat /\ now' >= now
  BY IssuanceAssumption DEF IssInv, Types
<1>2. /\ handler' \in [Handlers -> Handler]
      /\ \A g \in Handlers :
            handler'[g] = handler[g] \/ (Knows(handler[g])' /\ handler'[g].pc # "issue")
  BY <1>1, IdleKnows
<1>3. Types'
  BY <1>2 DEF IssInv, Types
<1> QED BY <1>1, <1>2, <1>3, QuietKept

\* The certificate is made: it is the only one of its approval.
LEMMA IssueStep ==
    ASSUME IssInv, NEW h \in Handlers, IssueCertificate(h)
    PROVE  IssInv'
<1> DEFINE a == handler[h].a
<1>0. Types /\ HandlersKnow /\ FilesAgree /\ OneUnderWay
  BY DEF IssInv
<1>u. UNCHANGED <<now, approval, saved, results, allow, cached, told, conns, crashes>>
  BY DEF IssueCertificate
<1>f. /\ handler[h] \in Handler /\ a \in Approvals /\ now \in Nat /\ handler[h].at <= now
  BY HandlerFields
<1>1. CASE Fail(h) /\ UNCHANGED <<certs, made>>
  BY <1>0, <1>1, <1>u, ReturnStep, LearnsSame DEF Types
<1>2. CASE /\ certs < MaxCerts /\ certs' = certs + 1
           /\ made' = [made EXCEPT ![a] = @ \cup {certs'}]
           /\ handler' = [handler EXCEPT ![h].pc = "attach", ![h].fp = certs']
  <2> DEFINE s == [handler[h] EXCEPT !.pc = "attach", !.fp = certs']
  <2>1. certs' \in Certs /\ certs' \in 0 .. MaxCerts /\ certs' # 0
    BY <1>0, <1>2, IssuanceAssumption DEF Types, Certs
  <2>2. s \in Handler /\ s.pc = "attach" /\ s.fp = certs' /\ s.a = a /\ s.at = handler[h].at
    BY <1>f, <2>1 DEF Handler, Steps
  <2>3. handler' = [handler EXCEPT ![h] = s]
    BY <1>0, <1>2 DEF Types
  <2> HIDE DEF s
  <2>4. /\ handler' \in [Handlers -> Handler] /\ handler'[h] = s
        /\ \A g \in Handlers : g # h => handler'[g] = handler[g]
    BY <2>2, <2>3, GoOn
  <2>5. /\ made' \in [Approvals -> SUBSET Certs]
        /\ made'[a] = made[a] \cup {certs'}
        /\ \A b \in Approvals : b # a => made'[b] = made[b]
    BY <1>0, <1>2, <1>f, <2>1 DEF Types
  <2>6. Types'
    BY <1>0, <1>u, <2>1, <2>4, <2>5 DEF Types
  <2>7. Grows
    BY <1>u, <1>f, LearnsSame DEF Grows
  <2>8. Knows(handler[h])'
    BY <1>u, <1>f, <2>1, <2>2, <2>4 DEF Knows
  <2>9. HandlersKnow'
    BY <1>u, <1>f, <2>4, <2>7, <2>8, KnowKept DEF Knows
  <2>10. FilesAgree'
    BY <1>0, <1>u, <2>7, AgreeKept DEF FilesAgree
  <2>11. ActiveWasDelivered'
    BY <1>u, <2>7, DeliveredKept
  <2>12. OneUnderWay'
    <3> SUFFICES ASSUME now < ResultTTL PROVE OneUnderWay'
      BY <1>u DEF OneUnderWay
    <3>1. handler[h].pc = "issue"
      BY DEF IssueCertificate
    <3>2. made[a] = {} /\ results[a].status # "none"
      BY <1>0, <3>1 DEF OneUnderWay
    <3>3. \A b \in Approvals : made'[b] # {} => results'[b].status # "none"
      BY <1>0, <1>u, <2>5, <3>2 DEF OneUnderWay
    <3>4. \A b \in Approvals, c, d \in Certs : c \in made'[b] /\ d \in made'[b] => c = d
      BY <1>0, <2>5, <3>2 DEF OneUnderWay
    <3>5. ASSUME NEW g \in Handlers, handler'[g].pc = "issue"
          PROVE  /\ g # h /\ handler'[g] = handler[g] /\ handler[g].a # a
                 /\ handler[g].a \in Approvals
      <4>1. g # h
        BY <2>2, <2>4, <3>5
      <4> QED BY <1>0, <2>4, <3>1, <3>5, <4>1 DEF OneUnderWay, Types, Handler
    <3>6. \A g \in Handlers : handler'[g].pc = "issue" =>
              results'[handler'[g].a].status # "none" /\ made'[handler'[g].a] = {}
      BY <1>0, <1>u, <2>5, <3>5 DEF OneUnderWay
    <3>7. \A g, k \in Handlers :
              /\ handler'[g].pc = "issue" /\ handler'[k].pc = "issue"
              /\ handler'[g].a = handler'[k].a
              => g = k
      BY <1>0, <3>5 DEF OneUnderWay
    <3> QED BY <3>3, <3>4, <3>6, <3>7 DEF OneUnderWay
  <2> QED BY <2>6, <2>9, <2>10, <2>11, <2>12 DEF IssInv
<1> QED BY <1>1, <1>2 DEF IssueCertificate

\* A transaction that prunes and writes the record of the handler's approval.
LEMMA WriteStep ==
    ASSUME IssInv, Types', NEW h \in Handlers, NEW r \in Record,
           UNCHANGED <<now, allow, made>>,
           Prune(handler[h].at)[handler[h].a].status # "none",
           results' = [Prune(handler[h].at) EXCEPT ![handler[h].a] = r],
           r.status # "none", Says(handler[h].a, r),
           Learns,
           \A g \in Handlers :
               handler'[g] = handler[g] \/ (Knows(handler[g])' /\ handler'[g].pc # "issue")
    PROVE  IssInv'
<1> DEFINE a == handler[h].a
           t == handler[h].at
<1>0. Types /\ FilesAgree
  BY DEF IssInv
<1>f. a \in Approvals /\ t \in Nat /\ t <= now /\ now \in Nat
  BY HandlerFields
<1>p. /\ Prune(t) \in [Approvals -> Record]
      /\ \A b \in Approvals : Prune(t)[b] = results[b] \/ Prune(t)[b] = NoRecord
  BY <1>0, PruneShape
<1>1. Grows
  BY <1>f DEF Grows
<1>2. /\ results'[a] = r /\ \A b \in Approvals : b # a => results'[b] = Prune(t)[b]
  BY <1>f, <1>p
<1>3. PICK d \in Approvals : d = a
  BY <1>f
<1>s. Says(d, r)'
  BY <1>3 DEF Says
<1>4. \A c \in Approvals : \/ results'[c] = results[c]
                           \/ results'[c].status = "none"
                           \/ Says(c, results[c])'
  BY <1>p, <1>2, <1>3, <1>s, IdleIsHandler DEF Says
<1>5. FilesAgree'
  BY <1>0, <1>1, <1>4, AgreeKept DEF FilesAgree
<1>6. now < ResultTTL => \A b \in Approvals :
          results[b].status # "none" => results'[b].status # "none"
  <2>1. now < ResultTTL => \A b \in Approvals :
            results[b].status # "none" => Prune(t)[b] = results[b]
    BY <1>0, <1>f, PruneEarly
  <2> QED BY <1>2, <2>1
<1>7. OneUnderWay'
  BY <1>f, <1>6, UnderWayKept
<1> QED BY <1>f, <1>1, <1>5, <1>7, KnowKept, DeliveredKept DEF IssInv

\* attach_certificate: the fingerprint goes into the record that is there.
LEMMA AttachStep ==
    ASSUME IssInv, NEW h \in Handlers, AttachCertificate(h)
    PROVE  IssInv'
<1> DEFINE a == handler[h].a
           kept == Prune(handler[h].at)
<1>0. Types /\ FilesAgree
  BY DEF IssInv
<1>u. UNCHANGED <<now, approval, saved, allow, cached, certs, made, told, conns, crashes>>
  BY DEF AttachCertificate
<1>f. /\ handler[h] \in Handler /\ a \in Approvals /\ now \in Nat /\ handler[h].at <= now
      /\ handler[h].fp \in {0} \cup Certs /\ Knows(handler[h])
  BY HandlerFields
<1>1. CASE Fail(h) /\ UNCHANGED results
  BY <1>0, <1>1, <1>u, ReturnStep, LearnsSame DEF Types
<1>2. CASE /\ kept[a].status # "none" /\ kept[a].fp = 0
           /\ results' = [kept EXCEPT ![a].fp = handler[h].fp]
           /\ Step(h, "enroll")
  <2> DEFINE r == [kept[a] EXCEPT !.fp = handler[h].fp]
             s == [handler[h] EXCEPT !.pc = "enroll"]
  <2>1. /\ kept \in [Approvals -> Record] /\ Few(kept)
        /\ \A b \in Approvals : kept[b] = results[b] \/ kept[b] = NoRecord
    BY <1>0, PruneShape
  <2>2. kept[a] = results[a] /\ results[a] \in Record /\ Says(a, results[a])
    BY <1>0, <1>2, <1>f, <2>1, IdleIsHandler DEF FilesAgree, Types
  <2>3. /\ r \in Record /\ r.status = results[a].status /\ r.until = results[a].until
        /\ r.fp = handler[h].fp
    BY <1>f, <2>2 DEF Record
  <2>4. r.status # "none" /\ r.status # "issued" /\ Says(a, r)
    BY <1>2, <2>2, <2>3 DEF Says
  <2>5. results' = [kept EXCEPT ![a] = r]
    BY <1>2, <1>f, <2>1
  <2>6. /\ s \in Handler /\ s.pc = "enroll" /\ s.fp = handler[h].fp /\ s.at = handler[h].at
    BY <1>f DEF Handler, Steps
  <2>7. handler' = [handler EXCEPT ![h] = s]
    BY <1>0, <1>2 DEF Step, Types
  <2> HIDE DEF r, s
  <2>8. /\ handler' \in [Handlers -> Handler] /\ handler'[h] = s
        /\ \A g \in Handlers : g # h => handler'[g] = handler[g]
    BY <2>6, <2>7, GoOn
  <2>9. handler[h].fp # 0
    BY <1>f DEF Knows, AttachCertificate
  <2>10. Knows(handler[h])' /\ handler'[h].pc # "issue"
    BY <1>u, <1>f, <2>6, <2>8, <2>9 DEF Knows
  <2>11. \A g \in Handlers :
             handler'[g] = handler[g] \/ (Knows(handler[g])' /\ handler'[g].pc # "issue")
    BY <2>8, <2>10 DEF Knows
  <2>12. Few([kept EXCEPT ![a] = r])
    BY <1>2, <1>f, <2>1, <2>3, FewSet
  <2>13. results' \in [Approvals -> Record] /\ Few(results')
    BY <1>f, <2>1, <2>3, <2>5, <2>12
  <2>14. Types'
    BY <1>0, <1>u, <2>8, <2>13 DEF Types, Few, Kept
  <2>15. Learns
    BY <1>u, LearnsSame
  <2> QED BY <1>2, <1>u, <2>3, <2>4, <2>5, <2>11, <2>14, <2>15, WriteStep
<1> QED BY <1>1, <1>2 DEF AttachCertificate

\* A change of the entry of one App that keeps a fingerprint it has.
LEMMA ListStep ==
    ASSUME IssInv, Types', UNCHANGED <<now, results, made, told>>, Learns,
           NEW x \in Apps, NEW e \in Entry, allow' = [allow EXCEPT ![x] = e],
           allow[x].fp # 0 => e.fp = allow[x].fp,
           e.state # "none",
           \/ e.state # "active"
           \/ \E a \in Approvals : AppOf[a] = x /\ e.fp \in told[a] /\ Settled(a),
           \A h \in Handlers :
               handler'[h] = handler[h] \/ (Knows(handler[h])' /\ handler'[h].pc # "issue")
    PROVE  IssInv'
<1>0. Types /\ FilesAgree /\ now \in Nat
  BY IssuanceAssumption DEF IssInv, Types
<1>1. allow'[x] = e /\ \A y \in Apps : y # x => allow'[y] = allow[y]
  BY <1>0 DEF Types
<1>2. Grows
  BY <1>0, <1>1 DEF Grows
<1>3. FilesAgree'
  BY <1>0, <1>1, <1>2, AgreeKept DEF FilesAgree
<1>4. ActiveWasDelivered'
  BY <1>1, <1>2, DeliveredKept DEF Learns
<1>5. OneUnderWay'
  BY <1>0, UnderWayKept
<1> QED BY <1>0, <1>2, <1>3, <1>4, <1>5, KnowKept DEF IssInv

\* The App is listed, if it never was.
LEMMA EnrollStep ==
    ASSUME IssInv, NEW h \in Handlers, EnrollPending(h)
    PROVE  IssInv'
<1> DEFINE x == AppOf[handler[h].a]
<1>0. Types /\ FilesAgree
  BY DEF IssInv
<1>u. UNCHANGED <<now, approval, saved, results, certs, made, told, conns, crashes>>
  BY DEF EnrollPending, Enrolled
<1>f. /\ handler[h] \in Handler /\ x \in Apps /\ now \in Nat /\ handler[h].at <= now
      /\ handler[h].fp \in {0} \cup Certs /\ Knows(handler[h])
  BY HandlerFields
<1>1. CASE Fail(h) /\ UNCHANGED <<allow, cached>>
  BY <1>0, <1>1, <1>u, ReturnStep, LearnsSame DEF Types
<1>2. CASE /\ allow[x] = NoEntry
           /\ allow' = [allow EXCEPT ![x] = [state |-> "pending", fp |-> handler[h].fp]]
           /\ cached' = allow'
           /\ Step(h, "mark")
  <2> DEFINE e == [state |-> "pending", fp |-> handler[h].fp]
             s == [handler[h] EXCEPT !.pc = "mark"]
  <2>1. e \in Entry /\ e.state = "pending" /\ e.fp = handler[h].fp
    BY <1>f DEF Entry
  <2>2. allow' = [allow EXCEPT ![x] = e] /\ cached' = allow'
    BY <1>2
  <2>3. /\ s \in Handler /\ s.pc = "mark" /\ s.fp = handler[h].fp /\ s.at = handler[h].at
        /\ s.a = handler[h].a
    BY <1>f DEF Handler, Steps
  <2>4. handler' = [handler EXCEPT ![h] = s]
    BY <1>0, <1>2 DEF Step, Types
  <2> HIDE DEF e, s
  <2>5. /\ handler' \in [Handlers -> Handler] /\ handler'[h] = s
        /\ \A g \in Handlers : g # h => handler'[g] = handler[g]
    BY <2>3, <2>4, GoOn
  <2>6. /\ allow' \in [Apps -> Entry] /\ allow'[x] = e
    BY <1>0, <1>f, <2>1, <2>2 DEF Types
  <2>7. Types'
    BY <1>0, <1>u, <2>2, <2>5, <2>6 DEF Types
  <2>8. handler[h].fp # 0
    BY <1>f DEF Knows, EnrollPending, Enrolled
  <2>9. Knows(handler[h])' /\ handler'[h].pc # "issue"
    BY <1>u, <1>f, <2>1, <2>3, <2>5, <2>6, <2>8 DEF Knows
  <2>10. \A g \in Handlers :
             handler'[g] = handler[g] \/ (Knows(handler[g])' /\ handler'[g].pc # "issue")
    BY <2>5, <2>9 DEF Knows
  <2>11. allow[x].fp = 0
    BY <1>2, IdleIsHandler
  <2> QED BY <1>u, <1>f, <2>1, <2>2, <2>7, <2>10, <2>11, ListStep, LearnsSame
<1> QED BY <1>1, <1>2 DEF EnrollPending, Enrolled

\* mark_issued: the result says issued only when the App is listed.
LEMMA MarkStep ==
    ASSUME IssInv, NEW h \in Handlers, MarkIssued(h)
    PROVE  IssInv'
<1> DEFINE a == handler[h].a
           kept == Prune(handler[h].at)
<1>0. Types /\ FilesAgree
  BY DEF IssInv
<1>u. UNCHANGED <<now, approval, saved, allow, cached, certs, made, told, conns, crashes>>
  BY DEF MarkIssued
<1>l. Learns
  BY <1>u, LearnsSame
<1>f. /\ handler[h] \in Handler /\ a \in Approvals /\ now \in Nat /\ handler[h].at \in Nat
      /\ handler[h].fp \in {0} \cup Certs /\ Knows(handler[h]) /\ ResultTTL \in Nat
  BY HandlerFields
<1>1. CASE Fail(h) /\ UNCHANGED results
  BY <1>0, <1>1, <1>u, ReturnStep, LearnsSame DEF Types
<1>2. CASE /\ kept[a].status # "none"
           /\ results' = [kept EXCEPT ![a] = [status |-> "issued", fp |-> handler[h].fp,
                                              until |-> handler[h].at + ResultTTL]]
           /\ Reply(h, a, results'[a])
  <2> DEFINE r == [status |-> "issued", fp |-> handler[h].fp,
                   until |-> handler[h].at + ResultTTL]
  <2>1. /\ kept \in [Approvals -> Record] /\ Few(kept)
    BY <1>0, PruneShape
  <2>2. handler[h].fp # 0 /\ allow[AppOf[a]].fp = handler[h].fp
    BY <1>f DEF Knows, MarkIssued
  <2>3. /\ r \in Record /\ r.status = "issued" /\ r.fp # 0 /\ Says(a, r)
    BY <1>f, <2>2 DEF Record, Says
  <2>4. results' = [kept EXCEPT ![a] = r]
    BY <1>2
  <2> HIDE DEF r
  <2>5. results'[a] = r /\ results' \in [Approvals -> Record]
    BY <1>f, <2>1, <2>3, <2>4
  <2>6. Few([kept EXCEPT ![a] = r])
    BY <1>2, <1>f, <2>1, <2>3, FewSet
  <2>7. /\ handler' \in [Handlers -> Handler]
        /\ \A g \in Handlers :
              handler'[g] = handler[g] \/ (Knows(handler[g])' /\ handler'[g].pc # "issue")
    <3>1. Reply(h, a, r)
      BY <1>2, <2>5
    <3> QED BY <1>u, <1>f, <2>3, <3>1, ReplyStep
  <2>8. Few(results')
    BY <2>4, <2>6
  <2>9. Types'
    BY <1>0, <1>u, <2>5, <2>7, <2>8 DEF Types, Few, Kept
  <2>10. r.status # "none"
    BY <2>3
  <2> QED BY <1>2, <1>u, <1>l, <2>3, <2>4, <2>7, <2>9, <2>10, WriteStep
<1> QED BY <1>1, <1>2 DEF MarkIssued

\* The answer is sent: a Core knows more, or it is lost.
LEMMA SendStep ==
    ASSUME IssInv, NEW h \in Handlers, SendAnswer(h)
    PROVE  IssInv'
<1>1. /\ Fail(h) /\ handler[h].fp \in {0} \cup Certs /\ told \in [Approvals -> SUBSET Certs]
      /\ UNCHANGED <<now, approval, saved, results, allow, cached, certs, made, conns, crashes>>
  BY HandlerFields DEF SendAnswer, IssInv, Types
<1>2. told' \in [Approvals -> SUBSET Certs] /\ \A b \in Approvals : told[b] \subseteq told'[b]
  BY <1>1 DEF SendAnswer
<1>3. Learns
  BY <1>1, <1>2 DEF Learns, Settled
<1> QED BY <1>1, <1>2, <1>3, ReturnStep DEF IssInv, Types

-----------------------------------------------------------------------------
(* The steps of a confirm and of a reconcile.                               *)

\* A step of no handler that changes neither list nor records.
LEMMA OutsideStep ==
    ASSUME IssInv, UNCHANGED <<now, results, allow, made, told, handler, certs, crashes>>,
           approval' \in [Approvals -> States], saved' \in [Approvals \ Later -> States],
           Learns, cached' \in [Apps -> Entry], conns' \subseteq Certs
    PROVE  IssInv'
<1>1. now' >= now
  BY IssuanceAssumption DEF IssInv, Types
<1>2. Types'
  BY DEF IssInv, Types
<1> QED BY <1>1, <1>2, QuietKept

\* The record of the certificate is found, and it is the one that was told:
\* no other approval has that certificate.
LEMMA FindStep ==
    ASSUME IssInv, Owned, NEW h \in Handlers, NEW a \in Approvals, NEW fp \in Certs,
           ConfirmFind(h, a, fp)
    PROVE  IssInv'
<1>0. Types /\ now \in Nat /\ now \in 0 .. MaxTime
  BY IssuanceAssumption DEF IssInv, Types
<1>u. /\ UNCHANGED <<now, approval, saved, allow, cached, certs, made, told, conns, crashes>>
      /\ results' = Prune(now) /\ Learns
  BY LearnsSame DEF ConfirmFind, Find
<1>p. /\ Prune(now) \in [Approvals -> Record] /\ Few(Prune(now))
      /\ \A b \in Approvals : Prune(now)[b] = results[b] \/ Prune(now)[b] = NoRecord
  BY <1>0, PruneShape
<1>1. CASE UNCHANGED handler
  <2>1. Types'
    BY <1>0, <1>1, <1>u, <1>p DEF Types
  <2> QED BY <1>0, <1>1, <1>u, <2>1, PruneStep
<1>2. CASE /\ Prune(now)[a].status # "none" /\ Prune(now)[a].fp = fp
           /\ handler' = [handler EXCEPT ![h] = [Idle EXCEPT !.pc = "first", !.a = a,
                                                         !.at = now, !.fp = fp]]
  <2> DEFINE r == [Idle EXCEPT !.pc = "first", !.a = a, !.at = now, !.fp = fp]
  <2>1. r \in Handler /\ r.pc = "first" /\ r.at = now /\ r.fp = fp /\ r.a = a
    BY <1>0, IdleIsHandler DEF Handler, Steps
  <2>2. handler' = [handler EXCEPT ![h] = r]
    BY <1>2
  <2> HIDE DEF r
  <2>3. /\ handler' \in [Handlers -> Handler] /\ handler'[h] = r
        /\ \A g \in Handlers : g # h => handler'[g] = handler[g]
    BY <2>1, <2>2, GoOn
  <2>4. fp \in told[a]
    <3>1. PICK b \in Approvals : fp \in told[b]
      BY DEF ConfirmFind, Find
    <3>2. results[a].fp = fp /\ fp # 0
      BY <1>2, <1>p, IdleIsHandler, IssuanceAssumption DEF Certs
    <3>3. fp \in made[a] /\ fp \in made[b]
      BY <3>1, <3>2 DEF Owned
    <3> QED BY <3>1, <3>3 DEF Owned
  <2>5. Types'
    BY <1>0, <1>u, <1>p, <2>3 DEF Types
  <2>6. Knows(handler[h])' /\ handler'[h].pc # "issue"
    BY <1>0, <1>u, <2>1, <2>3, <2>4 DEF Knows
  <2>7. \A g \in Handlers :
            handler'[g] = handler[g] \/ (Knows(handler[g])' /\ handler'[g].pc # "issue")
    BY <2>3, <2>6 DEF Knows
  <2> QED BY <1>0, <1>u, <2>5, <2>7, PruneStep
<1> QED BY <1>1, <1>2, <1>u DEF ConfirmFind, Find

\* confirm_first_app touches the approval only, and settles it where it goes on.
LEMMA FirstStep ==
    ASSUME IssInv, NEW h \in Handlers, ConfirmFirst(h)
    PROVE  IssInv'
<1> DEFINE a == handler[h].a
           s == [handler[h] EXCEPT !.pc = "reload"]
<1>0. Types
  BY DEF IssInv
<1>u. /\ UNCHANGED <<now, results, allow, cached, certs, made, told, conns, crashes>>
      /\ handler[h].pc = "first"
  BY DEF ConfirmFirst
<1>f. /\ handler[h] \in Handler /\ a \in Approvals /\ Knows(handler[h])
  BY HandlerFields
<1>t. /\ approval' \in [Approvals -> States] /\ (approval'[a] # "open" \/ approval' = approval)
      /\ \A b \in Approvals : b # a => approval'[b] = approval[b]
  <2>1. CASE UNCHANGED approval
    BY <1>0, <2>1 DEF Types
  <2>2. ASSUME NEW v \in {"gone", "confirmed"}, approval' = [approval EXCEPT ![a] = v]
        PROVE  /\ approval' \in [Approvals -> States] /\ approval'[a] # "open"
               /\ \A b \in Approvals : b # a => approval'[b] = approval[b]
    BY <1>0, <1>f, <2>2 DEF Types, States
  <2> QED BY <2>1, <2>2 DEF ConfirmFirst
<1>v. saved' \in [Approvals \ Later -> States]
  BY <1>0, <1>t, SaveType DEF ConfirmFirst, Types
<1>l. Learns
  BY <1>u, <1>f, <1>t DEF Learns, Settled
<1>1. CASE Fail(h)
  BY <1>0, <1>1, <1>u, <1>t, <1>v, <1>l, ReturnStep DEF Types
<1>2. CASE Step(h, "reload") /\ (a \in Later \/ approval'[a] # "open")
  <2>1. /\ s \in Handler /\ s.pc = "reload" /\ s.fp = handler[h].fp /\ s.at = handler[h].at
        /\ s.a = a
    BY <1>f DEF Handler, Steps
  <2>2. handler' = [handler EXCEPT ![h] = s]
    BY <1>0, <1>2 DEF Step, Types
  <2> HIDE DEF s
  <2>3. /\ handler' \in [Handlers -> Handler] /\ handler'[h] = s
        /\ \A g \in Handlers : g # h => handler'[g] = handler[g]
    BY <2>1, <2>2, GoOn
  <2>4. Types'
    BY <1>0, <1>u, <1>t, <1>v, <2>3 DEF Types
  <2>5. handler'[h].a \in Later \/ approval'[handler'[h].a] # "open"
    BY <1>2, <2>1, <2>3
  <2>6. Knows(handler[h])' /\ handler'[h].pc # "issue"
    BY <1>u, <1>f, <2>1, <2>3, <2>5 DEF Knows, Settled
  <2> QED BY <1>u, <1>l, <2>3, <2>4, <2>6, HandlerStep
<1>3. Fail(h) \/ (Step(h, "reload") /\ (a \in Later \/ approval'[a] # "open"))
  BY <1>0, <1>f DEF ConfirmFirst, Types
<1> QED BY <1>1, <1>2, <1>3

\* Another call of the runtime: what has expired is gone, and settled with that.
LEMMA OtherCallsStep ==
    ASSUME IssInv, OtherCalls
    PROVE  IssInv'
<1>1. /\ Types
      /\ UNCHANGED <<now, results, allow, cached, handler, certs, made, told, conns, crashes>>
  BY DEF IssInv, OtherCalls
<1>2. /\ approval' \in [Approvals -> States]
      /\ \A b \in Approvals : approval'[b] = approval[b] \/ approval'[b] = "gone"
  BY <1>1 DEF OtherCalls, Types, States
<1>3. saved' \in [Approvals \ Later -> States]
  BY <1>1, <1>2, SaveType DEF OtherCalls, Types
<1>4. Learns
  BY <1>1, <1>2 DEF Learns, Settled
<1> QED BY <1>1, <1>2, <1>3, <1>4, OutsideStep DEF Types

\* The server's copy of the list is read anew.
LEMMA ReloadStep ==
    ASSUME IssInv, NEW h \in Handlers, ConfirmReload(h)
    PROVE  IssInv'
<1> DEFINE a == handler[h].a
           s == [handler[h] EXCEPT !.pc = "activate"]
<1>0. Types
  BY DEF IssInv
<1>u. /\ UNCHANGED <<now, approval, saved, results, allow, certs, made, told, conns, crashes>>
      /\ handler[h].pc = "reload" /\ Learns
  BY LearnsSame DEF ConfirmReload, Reload
<1>f. /\ handler[h] \in Handler /\ a \in Approvals /\ Knows(handler[h])
  BY HandlerFields
<1>1. CASE Fail(h) /\ cached' \in {cached, allow}
  BY <1>0, <1>1, <1>u, ReturnStep DEF Types
<1>2. CASE cached' = allow /\ Step(h, "activate")
  <2>1. /\ s \in Handler /\ s.pc = "activate" /\ s.fp = handler[h].fp
        /\ s.at = handler[h].at /\ s.a = a
    BY <1>f DEF Handler, Steps
  <2>2. handler' = [handler EXCEPT ![h] = s]
    BY <1>0, <1>2 DEF Step, Types
  <2> HIDE DEF s
  <2>3. /\ handler' \in [Handlers -> Handler] /\ handler'[h] = s
        /\ \A g \in Handlers : g # h => handler'[g] = handler[g]
    BY <2>1, <2>2, GoOn
  <2>4. Types'
    BY <1>0, <1>2, <1>u, <2>3 DEF Types
  <2>5. Knows(handler[h])' /\ handler'[h].pc # "issue"
    BY <1>u, <1>f, <2>1, <2>3 DEF Knows, Settled
  <2> QED BY <1>u, <2>3, <2>4, <2>5, HandlerStep
<1> QED BY <1>1, <1>2 DEF ConfirmReload, Reload

\* A pending entry becomes active, for a fingerprint that a Core was told.
LEMMA ActivateStep ==
    ASSUME IssInv, NEW h \in Handlers, ConfirmActivate(h)
    PROVE  IssInv'
<1> DEFINE a == handler[h].a
           x == AppOf[a]
<1>0. Types
  BY DEF IssInv
<1>u. /\ UNCHANGED <<now, approval, saved, results, certs, made, told, conns, crashes>>
      /\ handler[h].pc = "activate" /\ Fail(h)
  BY DEF ConfirmActivate, Activated
<1>f. /\ handler[h] \in Handler /\ a \in Approvals /\ x \in Apps /\ Knows(handler[h])
      /\ now \in Nat
  BY HandlerFields
<1>1. CASE UNCHANGED <<allow, cached>>
  BY <1>0, <1>1, <1>u, ReturnStep, LearnsSame DEF Types
<1>2. CASE /\ allow[x] = [state |-> "pending", fp |-> handler[h].fp]
           /\ allow' = [allow EXCEPT ![x].state = "active"]
           /\ cached' = allow'
  <2> DEFINE e == [allow[x] EXCEPT !.state = "active"]
  <2>1. e \in Entry /\ e.state = "active" /\ e.fp = handler[h].fp /\ e.fp = allow[x].fp
    BY <1>0, <1>2, <1>f DEF Entry, Types
  <2>2. allow' = [allow EXCEPT ![x] = e] /\ cached' = allow'
    BY <1>0, <1>2, <1>f DEF Types
  <2> HIDE DEF e
  <2>3. allow' \in [Apps -> Entry]
    BY <1>0, <1>f, <2>1, <2>2 DEF Types
  <2>4. e.fp \in told[a] /\ Settled(a)
    BY <1>u, <1>f, <2>1 DEF Knows
  <2>6. /\ handler' \in [Handlers -> Handler]
        /\ \A g \in Handlers :
              handler'[g] = handler[g] \/ (Knows(handler[g])' /\ handler'[g].pc # "issue")
    BY <1>u, <1>f, IdleKnows
  <2>7. Types'
    BY <1>0, <1>u, <2>2, <2>3, <2>6 DEF Types
  <2> QED BY <1>u, <1>f, <2>1, <2>2, <2>4, <2>6, <2>7, ListStep, LearnsSame
<1> QED BY <1>1, <1>2 DEF ConfirmActivate, Activated

\* A reconcile answers with the record, or that there is none.
LEMMA ReconcileStep ==
    ASSUME IssInv, NEW h \in Handlers, NEW a \in Approvals, Reconcile(h, a)
    PROVE  IssInv'
<1>0. Types /\ now \in Nat
  BY IssuanceAssumption DEF IssInv, Types
<1>u. /\ UNCHANGED <<now, approval, saved, allow, cached, certs, made, told, conns, crashes>>
      /\ results' = Prune(now) /\ Learns
  BY LearnsSame DEF Reconcile, Find
<1>p. /\ Prune(now) \in [Approvals -> Record] /\ Few(Prune(now))
  BY <1>0, PruneShape
<1>1. /\ handler' \in [Handlers -> Handler]
      /\ \A g \in Handlers :
            handler'[g] = handler[g] \/ (Knows(handler[g])' /\ handler'[g].pc # "issue")
  <2>1. CASE UNCHANGED handler
    BY <1>0, <2>1 DEF Types
  <2>2. CASE Reply(h, a, Prune(now)[a])
    BY <1>u, <1>p, <2>2, ReplyStep
  <2> QED BY <1>u, <2>1, <2>2 DEF Reconcile, Find
<1>2. Types'
  BY <1>0, <1>u, <1>p, <1>1 DEF Types
<1> QED BY <1>0, <1>u, <1>1, <1>2, PruneStep

-----------------------------------------------------------------------------
(* The operator, the connections, the clock and a crash.                    *)

\* A revocation keeps the fingerprint.
LEMMA RevokeStep ==
    ASSUME IssInv, NEW x \in Apps, Revoke(x)
    PROVE  IssInv'
<1> DEFINE e == [allow[x] EXCEPT !.state = "revoked"]
<1>1. /\ Types /\ allow[x] \in Entry
      /\ UNCHANGED <<now, approval, saved, results, cached, handler, certs, made, told,
                     conns, crashes>>
  BY DEF IssInv, Types, Revoke, Revoked
<1>2. e \in Entry /\ e.state = "revoked" /\ e.fp = allow[x].fp
  BY <1>1 DEF Entry
<1>3. allow' = [allow EXCEPT ![x] = e]
  BY <1>1 DEF Revoke, Types, Revoked
<1> HIDE DEF e
<1>4. Types'
  BY <1>1, <1>2, <1>3 DEF Types
<1> QED BY <1>1, <1>2, <1>3, <1>4, ListStep, LearnsSame

\* Connections come and go; the copy is read anew at a tick.
LEMMA ConnectionStep ==
    ASSUME IssInv, NEW fp \in Certs, Connect(fp) \/ Recheck(fp)
    PROVE  IssInv'
<1>1. /\ cached' \in [Apps -> Entry] /\ conns' \subseteq Certs
      /\ UNCHANGED <<now, results, allow, made, told, handler, certs, crashes, approval,
                     saved>>
  BY DEF Connect, Recheck, IssInv, Types, Reload
<1> QED BY <1>1, OutsideStep, LearnsSame DEF IssInv, Types

\* The clock goes on.
LEMMA TickStep ==
    ASSUME IssInv, Tick
    PROVE  IssInv'
<1>1. Types' /\ now' >= now
  BY IssuanceAssumption DEF Tick, IssInv, Types
<1>2. UNCHANGED <<results, allow, made, told, handler, approval, crashes>>
  BY DEF Tick
<1> QED BY <1>1, <1>2, QuietKept, LearnsSame

\* A crash: no handler is left, the files are.
LEMMA CrashStep ==
    ASSUME IssInv, Crash
    PROVE  IssInv'
<1>1. /\ now \in Nat
      /\ UNCHANGED <<now, saved, results, allow, certs, made, told>>
      /\ handler' = [h \in Handlers |-> Idle]
  BY IssuanceAssumption DEF Crash, IssInv, Types
<1>t. approval' \in [Approvals -> States]
  BY DEF Crash, IssInv, Types, States
<1>2. Types'
  BY <1>1, <1>t, IdleIsHandler, IssuanceAssumption DEF Crash, IssInv, Types
<1>3. \A h \in Handlers : Knows(handler[h])' /\ handler'[h].pc # "issue"
  BY <1>1, IdleIsHandler DEF Knows
<1>4. \A h \in Handlers :
          handler'[h] = handler[h] \/ (Knows(handler[h])' /\ handler'[h].pc # "issue")
  BY <1>3 DEF Knows
<1>5. crashes' > 0
  BY IssuanceAssumption DEF Crash, IssInv, Types
<1>6. now' >= now /\ Learns
  BY <1>1, <1>5 DEF Learns, Settled
<1> QED BY <1>1, <1>2, <1>4, <1>6, QuietKept

-----------------------------------------------------------------------------
(* The theorems.                                                            *)

\* The initial state: nothing is kept, listed or made.
LEMMA IssInitial == Init => IssInv
<1> SUFFICES ASSUME Init PROVE IssInv
  OBVIOUS
<1>1. Kept(results) = {}
  BY IdleIsHandler DEF Init, Kept
<1>2. Few(results)
  BY <1>1, FS_EmptySet, IssuanceAssumption DEF Few
<1>3. Types
  BY <1>2, IdleIsHandler, IssuanceAssumption DEF Init, Types, States
<1>4. HandlersKnow
  BY IdleIsHandler DEF Init, HandlersKnow, Knows
<1>5. FilesAgree
  BY IdleIsHandler, IssuanceAssumption DEF Init, FilesAgree, Says
<1>6. OneUnderWay
  BY IdleIsHandler DEF Init, OneUnderWay
<1>7. ActiveWasDelivered
  BY IdleIsHandler DEF Init, ActiveWasDelivered
<1> QED BY <1>3, <1>4, <1>5, <1>6, <1>7 DEF IssInv

\* A step of the specification is a step of one of the lemmas.
LEMMA IssStep == IssInv /\ Owned /\ [Next]_issueVars => IssInv'
<1> SUFFICES ASSUME IssInv, Owned, [Next]_issueVars PROVE IssInv'
  OBVIOUS
<1>1. CASE UNCHANGED issueVars
  BY <1>1, OutsideStep, LearnsSame DEF issueVars, IssInv, Types
<1>2. ASSUME NEW h \in Handlers, Serve(h) PROVE IssInv'
  BY <1>2, BeginStep, IssueStep, AttachStep, EnrollStep, MarkStep, SendStep, FirstStep,
     ReloadStep, ActivateStep DEF Serve
<1>3. ASSUME NEW h \in Handlers, NEW a \in Approvals,
             Authorize(h, a) \/ (\E fp \in Certs : ConfirmFind(h, a, fp)) \/ Reconcile(h, a)
      PROVE  IssInv'
  BY <1>3, AuthorizeStep, FindStep, ReconcileStep
<1>4. ASSUME NEW x \in Apps, Revoke(x) PROVE IssInv'
  BY <1>4, RevokeStep
<1>5. ASSUME NEW fp \in Certs, Connect(fp) \/ Recheck(fp) PROVE IssInv'
  BY <1>5, ConnectionStep
<1>6. CASE OtherCalls \/ Tick \/ Crash
  BY <1>6, OtherCallsStep, TickStep, CrashStep
<1> QED BY <1>1, <1>2, <1>3, <1>4, <1>5, <1>6 DEF Next

\* A certificate stays with its approval where none is made and none is told: a
\* record or a handler has the one it had, or the other's of the same approval.
LEMMA OwnedKept ==
    ASSUME IssInv, Owned, UNCHANGED <<certs, made>>,
           \A a \in Approvals : told'[a] \subseteq made[a],
           \A a \in Approvals : results'[a].fp = results[a].fp \/ results'[a].fp = 0
                                \/ results'[a].fp \in made[a],
           \A h \in Handlers : \/ handler'[h] = handler[h]
                               \/ handler'[h].pc \notin {"attach", "enroll", "mark", "answer"}
                               \/ handler'[h].fp = 0
                               \/ handler'[h].fp \in made[handler'[h].a]
    PROVE  Owned'
BY DEF Owned

\* What pruning keeps.
LEMMA OwnedPrune ==
    ASSUME IssInv, NEW t
    PROVE  \A a \in Approvals : Prune(t)[a].fp = results[a].fp \/ Prune(t)[a].fp = 0
BY PruneShape DEF IssInv, NoRecord

\* An answer has the fingerprint of the record, or none.
LEMMA OwnedReply ==
    ASSUME IssInv, NEW h \in Handlers, NEW a \in Approvals, NEW r, Reply(h, a, r),
           r.fp = 0 \/ r.fp \in made[a]
    PROVE  \A g \in Handlers : \/ handler'[g] = handler[g]
                               \/ handler'[g].fp = 0
                               \/ handler'[g].fp \in made[handler'[g].a]
<1>1. handler \in [Handlers -> Handler] /\ Idle \in Handler
  BY IdleIsHandler DEF IssInv, Types
<1>2. handler'[h].a = a /\ (handler'[h].fp = r.fp \/ handler'[h].fp = 0)
  BY <1>1 DEF Reply, Handler
<1>3. \A g \in Handlers : g # h => handler'[g] = handler[g]
  BY <1>1 DEF Reply
<1> QED BY <1>2, <1>3

\* Every step leaves each certificate with its approval.
LEMMA OwnedStep == IssInv /\ Owned /\ [Next]_issueVars => Owned'
<1> SUFFICES ASSUME IssInv, Owned, [Next]_issueVars PROVE Owned'
  OBVIOUS
<1>t. /\ handler \in [Handlers -> Handler] /\ \A h \in Handlers : handler[h].a \in Approvals
      /\ \A a \in Approvals : told[a] \subseteq made[a]
  BY DEF IssInv, Types, Handler, Owned
<1>p. \A t : \A a \in Approvals : Prune(t)[a].fp = 0 \/ Prune(t)[a].fp \in made[a]
  <2> SUFFICES ASSUME NEW t, NEW a \in Approvals
               PROVE  Prune(t)[a].fp = 0 \/ Prune(t)[a].fp \in made[a]
    OBVIOUS
  <2> QED BY OwnedPrune DEF Owned
<1>1. CASE UNCHANGED issueVars
  BY <1>1, <1>t, OwnedKept DEF issueVars
<1>f. ASSUME NEW h \in Handlers, Fail(h)
      PROVE  \A g \in Handlers : handler'[g] = handler[g] \/ handler'[g].fp = 0
  BY <1>t, <1>f DEF Fail, Idle
<1>s. ASSUME NEW h \in Handlers, NEW pc, Step(h, pc),
             handler[h].pc \in {"attach", "enroll", "mark"} \/ pc \in {"reload", "activate"}
      PROVE  \A g \in Handlers : \/ handler'[g] = handler[g]
                                 \/ handler'[g].pc \notin {"attach", "enroll", "mark", "answer"}
                                 \/ handler'[g].fp = 0
                                 \/ handler'[g].fp \in made[handler'[g].a]
  BY <1>t, <1>s DEF Step, Owned, Handler
<1>2. ASSUME NEW h \in Handlers, BeginPending(h) PROVE Owned'
  <2> DEFINE a == handler[h].a
  <2>1. /\ UNCHANGED <<certs, made, told>> /\ a \in Approvals
        /\ Prune(now) \in [Approvals -> Record]
    BY <1>2, <1>t, PruneShape DEF BeginPending, IssInv
  <2>2. CASE Fail(h) /\ UNCHANGED results
    BY <1>f, <1>t, <2>1, <2>2, OwnedKept
  <2>3. CASE results' = Prune(now) /\ Reply(h, a, Prune(now)[a])
    BY <1>p, <1>t, <2>1, <2>3, OwnedReply, OwnedKept
  <2>4. CASE /\ results' = [Prune(now) EXCEPT ![a] = [status |-> "pending", fp |-> 0,
                                                      until |-> now + AuthTTL + ResultTTL]]
             /\ handler' = [handler EXCEPT ![h].pc = "issue", ![h].at = now]
    <3>1. \A b \in Approvals : results'[b].fp = 0 \/ results'[b].fp \in made[b]
      BY <1>p, <2>1, <2>4
    <3>2. \A g \in Handlers : handler'[g] = handler[g] \/ handler'[g].pc = "issue"
      BY <1>t, <2>4 DEF Handler
    <3> QED BY <1>t, <2>1, <3>1, <3>2, OwnedKept
  <2> QED BY <1>2, <2>2, <2>3, <2>4 DEF BeginPending
<1>3. ASSUME NEW h \in Handlers, IssueCertificate(h) PROVE Owned'
  <2> DEFINE a == handler[h].a
  <2>1. UNCHANGED <<results, told>> /\ a \in Approvals
    BY <1>3, <1>t DEF IssueCertificate
  <2>2. CASE Fail(h) /\ UNCHANGED <<certs, made>>
    BY <1>f, <1>t, <2>1, <2>2, OwnedKept
  <2>3. CASE /\ certs < MaxCerts /\ certs' = certs + 1
             /\ made' = [made EXCEPT ![a] = @ \cup {certs'}]
             /\ handler' = [handler EXCEPT ![h].pc = "attach", ![h].fp = certs']
    <3>1. certs' \in Certs /\ certs \in Nat /\ certs' = certs + 1
      BY <2>3, IssuanceAssumption DEF IssInv, Types, Certs
    <3>2. /\ made'[a] = made[a] \cup {certs'}
          /\ \A b \in Approvals : b # a => made'[b] = made[b]
      BY <2>1, <2>3 DEF IssInv, Types
    <3>3. \A b \in Approvals : \A c \in made[b] : c \in Certs /\ c <= certs /\ c \in Nat
      BY IssuanceAssumption DEF Owned, Certs
    <3>4. \A b \in Approvals : \A c \in made'[b] : c \in Certs /\ c <= certs'
      BY <3>1, <3>2, <3>3
    <3>5. \A b \in Approvals : certs' \notin made[b]
      BY <3>1, <3>3
    <3>6. \A b, d \in Approvals : \A c \in made'[b] : c \in made'[d] => b = d
      BY <3>2, <3>5 DEF Owned
    <3>7. \A b \in Approvals : made[b] \subseteq made'[b]
      BY <3>2
    <3>8. /\ handler'[h].fp = certs' /\ handler'[h].a = a
          /\ \A g \in Handlers : g # h => handler'[g] = handler[g]
      BY <1>t, <2>3 DEF Handler
    <3>9. ASSUME NEW g \in Handlers, handler'[g].pc \in {"attach", "enroll", "mark", "answer"},
                 handler'[g].fp # 0
          PROVE  handler'[g].fp \in made'[handler'[g].a]
      <4>1. CASE g = h
        BY <3>2, <3>8, <4>1
      <4>2. CASE g # h
        BY <1>t, <3>7, <3>8, <3>9, <4>2 DEF Owned
      <4> QED BY <4>1, <4>2
    <3>10. /\ \A b \in Approvals : told'[b] \subseteq made'[b]
           /\ \A b \in Approvals : results'[b].fp # 0 => results'[b].fp \in made'[b]
      BY <2>1, <3>7 DEF Owned
    <3> QED BY <3>4, <3>6, <3>9, <3>10 DEF Owned
  <2> QED BY <1>3, <2>2, <2>3 DEF IssueCertificate
<1>4. ASSUME NEW h \in Handlers, AttachCertificate(h) PROVE Owned'
  <2> DEFINE a == handler[h].a
             kept == Prune(handler[h].at)
  <2>1. /\ UNCHANGED <<certs, made, told>> /\ a \in Approvals /\ handler[h].pc = "attach"
        /\ kept \in [Approvals -> Record]
    BY <1>4, <1>t, PruneShape DEF AttachCertificate, IssInv
  <2>2. CASE Fail(h) /\ UNCHANGED results
    BY <1>f, <1>t, <2>1, <2>2, OwnedKept
  <2>3. CASE results' = [kept EXCEPT ![a].fp = handler[h].fp] /\ Step(h, "enroll")
    <3>1. handler[h].fp = 0 \/ handler[h].fp \in made[a]
      BY <2>1 DEF Owned
    <3>2. /\ results'[a].fp = handler[h].fp
          /\ \A b \in Approvals : b # a => results'[b] = kept[b]
      BY <2>1, <2>3 DEF Record
    <3>3. \A b \in Approvals : results'[b].fp = 0 \/ results'[b].fp \in made[b]
      BY <1>p, <3>1, <3>2
    <3> QED BY <1>s, <1>t, <2>1, <2>3, <3>3, OwnedKept
  <2> QED BY <1>4, <2>2, <2>3 DEF AttachCertificate
<1>5. ASSUME NEW h \in Handlers, EnrollPending(h) PROVE Owned'
  BY <1>5, <1>f, <1>s, <1>t, OwnedKept DEF EnrollPending, Enrolled
<1>6. ASSUME NEW h \in Handlers, MarkIssued(h) PROVE Owned'
  <2> DEFINE a == handler[h].a
             kept == Prune(handler[h].at)
             r == [status |-> "issued", fp |-> handler[h].fp,
                   until |-> handler[h].at + ResultTTL]
  <2>1. /\ UNCHANGED <<certs, made, told>> /\ a \in Approvals /\ handler[h].pc = "mark"
        /\ kept \in [Approvals -> Record]
    BY <1>6, <1>t, PruneShape DEF MarkIssued, IssInv
  <2>2. CASE Fail(h) /\ UNCHANGED results
    BY <1>f, <1>t, <2>1, <2>2, OwnedKept
  <2>3. CASE results' = [kept EXCEPT ![a] = r] /\ Reply(h, a, results'[a])
    <3>1. r.fp = 0 \/ r.fp \in made[a]
      BY <2>1 DEF Owned
    <3> HIDE DEF r
    <3>2. results'[a] = r /\ \A b \in Approvals : b # a => results'[b] = kept[b]
      BY <2>1, <2>3
    <3>3. \A b \in Approvals : results'[b].fp = 0 \/ results'[b].fp \in made[b]
      BY <1>p, <3>1, <3>2
    <3>4. Reply(h, a, r)
      BY <2>3, <3>2
    <3> QED BY <1>t, <2>1, <3>1, <3>3, <3>4, OwnedReply, OwnedKept
  <2> QED BY <1>6, <2>2, <2>3 DEF MarkIssued
<1>7. ASSUME NEW h \in Handlers, SendAnswer(h) PROVE Owned'
  <2>1. /\ UNCHANGED <<certs, made, results>> /\ Fail(h) /\ handler[h].pc = "answer"
        /\ handler[h].a \in Approvals /\ told \in [Approvals -> SUBSET Certs]
    BY <1>7, <1>t DEF SendAnswer, IssInv, Types
  <2>2. {handler[h].fp} \ {0} \subseteq made[handler[h].a]
    BY <2>1 DEF Owned
  <2>3. \A a \in Approvals : told'[a] \subseteq made[a]
    BY <1>7, <1>t, <2>1, <2>2 DEF SendAnswer
  <2> QED BY <1>f, <2>1, <2>3, OwnedKept
<1>8. ASSUME NEW h \in Handlers, ConfirmFirst(h) \/ ConfirmReload(h) \/ ConfirmActivate(h)
      PROVE  Owned'
  <2>1. UNCHANGED <<certs, made, results, told>>
    BY <1>8 DEF ConfirmFirst, ConfirmReload, ConfirmActivate, Activated, Reload
  <2>2. Fail(h) \/ Step(h, "reload") \/ Step(h, "activate")
    BY <1>8 DEF ConfirmFirst, ConfirmReload, ConfirmActivate, Activated, Reload
  <2> QED BY <1>f, <1>s, <1>t, <2>1, <2>2, OwnedKept
<1>9. ASSUME NEW h \in Handlers, NEW a \in Approvals, Authorize(h, a) PROVE Owned'
  <2>1. UNCHANGED <<certs, made, results, told>>
    BY <1>9 DEF Authorize
  <2>2. \A g \in Handlers : handler'[g] = handler[g] \/ handler'[g].pc = "authorized"
    BY <1>9, <1>t, IdleIsHandler DEF Authorize, Handler
  <2> QED BY <1>t, <2>1, <2>2, OwnedKept
<1>10. ASSUME NEW h \in Handlers, NEW a \in Approvals, NEW fp \in Certs, ConfirmFind(h, a, fp)
       PROVE  Owned'
  <2>1. UNCHANGED <<certs, made, told>> /\ results' = Prune(now)
    BY <1>10 DEF ConfirmFind, Find
  <2>2. \A g \in Handlers : handler'[g] = handler[g] \/ handler'[g].pc = "first"
    BY <1>10, <1>t, IdleIsHandler DEF ConfirmFind, Handler, Find
  <2> QED BY <1>p, <1>t, <2>1, <2>2, OwnedKept
<1>11. ASSUME NEW h \in Handlers, NEW a \in Approvals, Reconcile(h, a) PROVE Owned'
  <2>1. UNCHANGED <<certs, made, told>> /\ results' = Prune(now)
    BY <1>11 DEF Reconcile, Find
  <2>2. CASE UNCHANGED handler
    BY <1>p, <1>t, <2>1, <2>2, OwnedKept
  <2>3. CASE Reply(h, a, Prune(now)[a])
    BY <1>p, <1>t, <2>1, <2>3, OwnedReply, OwnedKept
  <2> QED BY <1>11, <2>1, <2>2, <2>3 DEF Reconcile, Find
<1>12. ASSUME \/ \E x \in Apps : Revoke(x)
              \/ \E fp \in Certs : Connect(fp) \/ Recheck(fp)
              \/ OtherCalls \/ Tick \/ Crash
       PROVE  Owned'
  <2>1. UNCHANGED <<certs, made, results, told>>
    BY <1>12 DEF Revoke, Connect, Recheck, OtherCalls, Tick, Crash, Revoked, Reload
  <2>2. \A g \in Handlers : handler'[g] = handler[g] \/ handler'[g].fp = 0
    BY <1>12, <1>t DEF Revoke, Connect, Recheck, OtherCalls, Tick, Crash, Idle, Revoked, Reload
  <2> QED BY <1>t, <2>1, <2>2, OwnedKept
<1> QED BY <1>1, <1>2, <1>3, <1>4, <1>5, <1>6, <1>7, <1>8, <1>9, <1>10, <1>11, <1>12
        DEF Next, Serve

\* The invariant holds in every reachable state: a handler that goes from one
\* file to the other is never contradicted by what others did meanwhile.
THEOREM IssuanceInvariant == Spec => [](IssInv /\ Owned)
<1>1. Init => Owned
  BY IdleIsHandler DEF Init, Owned, NoRecord
<1> QED BY <1>1, IssInitial, IssStep, OwnedStep, PTL DEF Spec

\* The two files agree in every reachable state, also after a crash between
\* them: a result that says issued is about the certificate that the
\* allowlist has for that App.
THEOREM IssuanceAgrees == Spec => []IssuanceInv
<1>1. IssInv => IssuanceInv
  <2> SUFFICES ASSUME IssInv PROVE IssuanceInv
    OBVIOUS
  <2>1. TypeOK
    BY DEF IssInv, Types, TypeOK, Record, Entry, Handler, Few, Kept
  <2>2. IssuedIsListed
    BY IssuanceAssumption DEF IssInv, FilesAgree, Says, IssuedIsListed
  <2> QED BY <2>1, <2>2 DEF IssuanceInv
<1> QED BY <1>1, IssuanceInvariant, PTL

\* An active certificate is one that an answer has brought to a Core, and the
\* approval it was issued for is settled: a confirmation of another approval
\* does not activate it, because each certificate is of one approval only.
THEOREM IssuanceActiveWasDelivered == Spec => []ActiveWasDelivered
<1>1. IssInv => ActiveWasDelivered
  BY DEF IssInv
<1> QED BY <1>1, IssuanceInvariant, PTL

\* A submit that is repeated, or races another, or follows a crash, issues no
\* other certificate before the first result can have been dropped.
THEOREM IssuanceNoSecond == Spec => []NoSecondWhileRetained
<1>1. IssInv => NoSecondWhileRetained
  <2> SUFFICES ASSUME IssInv, NEW a \in Approvals, Cardinality(made[a]) > 1,
                      ~(now >= ResultTTL)
               PROVE  FALSE
    BY DEF NoSecondWhileRetained
  <2>1. now < ResultTTL
    BY IssuanceAssumption DEF IssInv, Types
  <2>2. made[a] \subseteq Certs
    BY DEF IssInv, Types
  <2>3. \A c, d \in made[a] : c = d
    BY <2>1, <2>2 DEF IssInv, OneUnderWay
  <2>4. CASE made[a] = {}
    BY <2>4, FS_EmptySet
  <2>5. CASE \E c : made[a] = {c}
    BY <2>5, FS_Singleton
  <2> QED BY <2>3, <2>4, <2>5
<1> QED BY <1>1, IssuanceInvariant, PTL

\* An App has one certificate in the allowlist for ever and its revocation is
\* final: the activation, the one step that writes a state read before, reads
\* the entry again under the lock.
THEOREM IssuanceListedOnce == Spec => ListedOnceRevokedForever
<1> DEFINE Once == \A x \in Apps :
                      /\ allow[x].fp # 0 => allow'[x].fp = allow[x].fp
                      /\ allow[x].state = "revoked" => allow'[x] = allow[x]
<1>1. IssInv /\ [Next]_issueVars => [Once]_issueVars
  <2> SUFFICES ASSUME IssInv, Next PROVE Once
    OBVIOUS
  <2>0. allow \in [Apps -> Entry]
    BY DEF IssInv, Types
  <2>1. CASE UNCHANGED allow
    BY <2>1
  <2>2. ASSUME NEW h \in Handlers, EnrollPending(h) PROVE Once
    <3>1. AppOf[handler[h].a] \in Apps
      BY HandlerFields
    <3> QED BY <2>0, <2>2, <3>1, IdleIsHandler DEF EnrollPending, Enrolled
  <2>3. ASSUME NEW h \in Handlers, ConfirmActivate(h) PROVE Once
    <3>1. AppOf[handler[h].a] \in Apps
      BY HandlerFields
    <3>2. CASE UNCHANGED allow
      BY <3>2
    <3>3. ASSUME NEW x \in Apps, allow[x].state = "pending",
                 allow' = [allow EXCEPT ![x].state = "active"]
          PROVE  Once
      BY <2>0, <3>3 DEF Entry
    <3> QED BY <2>3, <3>1, <3>2, <3>3 DEF ConfirmActivate, Activated
  <2>4. ASSUME NEW x \in Apps, Revoke(x) PROVE Once
    BY <2>0, <2>4 DEF Revoke, Entry, Revoked
  <2>5. Next => \/ UNCHANGED allow
                \/ \E h \in Handlers : EnrollPending(h) \/ ConfirmActivate(h)
                \/ \E x \in Apps : Revoke(x)
    BY DEF Next, Serve, Authorize, BeginPending, IssueCertificate, AttachCertificate,
           MarkIssued, SendAnswer, ConfirmFind, ConfirmFirst, ConfirmReload, Reconcile,
           OtherCalls, Connect, Recheck, Tick, Crash, Find, Reload
  <2> QED BY <2>1, <2>2, <2>3, <2>4, <2>5
<1>2. Spec => []IssInv
  BY IssuanceInvariant, PTL
<1> QED BY <1>1, <1>2, PTL DEF Spec, ListedOnceRevokedForever
=============================================================================
