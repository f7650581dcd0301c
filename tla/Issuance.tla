------------------------------ MODULE Issuance ------------------------------
(***************************************************************************)
(* App certificates: HDE3 submit, confirm and reconcile (quic_server.rs),  *)
(* the issuance results (issuance.rs) and the allowlist (allowlist.rs,     *)
(* enrollment.rs), with the operator's revoke command and the connections  *)
(* that the allowlist admits.  A submit is a sequence of transactions on   *)
(* two files, each under its own try-lock; other handlers, the revoke      *)
(* command, the clock and a crash come in between.                         *)
(***************************************************************************)
EXTENDS Naturals, FiniteSets

CONSTANTS Handlers,     \* HDE3 connections served at a time
          Approvals,    \* approvals of Cores
          Later,        \* approvals of later Apps: used up by their submit
          Apps,         \* App identities
          AppOf,        \* the App whose CSR an approval is bound to
          MaxCerts,     \* bound: certificates issued
          MaxTime,      \* bound: clock values
          MaxCrashes,   \* bound: crashes
          RecoveryTTL,  \* CORE_APPROVAL_RECOVERY_TTL_SECS
          ResultTTL,    \* ISSUANCE_RESULT_TTL_SECS
          AuthTTL,      \* lifetime of an authorization, 300 seconds
          MaxRecords    \* MAX_ISSUANCE_RESULT_RECORDS

ASSUME IssuanceAssumption ==
    /\ Approvals # {}
    /\ Later \subseteq Approvals
    /\ AppOf \in [Approvals -> Apps]
    /\ {MaxCerts, MaxTime, MaxCrashes, RecoveryTTL, ResultTTL, AuthTTL, MaxRecords} \subseteq Nat

VARIABLES now,      \* the clock
          approval, \* what the bootstrap runtime has of an approval in memory
          saved,    \* what its state file has of the approvals of Cores
          results,  \* the issuance-result file
          allow,    \* the allowlist file
          cached,   \* the server's copy of the allowlist
          handler,  \* the HDE3 handlers
          certs,    \* certificates issued so far; their fingerprints count them
          made,     \* history: fingerprints issued for an approval
          told,     \* history: fingerprints in the answers that reached a Core
          conns,    \* fingerprints with a live QRM connection
          crashes

issueVars == <<now, approval, saved, results, allow, cached, handler, certs, made, told,
               conns, crashes>>

Certs == 1 .. MaxCerts

NoRecord == [status |-> "none", fp |-> 0, until |-> 0]
NoEntry  == [state |-> "none", fp |-> 0]
Idle     == [pc |-> "idle", a |-> CHOOSE a \in Approvals : TRUE, at |-> 0, fp |-> 0]

Steps == {"idle", "authorized", "issue", "attach", "enroll", "mark", "answer", "first",
          "reload", "activate"}

\* An approval that is not in the runtime's map is gone: it was used up, it
\* expired, or it is of a later App and the process was restarted.
States == {"open", "confirmed", "gone"}

TypeOK ==
    /\ now \in 0 .. MaxTime /\ certs \in 0 .. MaxCerts /\ crashes \in 0 .. MaxCrashes
    /\ approval \in [Approvals -> States] /\ saved \in [Approvals \ Later -> States]
    /\ results \in [Approvals -> [status : {"none", "pending", "issued"},
                                  fp : {0} \cup Certs, until : Nat]]
    /\ Cardinality({a \in Approvals : results[a].status # "none"}) <= MaxRecords
    /\ allow \in [Apps -> [state : {"none", "pending", "active", "revoked"},
                           fp : {0} \cup Certs]]
    /\ cached \in [Apps -> [state : {"none", "pending", "active", "revoked"},
                            fp : {0} \cup Certs]]
    /\ handler \in [Handlers -> [pc : Steps, a : Approvals, at : 0 .. MaxTime,
                                 fp : {0} \cup Certs]]
    /\ made \in [Approvals -> SUBSET Certs] /\ told \in [Approvals -> SUBSET Certs]
    /\ conns \subseteq Certs

Init ==
    /\ now = 0 /\ certs = 0 /\ crashes = 0
    /\ approval = [a \in Approvals |-> "open"]
    /\ saved = [a \in Approvals \ Later |-> "open"]
    /\ results = [a \in Approvals |-> NoRecord]
    /\ allow = [x \in Apps |-> NoEntry]
    /\ cached = allow
    /\ handler = [h \in Handlers |-> Idle]
    /\ made = [a \in Approvals |-> {}]
    /\ told = made
    /\ conns = {}

-----------------------------------------------------------------------------
(* Helpers *)

\* The files may be locked by another process, unreadable or not writable:
\* the transaction fails and leaves its file as it was.
Fail(h) == handler' = [handler EXCEPT ![h] = Idle]

Step(h, pc) == handler' = [handler EXCEPT ![h].pc = pc]

Retained(r, t) == r.status # "none" /\ r.until > t

\* Records past their retention are dropped by every transaction.
Prune(t) == [a \in Approvals |-> IF Retained(results[a], t) THEN results[a] ELSE NoRecord]

\* The answer to a submit or a reconcile is decided: what is issued goes with
\* its fingerprint.  It is on its way only now, the files are written.
Reply(h, a, r) ==
    handler' = [handler EXCEPT ![h] = [Idle EXCEPT !.pc = "answer", !.a = a, !.at = now,
                    !.fp = IF r.status = "issued" THEN r.fp ELSE 0]]

\* The runtime writes all it has in memory, or fails and leaves its file.
Save == saved' = [a \in Approvals \ Later |-> approval'[a]]

\* Only the approval of a Core that is not confirmed expires here.
Expired(a) == a \notin Later /\ approval[a] = "open" /\ now > RecoveryTTL

\* A result is looked up in the file as it is now.
Find == results' = Prune(now)

\* The entries of the allowlist.  One per App for ever: an App that has one,
\* revoked or not, gets no other.
Enrolled(x, fp) ==
    allow[x] = NoEntry /\ allow' = [allow EXCEPT ![x] = [state |-> "pending", fp |-> fp]]

Activated(x, fp) ==
    /\ allow[x] = [state |-> "pending", fp |-> fp]
    /\ allow' = [allow EXCEPT ![x].state = "active"]

Revoked(x) ==
    allow[x].state \in {"pending", "active"} /\ allow' = [allow EXCEPT ![x].state = "revoked"]

\* The server's copy is replaced by the file.
Reload == cached' = allow

\* allows_qrm of a copy of the allowlist
Allows(list, fp) == \E x \in Apps : list[x] = [state |-> "active", fp |-> fp]

-----------------------------------------------------------------------------
(* Submit: FirstAppSubmit and ApprovalSubmit *)

\* The bootstrap runtime authorizes the submit of an approval that it has.
\* One that has expired is dropped; a later App's is used up, also when that
\* cannot be written and the submit is refused.
Authorize(h, a) ==
    /\ handler[h].pc = "idle" /\ approval[a] = "open"
    /\ approval' = IF a \in Later \/ Expired(a) THEN [approval EXCEPT ![a] = "gone"] ELSE approval
    /\ \/ /\ ~Expired(a)
          /\ IF a \in Later THEN Save ELSE UNCHANGED saved
          /\ handler' = [handler EXCEPT ![h] = [Idle EXCEPT !.pc = "authorized", !.a = a,
                                                            !.at = now]]
       \/ Expired(a) /\ (Save \/ UNCHANGED saved) /\ UNCHANGED handler
       \/ a \in Later /\ UNCHANGED <<saved, handler>>
    /\ UNCHANGED <<now, results, allow, cached, certs, made, told, conns, crashes>>

\* Mutant: the record is not kept before the certificate exists.
BeginWithoutRecord(h) ==
    /\ handler[h].pc = "authorized"
    /\ handler' = [handler EXCEPT ![h].pc = "issue", ![h].at = now]
    /\ results' = Prune(now)
    /\ UNCHANGED <<now, approval, saved, allow, cached, certs, made, told, conns, crashes>>

BeginPending(h) ==
    /\ handler[h].pc = "authorized"
    /\ LET a == handler[h].a
           kept == Prune(now)
           full == Cardinality({b \in Approvals : kept[b].status # "none"}) >= MaxRecords
       IN \/ Fail(h) /\ UNCHANGED results
          \/ /\ kept[a].status # "none"                       \* Existing
             /\ results' = kept
             /\ Reply(h, a, kept[a])
          \/ /\ kept[a].status = "none" /\ ~full              \* Created
             /\ results' = [kept EXCEPT ![a] = [status |-> "pending", fp |-> 0,
                                                until |-> now + AuthTTL + ResultTTL]]
             /\ handler' = [handler EXCEPT ![h].pc = "issue", ![h].at = now]
    /\ UNCHANGED <<now, approval, saved, allow, cached, certs, made, told, conns, crashes>>

\* The certificate authority signs, or refuses the request.
IssueCertificate(h) ==
    /\ handler[h].pc = "issue"
    /\ \/ Fail(h) /\ UNCHANGED <<certs, made>>
       \/ /\ certs < MaxCerts
          /\ certs' = certs + 1
          /\ made' = [made EXCEPT ![handler[h].a] = @ \cup {certs'}]
          /\ handler' = [handler EXCEPT ![h].pc = "attach", ![h].fp = certs']
    /\ UNCHANGED <<now, approval, saved, results, allow, cached, told, conns, crashes>>

\* Mutant: the result is marked before the allowlist is written.
AttachThenMark(h) ==
    /\ handler[h].pc = "attach"
    /\ results' = [Prune(handler[h].at) EXCEPT ![handler[h].a].fp = handler[h].fp]
    /\ Step(h, "mark")
    /\ UNCHANGED <<now, approval, saved, allow, cached, certs, made, told, conns, crashes>>

AttachCertificate(h) ==
    /\ handler[h].pc = "attach"
    /\ LET a == handler[h].a
           kept == Prune(handler[h].at)
       IN \/ Fail(h) /\ UNCHANGED results
          \/ /\ kept[a].status # "none" /\ kept[a].fp = 0
             /\ results' = [kept EXCEPT ![a].fp = handler[h].fp]
             /\ Step(h, "enroll")
    /\ UNCHANGED <<now, approval, saved, allow, cached, certs, made, told, conns, crashes>>

EnrollPending(h) ==
    /\ handler[h].pc = "enroll"
    /\ LET x == AppOf[handler[h].a] IN
       \/ Fail(h) /\ UNCHANGED <<allow, cached>>
       \/ /\ Enrolled(x, handler[h].fp)
          /\ cached' = allow'
          /\ Step(h, "mark")
    /\ UNCHANGED <<now, approval, saved, results, certs, made, told, conns, crashes>>

\* The retention starts anew, from the time the submit began.
MarkIssued(h) ==
    /\ handler[h].pc = "mark"
    /\ LET a == handler[h].a
           kept == Prune(handler[h].at)
       IN \/ Fail(h) /\ UNCHANGED results
          \/ /\ kept[a].status # "none"
             /\ results' = [kept EXCEPT ![a] = [status |-> "issued", fp |-> handler[h].fp,
                                                until |-> handler[h].at + ResultTTL]]
             /\ Reply(h, a, results'[a])
    /\ UNCHANGED <<now, approval, saved, allow, cached, certs, made, told, conns, crashes>>

\* The answer is written to the stream: it arrives, or the write fails, times
\* out or is lost with the connection.
SendAnswer(h) ==
    /\ handler[h].pc = "answer"
    /\ \/ told' = [told EXCEPT ![handler[h].a] = @ \cup ({handler[h].fp} \ {0})]
       \/ UNCHANGED told
    /\ Fail(h)
    /\ UNCHANGED <<now, approval, saved, results, allow, cached, certs, made, conns, crashes>>

-----------------------------------------------------------------------------
(* Confirm and reconcile *)

\* Mutant: the certificate of the request is not compared with the record's.
ConfirmFindAny(h, a, fp) ==
    /\ handler[h].pc = "idle" /\ \E b \in Approvals : fp \in told[b]
    /\ results' = Prune(now)
    /\ \/ UNCHANGED handler
       \/ /\ results'[a].status # "none" /\ results'[a].fp # 0
          /\ handler' = [handler EXCEPT ![h] = [Idle EXCEPT !.pc = "first", !.a = a,
                                                         !.at = now, !.fp = fp]]
    /\ UNCHANGED <<now, approval, saved, allow, cached, certs, made, told, conns, crashes>>

\* A Core confirms with any certificate that any answer has brought; the record
\* of the approval has to be about the same one.
ConfirmFind(h, a, fp) ==
    /\ handler[h].pc = "idle" /\ \E b \in Approvals : fp \in told[b]
    /\ Find
    /\ \/ UNCHANGED handler
       \/ /\ results'[a].status # "none" /\ results'[a].fp = fp
          /\ handler' = [handler EXCEPT ![h] = [Idle EXCEPT !.pc = "first", !.a = a,
                                                         !.at = now, !.fp = fp]]
    /\ UNCHANGED <<now, approval, saved, allow, cached, certs, made, told, conns, crashes>>

\* confirm_first_app.  An approval that is not found counts as one of a later
\* App and lets the confirmation through, also when it has expired and is gone.
\* What cannot be written stays confirmed in memory.
ConfirmFirst(h) ==
    /\ handler[h].pc = "first"
    /\ LET a == handler[h].a IN
       \/ Fail(h) /\ UNCHANGED <<approval, saved>>
       \/ /\ a \in Later \/ approval[a] # "open"
          /\ Step(h, "reload") /\ UNCHANGED <<approval, saved>>
       \/ /\ a \notin Later /\ approval[a] = "open"
          /\ approval' = [approval EXCEPT ![a] = IF Expired(a) THEN "gone" ELSE "confirmed"]
          /\ \/ Save /\ IF Expired(a) THEN Fail(h) ELSE Step(h, "reload")
             \/ UNCHANGED saved /\ Fail(h)
    /\ UNCHANGED <<now, results, allow, cached, certs, made, told, conns, crashes>>

\* Another call of the runtime drops what has expired, and writes the memory.
OtherCalls ==
    /\ approval' = [a \in Approvals |-> IF Expired(a) THEN "gone" ELSE approval[a]]
    /\ Save \/ (approval' # approval /\ UNCHANGED saved)
    /\ UNCHANGED <<now, results, allow, cached, handler, certs, made, told, conns, crashes>>

\* Mutex of the allowlist: from the reload to the end of the activation no
\* other handler of this server uses it, the revoke command may.
ListFree(h) == \A g \in Handlers \ {h} : handler[g].pc # "activate"

ConfirmReload(h) ==
    /\ handler[h].pc = "reload" /\ ListFree(h)
    /\ \/ Fail(h) /\ cached' \in {cached, allow}     \* rejected, or active already
       \/ /\ Reload
          /\ allow[AppOf[handler[h].a]] = [state |-> "pending", fp |-> handler[h].fp]
          /\ Step(h, "activate")
    /\ UNCHANGED <<now, approval, saved, results, allow, certs, made, told, conns, crashes>>

\* Mutant: the entry read at the reload is written back as active.
ActivateCached(h) ==
    /\ handler[h].pc = "activate"
    /\ LET x == AppOf[handler[h].a] IN
       /\ allow' = [allow EXCEPT ![x] = [cached[x] EXCEPT !.state = "active"]]
       /\ cached' = allow'
    /\ Fail(h)
    /\ UNCHANGED <<now, approval, saved, results, certs, made, told, conns, crashes>>

\* The activation reads the file again under the lock.
ConfirmActivate(h) ==
    /\ handler[h].pc = "activate"
    /\ LET x == AppOf[handler[h].a] IN
       \/ UNCHANGED <<allow, cached>>
       \/ /\ Activated(x, handler[h].fp)
          /\ cached' = allow'
    /\ Fail(h)
    /\ UNCHANGED <<now, approval, saved, results, certs, made, told, conns, crashes>>

Reconcile(h, a) ==
    /\ handler[h].pc = "idle"
    /\ Find
    /\ IF results'[a].status = "none" THEN UNCHANGED handler ELSE Reply(h, a, results'[a])
    /\ UNCHANGED <<now, approval, saved, allow, cached, certs, made, told, conns, crashes>>

-----------------------------------------------------------------------------
(* The operator, the connections, the clock and a crash *)

\* The revoke command of another process.
Revoke(x) ==
    /\ Revoked(x)
    /\ UNCHANGED <<now, approval, saved, results, cached, handler, certs, made, told, conns, crashes>>

\* A connection is admitted by the server's copy, without a reload.
Connect(fp) ==
    /\ fp \notin conns /\ Allows(cached, fp)
    /\ conns' = conns \cup {fp}
    /\ UNCHANGED <<now, approval, saved, results, allow, cached, handler, certs, made, told, crashes>>

\* Mutant: the copy is believed.
RecheckCached(fp) ==
    /\ fp \in conns
    /\ conns' = IF Allows(cached, fp) THEN conns ELSE conns \ {fp}
    /\ UNCHANGED <<now, approval, saved, results, allow, cached, handler, certs, made, told, crashes>>

\* The tick of a connection: a reload that fails closes it like a revocation.
Recheck(fp) ==
    /\ fp \in conns
    /\ \A h \in Handlers : handler[h].pc # "activate"
    /\ \/ conns' = conns \ {fp} /\ UNCHANGED cached
       \/ /\ Reload
          /\ conns' = IF Allows(allow, fp) THEN conns ELSE conns \ {fp}
    /\ UNCHANGED <<now, approval, saved, results, allow, handler, certs, made, told, crashes>>

\* A request takes seconds: it does not last from one clock value to the one
\* after the next, which stands for the better part of a day.
Tick ==
    /\ now < MaxTime /\ now' = now + 1
    /\ \A h \in Handlers : handler[h].pc # "idle" => handler[h].at = now
    /\ UNCHANGED <<approval, saved, results, allow, cached, handler, certs, made, told, conns, crashes>>

\* The runtime reads its file again; approvals of later Apps do not come back.
Crash ==
    /\ crashes < MaxCrashes /\ crashes' = crashes + 1
    /\ approval' = [a \in Approvals |-> IF a \in Later THEN "gone" ELSE saved[a]]
    /\ handler' = [h \in Handlers |-> Idle]
    /\ cached' = allow
    /\ conns' = {}
    /\ UNCHANGED <<now, saved, results, allow, certs, made, told>>

-----------------------------------------------------------------------------
Serve(h) ==
    \/ BeginPending(h) \/ IssueCertificate(h) \/ AttachCertificate(h) \/ EnrollPending(h)
    \/ MarkIssued(h) \/ SendAnswer(h) \/ ConfirmFirst(h) \/ ConfirmReload(h) \/ ConfirmActivate(h)

Next ==
    \/ \E h \in Handlers :
          \/ Serve(h)
          \/ \E a \in Approvals :
                \/ Authorize(h, a)
                \/ \E fp \in Certs : ConfirmFind(h, a, fp)
                \/ Reconcile(h, a)
    \/ \E x \in Apps : Revoke(x)
    \/ \E fp \in Certs : Connect(fp) \/ Recheck(fp)
    \/ OtherCalls \/ Tick \/ Crash

Spec == Init /\ [][Next]_issueVars

\* Handlers run on, and every connection has its own one-second tick.
FairSpec == Spec /\ (\A h \in Handlers : WF_issueVars(Serve(h)))
                 /\ (\A fp \in Certs : WF_issueVars(Recheck(fp)))

-----------------------------------------------------------------------------
(* Properties *)

\* A result that says issued is about a certificate the allowlist knows for
\* that App, also after a crash between the two files.
IssuedIsListed ==
    \A a \in Approvals : results[a].status = "issued" =>
        allow[AppOf[a]].fp = results[a].fp /\ allow[AppOf[a]].state # "none"

\* The two files agree: see the parts.
IssuanceInv == TypeOK /\ IssuedIsListed

\* The approval does not wait for its confirmation any more.  A restart may
\* bring it back as it was: a confirmation that could not be written is
\* believed while the process lives.
Settled(a) == a \in Later \/ approval[a] # "open" \/ crashes > 0

\* A certificate is active only if an answer with it has reached a Core and the
\* very approval it was issued for is settled: never one whose answers were all
\* lost, nor by a confirmation of another approval of that App, whatever was
\* repeated, pruned or expired in between, and however the three files were left
\* by a crash.
ActiveWasDelivered ==
    \A x \in Apps : allow[x].state = "active" =>
        \E a \in Approvals : AppOf[a] = x /\ allow[x].fp \in told[a] /\ Settled(a)

\* An App has one certificate in the allowlist for ever, and its revocation
\* is final: no submit, confirm or retry under way brings it back.
ListedOnceRevokedForever ==
    [][\A x \in Apps : /\ allow[x].fp # 0 => allow'[x].fp = allow[x].fp
                       /\ allow[x].state = "revoked" => allow'[x] = allow[x]]_issueVars

\* A submit that is sent again, or two at a time, or after a crash half way,
\* never issues another certificate while a result can still be retained: all
\* approvals are granted at time 0, the earliest a result can be.
NoSecondWhileRetained ==
    \A a \in Approvals : Cardinality(made[a]) > 1 => now >= ResultTTL

\* After a revocation the connections of that certificate end, also those
\* that were admitted by a copy of the allowlist that was old already.
RevokedDisconnects ==
    \A x \in Apps, fp \in Certs :
        allow[x] = [state |-> "revoked", fp |-> fp] ~> fp \notin conns

\* "so a restart can reconcile a public issuance candidate without ever
\* creating a second certificate": an approval has one certificate.
NeverASecondCertificate == \A a \in Approvals : Cardinality(made[a]) <= 1

\* "so a restart can reconcile a public issuance candidate": once the
\* certificate is attached and no handler works on it, it is what is answered.
CandidateReconciled ==
    [][\A h \in Handlers :
          /\ handler[h].pc # "answer" /\ handler'[h].pc = "answer"
          /\ results[handler'[h].a].fp # 0
          => \/ handler'[h].fp # 0
             \/ \E g \in Handlers : handler[g].a = handler'[h].a
                   /\ handler[g].pc \in {"attach", "enroll", "mark"}]_issueVars

\* "Expired unconfirmed material cannot be promoted after its recovery window."
ExpiredNotPromoted ==
    [][\A x \in Apps : allow'[x].state = "active" => allow[x].state = "active" \/
          \E a \in Approvals : /\ allow[x].fp \in made[a]
                               /\ a \in Later \/ approval[a] = "confirmed"]_issueVars
=============================================================================
