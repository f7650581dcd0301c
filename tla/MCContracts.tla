----------------------------- MODULE MCContracts -----------------------------
(***************************************************************************)
(* The bootstrap contract from both ends: the verifier's state machine     *)
(* with three Herdr sessions and one peer, limits small enough to be met;  *)
(* and one exchange of frames.  A behaviour runs the one or the other.     *)
(***************************************************************************)
EXTENDS BootstrapVerifier, ContractExchange, TLC

CONSTANTS s1, s2, s3, p1

MCSessions == {s1, s2, s3}
MCPeers == {p1}
MCSymmetry == Permutations(MCSessions)

MCId == CHOOSE i \in ApprovalIds : TRUE
MCCsr == CHOOSE d \in Digests : TRUE
MCOne == [valid |-> TRUE, id |-> MCId, mine |-> TRUE, csr |-> MCCsr]

\* The requests of both namespaces, with two approval ids and two digests.
MCGood ==
  {Json(ns, "Reconcile", [MCOne EXCEPT !.id = i]) : ns \in {Hdb1, Hde3}, i \in ApprovalIds}
  \cup {Json(Hdb1, k, [MCOne EXCEPT !.valid = v]) : k \in {"Start", "Submit"}, v \in BOOLEAN}
  \cup {Json(Hde3, k, [MCOne EXCEPT !.id = i]) :
          k \in {"FirstAppSubmit", "ConfirmPersisted"}, i \in ApprovalIds}
  \cup {Json(Hde3, "Renew", MCOne)}
  \cup {Json(Hde3, "ApprovalStart", [MCOne EXCEPT !.csr = d]) : d \in Digests}
  \cup {Json(Hde3, "ApprovalSubmit", p) :
          p \in {[MCOne EXCEPT !.mine = FALSE]} \cup {[MCOne EXCEPT !.id = i] : i \in ApprovalIds}
                                             \cup {[MCOne EXCEPT !.csr = d] : d \in Digests}}

\* A wrong version, a body that is not one payload, a length that lies either way.
MCBad == LET f == Json(Hdb1, "Start", MCOne)
             g == Json(Hde3, "ApprovalStart", MCOne)
         IN {[f EXCEPT !.version = 3], [f EXCEPT !.length = MaxPayload + 1],
             [f EXCEPT !.length = 2], [g EXCEPT !.length = 0],
             [g EXCEPT !.body = <<MCOne, MCOne>>, !.length = 2]}

MCFrames == MCGood \cup MCBad

\* No exchange takes place: the verifier is used as a library.
NoExchange ==
  /\ op = "none" /\ given = "none" /\ pc = "done" /\ result = "none"
  /\ sent = <<>> /\ stream = <<>> /\ rest = <<>> /\ header = <<>> /\ asked = <<>> /\ out = <<>>
  /\ eof = FALSE /\ closed = FALSE /\ shut = FALSE

\* Which of the two ids the relay mints makes no difference.
ContractInit == Init /\ ((ExchangeInit /\ given.id = MCId) \/ NoExchange)

ContractNext == \/ ~Exchanging /\ Next /\ UNCHANGED exchangeVars
                \/ Exchanging /\ ExchangeNext /\ UNCHANGED verifierVars

ContractSpec == ContractInit /\ [][ContractNext]_<<verifierVars, exchangeVars>>
=============================================================================
