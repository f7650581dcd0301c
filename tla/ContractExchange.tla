-------------------------- MODULE ContractExchange --------------------------
(***************************************************************************)
(* One terminal HDB1 or HDE3 exchange over one byte stream: the frame      *)
(* codecs of bootstrap_wire.rs and enrollment_v3_wire.rs and the relay     *)
(* dispatchers of bootstrap_session.rs and enrollment_v3_session.rs that   *)
(* read one or two requests and write one terminal response.               *)
(*                                                                         *)
(* The stream is a sequence of cells, a cell being one header field or one *)
(* unit of payload.  The peer is arbitrary: it writes up to MaxSent frames *)
(* of Frames, whole or cut anywhere, and may stop or close at any time.    *)
(***************************************************************************)
EXTENDS Naturals, Sequences

CONSTANTS ApprovalIds,         \* approval identifiers
          Digests,     \* digests of certificate requests
          Frames,      \* the frames a peer may write
          MaxPayload,  \* HDB1_MAX_PAYLOAD_BYTES, HDE3_MAX_PAYLOAD_BYTES
          MaxSent      \* bound: frames the peer writes

VARIABLES op,       \* the exchange the caller asked for
          given,   \* the approval id and response the caller supplies
          sent,     \* frames the peer started to write
          stream,   \* cells the peer wrote and the relay has not read
          rest,     \* cells of the last frame the peer has yet to write
          eof,      \* the peer closed its side
          pc,       \* where the dispatcher is
          header,   \* the header read_exact returned
          asked,    \* payloads of the requests accepted so far
          out,      \* frames the relay wrote
          closed,   \* shutdown of the relay's side succeeded
          shut,    \* shutdown was attempted
          result    \* what serve returns

peerVars == <<sent, stream, rest, eof>>
exchangeVars == <<op, given, sent, stream, rest, eof,
                  pc, header, asked, out, closed, shut, result>>

(***************************************************************************)
(* The two namespaces.                                                     *)
(***************************************************************************)

\* Hdb1Kind: the operation registry and version of HDB1.
Hdb1 == [magic |-> "HDB1", version |-> 1,
         kinds |-> {"Start", "Challenge", "Submit", "CoreIssued", "Reconcile",
                    "Result", "Rejected"}]

\* Hde3Kind: the operation registry and version of HDE3.
Hde3 == [magic |-> "HDE3", version |-> 3,
         kinds |-> {"FirstAppSubmit", "ApprovalStart", "ApprovalChallenge",
                    "ApprovalSubmit", "ConfirmPersisted", "Reconcile", "Renew",
                    "Result", "Rejected"}]

\* The cells of the fixed header: magic, version, kind, payload length.
HeaderCells == 4

(***************************************************************************)
(* Hdb1Frame::encode and Hde3Frame::encode.  The length field is whatever  *)
(* the writer puts there; the relay's own frames carry the true length.    *)
(***************************************************************************)
Encode(f) == <<f.magic, f.version, f.kind, f.length>> \o f.body

\* Hdb1Frame::json and Hde3Frame::json: a serialized payload is one unit.
Json(ns, kind, payload) ==
  [magic |-> ns.magic, version |-> ns.version, kind |-> kind, length |-> 1,
   body |-> <<payload>>]

\* Mutant: the kind of a frame is not checked.
AcceptsAnyKind(ns, kind, head, body) ==
  /\ head[1] = ns.magic /\ head[2] = ns.version
  /\ Len(body) = 1

(***************************************************************************)
(* Hdb1Frame::decode and parse_json on the cells read_frame collected: the *)
(* namespace and kind must match and the body be exactly one payload.      *)
(***************************************************************************)
Parses(ns, kind, head, body) ==
  /\ head[1] = ns.magic /\ head[2] = ns.version
  /\ head[3] \in ns.kinds /\ head[3] = kind
  /\ Len(body) = 1

(***************************************************************************)
(* What each exchange expects: its namespace and its requests in order.    *)
(***************************************************************************)
\* RelayHdb1BootstrapSession::serve and ::reconcile.
Hdb1Script == [serve |-> <<"Start", "Submit">>, recover |-> <<"Reconcile">>]

\* RelayHde3EnrollmentSession's five entry points.
Hde3Script == [first_app |-> <<"FirstAppSubmit">>,
               approval  |-> <<"ApprovalStart", "ApprovalSubmit">>,
               reconcile |-> <<"Reconcile">>,
               confirm   |-> <<"ConfirmPersisted">>,
               renew     |-> <<"Renew">>]

Ops == DOMAIN Hdb1Script \cup DOMAIN Hde3Script
Script(o) == IF o \in DOMAIN Hdb1Script THEN Hdb1Script[o] ELSE Hde3Script[o]
NS(o) == IF o \in DOMAIN Hdb1Script THEN Hdb1 ELSE Hde3

\* An exchange was asked for.
Exchanging == op \in Ops

\* A payload: whether its fields decode, and the fields the dispatchers compare.
Payloads == [valid: BOOLEAN, id: ApprovalIds, mine: BOOLEAN, csr: Digests]

\* Hde3ServerResponse: the response a caller hands in, valid or not.
Responses == [kind: {"Result", "Rejected"}, id: ApprovalIds, valid: BOOLEAN]

(***************************************************************************)
(* A length may lie, except that a frame that states one payload has just  *)
(* one: on a byte stream the cells after it would be the next frame.       *)
(***************************************************************************)
ASSUME ExchangeAssumption ==
  /\ MaxPayload \in Nat /\ MaxSent \in Nat
  /\ \A f \in Frames : /\ f.length \in Nat /\ f.body \in Seq(Payloads)
                       /\ f.length = 1 => Len(f.body) = 1

Terminals == {"CoreIssued", "Result", "Rejected"}
Challenges == {"Challenge", "ApprovalChallenge"}

ExchangeInit ==
  /\ op \in Ops
  /\ given \in [id: ApprovalIds, response: Responses]
  /\ op \in DOMAIN Hdb1Script =>   \* the verifier answers, not the caller
       given.response = [kind |-> "Rejected", id |-> given.id, valid |-> TRUE]
  /\ sent = <<>> /\ stream = <<>> /\ rest = <<>> /\ eof = FALSE
  /\ pc = "header" /\ header = <<>> /\ asked = <<>> /\ out = <<>>
  /\ closed = FALSE /\ shut = FALSE /\ result = "none"

(***************************************************************************)
(* The peer, while the exchange lasts.                                     *)
(***************************************************************************)
PeerStarts(f) ==
  /\ pc \notin {"abort", "close", "done"}
  /\ ~eof /\ rest = <<>> /\ Len(sent) < MaxSent
  /\ sent' = Append(sent, f)
  /\ rest' = Encode(f)
  /\ UNCHANGED <<op, given, stream, eof, pc, header, asked, out, closed, shut, result>>

PeerWrites ==
  /\ pc \notin {"abort", "close", "done"}
  /\ ~eof /\ rest # <<>>
  /\ stream' = Append(stream, Head(rest))
  /\ rest' = Tail(rest)
  /\ UNCHANGED <<op, given, sent, eof, pc, header, asked, out, closed, shut, result>>

PeerCloses ==
  /\ pc \notin {"abort", "close", "done"}
  /\ ~eof /\ eof' = TRUE
  /\ UNCHANGED <<op, given, sent, stream, rest, pc, header, asked, out, closed, shut, result>>

(***************************************************************************)
(* The dispatcher.  Every failure goes through serve's wrapper, which      *)
(* closes the stream and keeps the first error.                            *)
(***************************************************************************)
Fail(error) ==
  /\ result' = error /\ pc' = "abort"
  /\ UNCHANGED <<op, given, header, asked, out, closed, shut>>

\* read_frame, first read_exact: the whole header, then its length bound.
ReadHeader ==
  /\ pc = "header" /\ Len(stream) >= HeaderCells
  /\ stream' = SubSeq(stream, HeaderCells + 1, Len(stream))
  /\ UNCHANGED <<sent, rest, eof>>
  /\ IF stream[HeaderCells] > MaxPayload
     THEN Fail("FrameTooLarge")
     ELSE /\ header' = SubSeq(stream, 1, HeaderCells) /\ pc' = "payload"
          /\ UNCHANGED <<op, given, asked, out, closed, shut, result>>

OneAsked == Len(asked) = 1

\* The comparisons of decode_start and serve_approval_inner against this exchange.
FieldsMatch(p) ==
  /\ p.valid
  /\ (op = "approval" /\ OneAsked)
       => p.id = given.id /\ p.mine /\ p.csr = asked[1].csr

\* read_frame, second read_exact, then parse_json and the payload's validation.
ReadPayload ==
  /\ pc = "payload" /\ Len(stream) >= header[HeaderCells]
  /\ stream' = SubSeq(stream, header[HeaderCells] + 1, Len(stream))
  /\ UNCHANGED <<sent, rest, eof>>
  /\ LET body == SubSeq(stream, 1, header[HeaderCells])
         kind == Script(op)[Len(asked) + 1]
     IN IF Parses(NS(op), kind, header, body) /\ FieldsMatch(body[1])
        THEN /\ asked' = Append(asked, body[1])
             /\ pc' = "handle" /\ header' = <<>>
             /\ UNCHANGED <<op, given, out, closed, shut, result>>
        ELSE Fail("Wire")

\* read_exact at the end of the stream.
ReadEof ==
  /\ pc \in {"header", "payload"} /\ eof
  /\ Len(stream) < IF pc = "header" THEN HeaderCells ELSE header[HeaderCells]
  /\ Fail("Wire")
  /\ UNCHANGED peerVars

\* The five second timeout around one read.
ReadTimeout ==
  /\ pc \in {"header", "payload"}
  /\ Fail("Timeout")
  /\ UNCHANGED peerVars

(***************************************************************************)
(* write_frame: the frame is written, or the write fails or times out with *)
(* none or a torn part of it on the stream.                                *)
(***************************************************************************)
Write(kind, id, next) ==
  \/ /\ out' = Append(out, [kind |-> kind, id |-> id])
     /\ pc' = next
     /\ UNCHANGED <<op, given, header, asked, closed, shut, result>>
  \/ \E error \in {"Wire", "Timeout"} :
       /\ result' = error /\ pc' = "abort"
       /\ \/ out' = out
          \/ out' = Append(out, [kind |-> "torn", id |-> id])
       /\ UNCHANGED <<op, given, header, asked, closed, shut>>

\* RelayBootstrapVerifier::start: a challenge, or a rejection that ends the exchange.
HandleStart ==
  /\ pc = "handle" /\ op = "serve" /\ OneAsked
  /\ \/ Write("Challenge", given.id, "header")
     \/ Write("Rejected", given.id, "close")
  /\ UNCHANGED peerVars

\* RelayBootstrapVerifier::submit_wire: CoreIssued or Rejected.
HandleSubmit ==
  /\ pc = "handle" /\ op = "serve" /\ Len(asked) = 2
  /\ \E kind \in {"CoreIssued", "Rejected"} : Write(kind, given.id, "close")
  /\ UNCHANGED peerVars

\* RelayBootstrapVerifier::reconcile_wire: a Result for the id asked about, or Rejected.
HandleRecover ==
  /\ pc = "handle" /\ op = "recover"
  /\ \E kind \in {"Result", "Rejected"} : Write(kind, asked[1].id, "close")
  /\ UNCHANGED peerVars

\* serve_approval_inner: the approval challenge after ApprovalStart.
HandleApprovalStart ==
  /\ pc = "handle" /\ op = "approval" /\ OneAsked
  /\ Write("ApprovalChallenge", given.id, "header")
  /\ UNCHANGED peerVars

\* The approval id write_response compares with; Renew has none.
ExpectedId ==
  CASE op = "approval" -> {given.id}
    [] op \in {"first_app", "reconcile", "confirm"} -> {asked[1].id}
    [] OTHER -> ApprovalIds

\* write_response: validate, correlate, write.
WriteResponse ==
  /\ pc = "handle" /\ op \in DOMAIN Hde3Script
  /\ Len(asked) = Len(Script(op))
  /\ LET r == given.response
     IN IF r.valid /\ (r.kind = "Result" => r.id \in ExpectedId)
        THEN Write(r.kind, r.id, "close")
        ELSE Fail("Wire")
  /\ UNCHANGED peerVars

\* close_stream after the terminal response.
CloseAfterResponse ==
  /\ pc = "close" /\ shut' = TRUE
  /\ \/ closed' = TRUE /\ result' = "ok" /\ pc' = "done"
     \/ \E error \in {"Wire", "Timeout"} :
          closed' = FALSE /\ result' = error /\ pc' = "abort"
  /\ UNCHANGED <<op, given, header, asked, out>> /\ UNCHANGED peerVars

\* The wrapper's close_stream on an error, whose own outcome is ignored.
CloseAfterError ==
  /\ pc = "abort" /\ shut' = TRUE
  /\ closed' \in BOOLEAN /\ pc' = "done"
  /\ UNCHANGED <<op, given, header, asked, out, result>> /\ UNCHANGED peerVars

Peer == (\E f \in Frames : PeerStarts(f)) \/ PeerWrites \/ PeerCloses

Relay == \/ ReadHeader \/ ReadPayload \/ ReadEof \/ ReadTimeout
         \/ HandleStart \/ HandleSubmit \/ HandleRecover \/ HandleApprovalStart
         \/ WriteResponse \/ CloseAfterResponse \/ CloseAfterError

ExchangeNext == Peer \/ Relay

ExchangeSpec == ExchangeInit /\ [][ExchangeNext]_exchangeVars

(***************************************************************************)
(* Properties.                                                             *)
(***************************************************************************)

\* Every variable keeps its type.
ExchangeTypeOK ==
  /\ op \in Ops /\ given \in [id: ApprovalIds, response: Responses]
  /\ Len(sent) <= MaxSent /\ eof \in BOOLEAN
  /\ pc \in {"header", "payload", "handle", "close", "abort", "done"}
  /\ asked \in Seq(Payloads) /\ Len(asked) <= Len(Script(op))
  /\ \A i \in DOMAIN out :
       out[i].kind \in Terminals \cup Challenges \cup {"torn"} /\ out[i].id \in ApprovalIds
  /\ closed \in BOOLEAN /\ shut \in BOOLEAN
  /\ result \in {"none", "ok", "Wire", "FrameTooLarge", "Timeout"}

(***************************************************************************)
(* The frames the peer sends and the relay accepts stay in step: every     *)
(* request the dispatcher acted on is the frame the peer sent in that      *)
(* position, of the kind and namespace the exchange expects there.  No cut *)
(* or lying length makes read_frame start in the middle of a frame.        *)
(***************************************************************************)
Synchronised ==
  \A i \in DOMAIN asked :
    /\ i <= Len(sent)
    /\ sent[i].magic = NS(op).magic /\ sent[i].kind = Script(op)[i]
    /\ sent[i].body = <<asked[i]>>

(***************************************************************************)
(* At most one terminal response is written, nothing follows it, a         *)
(* challenge only precedes it, and it answers a complete exchange (except  *)
(* the rejection of a Start).                                              *)
(***************************************************************************)
OneTerminal ==
  \A i \in DOMAIN out :
    /\ out[i].kind \in Terminals => /\ i = Len(out)
                                    /\ \/ Len(asked) = Len(Script(op))
                                       \/ op = "serve" /\ out[i].kind = "Rejected"
    /\ out[i].kind \in Challenges => i = 1

(***************************************************************************)
(* A result names the approval the peer asked about in this exchange.  A   *)
(* renewal has no approval of its own and is not correlated.               *)
(***************************************************************************)
Correlated ==
  \A i \in DOMAIN out :
    out[i].kind = "Result" =>
      CASE op = "approval" -> out[i].id = asked[2].id /\ out[i].id = out[1].id
        [] op = "renew" -> TRUE
        [] OTHER -> out[i].id = asked[1].id

\* serve succeeds only "after the terminal response is written and the stream is closed".
OkMeansDelivered ==
  result = "ok" => closed /\ out # <<>> /\ out[Len(out)].kind \in Terminals

\* serve and reconcile of both dispatchers: what the relay acts on is what the
\* peer sent in that place, one terminal response ends the exchange and names
\* the approval that was asked about, and Ok is returned only for a delivered one.
ExchangeSound ==
  Exchanging => /\ ExchangeTypeOK /\ Synchronised /\ OneTerminal
                /\ Correlated /\ OkMeansDelivered
=============================================================================
