------------------------------ MODULE MCCodecs ------------------------------
(***************************************************************************)
(* Messages and payloads for TLC.                                          *)
(***************************************************************************)
EXTENDS Codecs, TLC

\* The constant operators of the codecs: the messages are written with them.
V == INSTANCE QuicWire WITH Messages <- {}
Q == INSTANCE ContractPayload WITH type <- payloadType, Inputs <- {}, Alternatives <- {}

(***************************************************************************)
(* Messages whose fields differ in every byte, so that an offset that is   *)
(* off by one shows, with short, dotted and longest session names.         *)
(***************************************************************************)
MCField(w, base) == [i \in 1..w |-> (base + i) % 256]

MCNames == {<<97>>, <<46, 97>>, [i \in 1..64 |-> 48 + (i % 10)]}

MCOpen(s) == [session |-> s, fingerprint |-> MCField(32, 10),
              configuration_generation |-> MCField(8, 50), relay_generation |-> MCField(8, 60),
              connection_epoch |-> MCField(8, 70), token |-> MCField(32, 80)]

MCMessages ==
  [hdqm |-> {[kind |-> k, request_id |-> MCField(16, 100), payload |-> p] :
               k \in {1, 15}, p \in {<<>>, <<5>>, <<5, 6>>}},
   hdp |-> {V!HdpStatus(5, 0), V!HdpStatus(4, 3), [kind |-> 2, payload |-> MCField(6, 48)]},
   hello |-> {[relay_identity |-> MCField(32, 10), ca_generation |-> MCField(8, 50),
               relay_generation |-> Append(V!Zeros(7), 1), connection_epoch |-> MCField(8, 70)]},
   prepare |-> {[session |-> s, expected_fingerprint |-> f, configuration_generation |-> MCField(8, 50)] :
                  s \in MCNames, f \in {V!Zeros(32), MCField(32, 10)}},
   prepare_ack |-> {[token_ttl_secs |-> MCField(4, 120)] @@ MCOpen(s) : s \in MCNames},
   open |-> {MCOpen(s) : s \in MCNames},
   open_ack |-> {V!OpenAck(h, MCOpen(s)) : s \in MCNames, h \in {256, 65535}},
   binding |-> {V!OpenAck(h, MCOpen(s)) : s \in MCNames, h \in {1, 65535}},
   response |-> {V!Accepted(h, MCField(8, 70)) : h \in {1, 256}}
                \cup {V!Rejected(r, MCField(8, 70)) : r \in 0..9}]

(***************************************************************************)
(* For each constructor one good call and every call that differs from it  *)
(* in one argument: all zeros, other content, a limit and one beyond it.   *)
(***************************************************************************)
MCBytes(w, v) == [n |-> w, v |-> v]
MCCsr(w) == MCBytes(w, 1)
MCSession(w, safe) == [n |-> w, safe |-> safe]
MCCode(w, digits) == [n |-> w, digits |-> digits]
MCChain(sizes) == [i \in DOMAIN sizes |-> MCBytes(sizes[i], i)]

MCChains == {MCChain(s) : s \in {<<>>, <<700, 0>>, <<700, 600>>, <<47104>>, <<47000, 104>>,
               <<47000, 105>>, <<48000, 1152>>, [i \in 1..8 |-> 5888], [i \in 1..9 |-> 5]}}

MCGood ==
  [request_id |-> MCBytes(16, 1), core_csr |-> MCCsr(9), app_csr |-> MCCsr(9),
   app_csr_digest |-> Q!Sha256(MCCsr(9)), normalized_session |-> MCSession(7, TRUE),
   core_binding_digest |-> MCBytes(32, 2), configuration_generation |-> 3,
   bootstrap_id |-> MCBytes(32, 3), challenge |-> MCBytes(32, 4), expires_at_epoch_seconds |-> 5,
   code |-> MCCode(6, TRUE), approval_id |-> MCBytes(32, 5), core_identity |-> MCBytes(32, 6),
   certificate_chain |-> MCChain(<<700, 600>>), not_after_epoch_seconds |-> 6,
   app_identity |-> MCBytes(32, 7), existing_app_identity |-> MCBytes(32, 7),
   issued_certificate_fingerprint |-> MCBytes(32, 8), issued_certificate_chain_digest |-> MCBytes(32, 9),
   certificate_fingerprint |-> MCBytes(32, 8), certificate_chain_digest |-> MCBytes(32, 9),
   rejection_code |-> 4]

\* Other arguments.
MCOther(name) ==
  CASE name = "certificate_chain" -> MCChains
    [] name \in {"core_csr", "app_csr"} -> {MCCsr(w) : w \in {0, 1, Q!MaxCsr, Q!MaxCsr + 1}}
    [] name = "request_id" -> {MCBytes(16, 0), MCBytes(16, 2)}
    [] name \in Q!Base64Fields \cup Q!HexFields -> {MCBytes(32, 0), MCBytes(32, 1)}
    [] name = "normalized_session" ->
         {MCSession(w, TRUE) : w \in {0, 1, 64, 65}} \cup {MCSession(1, FALSE)}
    [] name = "code" -> {MCCode(5, TRUE), MCCode(6, FALSE), MCCode(7, TRUE)}
    [] OTHER -> {0, 1}

MCCalls(names) ==
  LET good == [name \in names |-> MCGood[name]]
  IN {good} \cup UNION {{[good EXCEPT ![name] = x] : x \in MCOther(name)} : name \in names}

MCResults(status, names) == {[status |-> status] @@ f : f \in MCCalls({"approval_id"} \cup names)}

MCInputs ==
  [start |-> MCCalls({"request_id", "core_csr", "app_csr_digest", "normalized_session",
                      "core_binding_digest", "configuration_generation"}),
   challenge |-> MCCalls({"bootstrap_id", "challenge", "expires_at_epoch_seconds"}),
   submit |-> MCCalls({"bootstrap_id", "challenge", "code"}),
   core_issued |-> MCCalls({"approval_id", "core_identity", "certificate_chain",
                            "not_after_epoch_seconds"}),
   reconcile |-> MCCalls({"approval_id", "core_binding_digest", "normalized_session"}),
   result |-> MCResults("pending", {})
              \cup MCResults("issued", {"core_identity", "certificate_chain", "not_after_epoch_seconds"})
              \cup MCResults("rejected", {"rejection_code"}),
   rejected |-> MCCalls({"rejection_code"}),
   first_app_submit |-> MCCalls({"approval_id", "app_csr", "app_csr_digest"}),
   approval_start |-> MCCalls({"app_csr_digest", "normalized_session", "core_binding_digest",
                               "configuration_generation"}),
   approval_challenge |-> MCCalls({"approval_id", "challenge", "expires_at_epoch_seconds"}),
   approval_submit |-> MCCalls({"approval_id", "challenge", "code", "app_csr", "app_csr_digest"}),
   confirm_persisted |-> MCCalls({"approval_id", "app_identity", "issued_certificate_fingerprint",
                                  "issued_certificate_chain_digest", "configuration_generation"}),
   reconcile3 |-> MCCalls({"approval_id", "app_csr_digest", "normalized_session",
                           "core_binding_digest", "configuration_generation"}),
   renew |-> MCCalls({"existing_app_identity", "app_csr", "app_csr_digest", "normalized_session",
                      "core_binding_digest", "configuration_generation"}),
   result3 |-> MCResults("pending", {}) \cup MCResults("rejected", {"rejection_code"})
               \cup UNION {MCResults(s, {"app_identity", "certificate_chain", "certificate_fingerprint",
                                         "certificate_chain_digest", "not_after_epoch_seconds",
                                         "configuration_generation"}) : s \in {"issued", "active"}}]

\* What a change puts in a field: null, another value, another spelling or another width.
MCAlternatives ==
  [name \in DOMAIN MCGood \cup {"status", "state"} |->
    CASE name \in Q!Base64Fields ->
           {{}} \cup {Q!Text(MCGood[name], form) : form \in {"base64", "base64_loose", "junk"}}
                \cup {Q!Base64(MCBytes(MCGood[name].n, 0)), Q!Base64(MCBytes(31, 1))}
      [] name \in Q!HexFields ->
           {{}} \cup {Q!Text(MCGood[name], form) : form \in {"hex", "hex_upper", "junk"}}
                \cup {Q!Hex(MCBytes(32, 0)), Q!Hex(MCBytes(31, 1)), Q!Hex(Q!Sha256(MCCsr(1)))}
      [] name = "certificate_chain" ->
           {{}} \cup {Q!EncodeChain(c) : c \in MCChains}
                \cup {{<<[n |-> 700, v |-> 1, form |-> "base64_loose"]>>},
                      {<<[n |-> 47104, v |-> 1, form |-> "base64"], [n |-> 1, v |-> 1, form |-> "base64"]>>}}
      [] name = "normalized_session" -> {{}, {MCSession(7, FALSE)}, {MCSession(65, TRUE)}}
      [] name = "code" -> {{}, {MCCode(6, FALSE)}, {MCCode(7, TRUE)}}
      [] name = "status" -> {{}} \cup {{s} : s \in {"awaiting_code", "pending", "issued", "active", "rejected"}}
      [] name = "state" -> {{}, {"bootstrap_pending"}, {"other"}}
      [] OTHER -> {{}, {0}, {1}}]
=============================================================================
