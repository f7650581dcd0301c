------------------------------ MODULE QuicWire ------------------------------
(***************************************************************************)
(* The binary codecs of the session plane: HDQM frames and payloads, the   *)
(* HDQS preface and response (quic_wire.rs), HDP1 pairing frames and the   *)
(* readers that take them off a stream (iroh_endpoint.rs, quic_server.rs). *)
(*                                                                         *)
(* Byte strings are sequences over 0..255 with the code's own widths and   *)
(* offsets.  A u64, fingerprint, token or identity is the sequence of its  *)
(* bytes, since from_be_bytes only renames it; lengths, handles and kinds  *)
(* are numbers.  A decoder is an operator whose value is the set of the    *)
(* message it returns, empty for an error.                                 *)
(*                                                                         *)
(* The state machine carries one message: it is encoded, the bytes may be  *)
(* changed on the way, and whoever receives them decodes what arrived.     *)
(***************************************************************************)
EXTENDS Naturals, Sequences

CONSTANTS Messages,   \* [hello: ..., prepare: ...]: the messages to carry, by type
          Values,     \* bytes a change may write
          MaxResizes  \* bound: bytes added or cut

VARIABLES type, msg,  \* the message carried and its type
          bytes,      \* what is on the wire
          changed,    \* a byte was overwritten
          resizes     \* bytes added or cut so far

vars == <<type, msg, bytes, changed, resizes>>

Authority == 32                  \* QRM_AUTHORITY_BYTES
MaxName == 64                    \* QRM_MAX_SESSION_NAME_BYTES
MaxFrame == 65536                \* QRM_MAX_CONTROL_FRAME_BYTES, HDP1_MAX_FRAME_BYTES
HdqmHeader == 27                 \* HDQM_HEADER_BYTES
HdpHeader == 11                  \* HDP1_HEADER_BYTES

Zeros(w) == [i \in 1..w |-> 0]

\* bytes[from .. to) of the code, which counts from 0.
Slice(b, from, to) == SubSeq(b, from + 1, IF to > Len(b) THEN Len(b) ELSE to)

\* u16::MAX and u16::to_be_bytes.
MaxU16 == 65535
U16(n) == <<n \div 256, n % 256>>
FromU16(b, at) == 256 * b[at + 1] + b[at + 2]

\* u32::from_be_bytes, where every value of MaxFrame or more is beyond any bound.
FromU32(b, at) == IF b[at + 1] # 0 \/ b[at + 2] # 0 THEN MaxFrame ELSE FromU16(b, at + 2)

U32(n) == <<0, 0>> \o U16(n)

Hdqm == <<72, 68, 81, 77>>       \* "HDQM"
Hdqs == <<72, 68, 81, 83>>       \* "HDQS"
Hdp1 == <<72, 68, 80, 49>>       \* "HDP1"
Version == <<0, 1>>

\* The registered kinds and reasons, as their bytes.
HdqmKind == 1..15
HdpKind == 1..6
HdqsKind == {2, 3}               \* Accepted, Rejected
HdqsReason == 0..9

(***************************************************************************)
(* Session names.                                                          *)
(***************************************************************************)
NameByte(c) == c \in 48..57 \cup 65..90 \cup 97..122 \cup {45, 46, 95}

\* Mutant: the relative names are not singled out.
AnyName(b) ==
  LET name == IF b = <<>> THEN <<100, 101, 102, 97, 117, 108, 116>> ELSE b
  IN IF Len(name) > MaxName \/ \E i \in DOMAIN name : ~NameByte(name[i])
     THEN {} ELSE {name}

\* SessionName::new: an empty name is "default".
SessionName(b) ==
  LET name == IF b = <<>> THEN <<100, 101, 102, 97, 117, 108, 116>> ELSE b
  IN IF \/ Len(name) > MaxName
        \/ name \in {<<46>>, <<46, 46>>}
        \/ \E i \in DOMAIN name : ~NameByte(name[i])
     THEN {} ELSE {name}

\* encode_session_name with nothing appended.
EncodeName(name) == <<Len(name)>> \o name

\* decode_session_name: the name and the offset after it.
DecodeName(b) ==
  IF b = <<>> THEN {}
  ELSE IF b[1] = 0 \/ b[1] > MaxName \/ Len(b) < 1 + b[1] THEN {}
  ELSE {[session |-> s, next |-> 1 + b[1]] : s \in SessionName(Slice(b, 1, 1 + b[1]))}

(***************************************************************************)
(* Frames.                                                                 *)
(***************************************************************************)
EncodeHdqm(m) == Hdqm \o Version \o <<m.kind>> \o m.request_id \o U32(Len(m.payload)) \o m.payload

\* HdqmFrame::decode.
DecodeHdqm(b) ==
  IF \/ Len(b) < HdqmHeader
     \/ Slice(b, 0, 4) # Hdqm \/ Slice(b, 4, 6) # Version
     \/ b[7] \notin HdqmKind
     \/ FromU32(b, 23) > MaxFrame - HdqmHeader
     \/ Len(b) # HdqmHeader + FromU32(b, 23)
  THEN {}
  ELSE {[kind |-> b[7], request_id |-> Slice(b, 7, 23), payload |-> Slice(b, HdqmHeader, Len(b))]}

\* send_hdp_status: a status is its kind and, unless it is 0, one byte of reason.
HdpStatus(kind, reason) == [kind |-> kind, payload |-> IF reason = 0 THEN <<>> ELSE <<reason>>]

EncodeHdp(m) == Hdp1 \o Version \o <<m.kind>> \o U32(Len(m.payload)) \o m.payload

\* HdpFrame::decode.
DecodeHdp(b) ==
  IF \/ Len(b) < HdpHeader
     \/ Slice(b, 0, 4) # Hdp1 \/ Slice(b, 4, 6) # Version
     \/ b[7] \notin HdpKind
     \/ HdpHeader + FromU32(b, 7) > MaxFrame
     \/ Len(b) # HdpHeader + FromU32(b, 7)
  THEN {}
  ELSE {[kind |-> b[7], payload |-> Slice(b, HdpHeader, Len(b))]}

\* read_hdp_frame on a stream that holds b and more: the bytes it takes.
TakesHdp(b) ==
  IF Len(b) < HdpHeader THEN {}
  ELSE LET n == HdpHeader + FromU32(b, 7)
       IN IF n > MaxFrame \/ Len(b) < n THEN {} ELSE {n}

(***************************************************************************)
(* HDQM payloads.                                                          *)
(***************************************************************************)
EncodeHello(m) == m.relay_identity \o m.ca_generation \o m.relay_generation \o m.connection_epoch

DecodeHello(b) ==
  IF Len(b) # 56 THEN {}
  ELSE LET m == [relay_identity |-> Slice(b, 0, 32), ca_generation |-> Slice(b, 32, 40),
                 relay_generation |-> Slice(b, 40, 48), connection_epoch |-> Slice(b, 48, 56)]
       IN IF \/ Zeros(8) \in {m.ca_generation, m.relay_generation, m.connection_epoch}
             \/ m.relay_identity = Zeros(Authority)
          THEN {} ELSE {m}

EncodePrepare(m) ==
  EncodeName(m.session) \o m.expected_fingerprint \o m.configuration_generation

DecodePrepare(b) ==
  {[session |-> d.session, expected_fingerprint |-> Slice(b, d.next, d.next + 32),
    configuration_generation |-> Slice(b, d.next + 32, Len(b))] :
      d \in {e \in DecodeName(b) : Len(b) = e.next + Authority + 8}}

EncodePrepareAck(m) ==
  EncodeName(m.session) \o m.fingerprint \o m.configuration_generation
    \o m.relay_generation \o m.connection_epoch \o m.token \o m.token_ttl_secs

DecodePrepareAck(b) ==
  {[session |-> d.session, fingerprint |-> Slice(b, d.next, d.next + 32),
    configuration_generation |-> Slice(b, d.next + 32, d.next + 40),
    relay_generation |-> Slice(b, d.next + 40, d.next + 48),
    connection_epoch |-> Slice(b, d.next + 48, d.next + 56),
    token |-> Slice(b, d.next + 56, d.next + 88),
    token_ttl_secs |-> Slice(b, d.next + 88, Len(b))] :
      d \in {e \in DecodeName(b) : Len(b) = e.next + Authority + 24 + Authority + 4}}

EncodeOpen(m) ==
  EncodeName(m.session) \o m.fingerprint \o m.configuration_generation
    \o m.relay_generation \o m.connection_epoch \o m.token

\* Mutant: the generations are read in the wrong order.
OpenFieldsSwapped(s, b, at) ==
  [session |-> s, fingerprint |-> Slice(b, at, at + 32),
   configuration_generation |-> Slice(b, at + 40, at + 48),
   relay_generation |-> Slice(b, at + 32, at + 40), connection_epoch |-> Slice(b, at + 48, at + 56),
   token |-> Slice(b, at + 56, Len(b))]

\* The fields after the name, as SessionOpenRequest and SessionOpenAck lay them out.
OpenFields(s, b, at) ==
  [session |-> s, fingerprint |-> Slice(b, at, at + 32),
   configuration_generation |-> Slice(b, at + 32, at + 40),
   relay_generation |-> Slice(b, at + 40, at + 48), connection_epoch |-> Slice(b, at + 48, at + 56),
   token |-> Slice(b, at + 56, Len(b))]

DecodeOpen(b) ==
  {OpenFields(d.session, b, d.next) :
      d \in {e \in DecodeName(b) : Len(b) = e.next + Authority + 24 + Authority}}

EncodeOpenAck(m) == U16(m.session_handle) \o EncodeOpen(m)

\* SessionOpenAck: the handle and what an open request holds.
OpenAck(handle, o) ==
  [session_handle |-> handle, session |-> o.session, fingerprint |-> o.fingerprint,
   configuration_generation |-> o.configuration_generation, relay_generation |-> o.relay_generation,
   connection_epoch |-> o.connection_epoch, token |-> o.token]

DecodeOpenAck(b) ==
  IF Len(b) < 3 THEN {}
  ELSE IF FromU16(b, 0) = 0 THEN {}
  ELSE {OpenAck(FromU16(b, 0), OpenFields(d.session, b, 2 + d.next)) :
          d \in {e \in DecodeName(Slice(b, 2, Len(b))) :
                   Len(b) = 2 + e.next + Authority + 24 + Authority}}

(***************************************************************************)
(* The HDQS preface of a session stream and its answer.                    *)
(***************************************************************************)
EncodeBinding(m) ==
  Hdqs \o Version \o U16(m.session_handle) \o m.configuration_generation \o m.relay_generation
    \o m.connection_epoch \o EncodeName(m.session) \o m.fingerprint \o m.token

\* HdqsBinding::decode.
DecodeBinding(b) ==
  IF \/ Len(b) < 97
     \/ Slice(b, 0, 4) # Hdqs \/ Slice(b, 4, 6) # Version
     \/ FromU16(b, 6) = 0 \/ b[33] = 0 \/ b[33] > MaxName
     \/ Len(b) # 33 + b[33] + 64
  THEN {}
  ELSE {[session_handle |-> FromU16(b, 6), configuration_generation |-> Slice(b, 8, 16),
         relay_generation |-> Slice(b, 16, 24), connection_epoch |-> Slice(b, 24, 32),
         session |-> s, fingerprint |-> Slice(b, 33 + b[33], 65 + b[33]),
         token |-> Slice(b, 65 + b[33], Len(b))] : s \in SessionName(Slice(b, 33, 33 + b[33]))}

\* read_hdqs_binding: a 33 byte prefix, then the name it announces and 64 bytes.
TakesBinding(b) ==
  IF Len(b) < 33 THEN {}
  ELSE IF b[33] = 0 \/ b[33] > MaxName \/ Len(b) < 33 + b[33] + 64 THEN {}
  ELSE {33 + b[33] + 64}

\* The iroh endpoint's read_hdqs_binding looks at the magic before the rest is read.
TakesBindingIroh(b) == IF Slice(b, 0, 4) # Hdqs THEN {} ELSE TakesBinding(b)

ResponseReserved(b) == b[12] = 0

\* HdqsResponse::encode's conditions; kind 2 accepts and kind 3 rejects.
ResponseValid(m) ==
  /\ m.kind = m.status
  /\ m.kind = 2 => m.session_handle # 0 /\ m.reason = 0
  /\ m.kind = 3 => m.session_handle = 0

EncodeResponse(m) ==
  Hdqs \o Version \o <<m.kind, m.status>> \o U16(m.session_handle) \o <<m.reason, 0>>
    \o m.connection_epoch

\* HdqsResponse::accepted and HdqsResponse::rejected.
Accepted(handle, epoch) ==
  [kind |-> 2, status |-> 2, session_handle |-> handle, reason |-> 0, connection_epoch |-> epoch]

Rejected(reason, epoch) ==
  [kind |-> 3, status |-> 3, session_handle |-> 0, reason |-> reason, connection_epoch |-> epoch]

\* HdqsResponse::decode, which ends with the conditions of encode.
DecodeResponse(b) ==
  IF \/ Len(b) # 20
     \/ Slice(b, 0, 4) # Hdqs \/ Slice(b, 4, 6) # Version
     \/ ~ResponseReserved(b)
     \/ {b[7], b[8]} \ HdqsKind # {} \/ b[11] \notin HdqsReason
  THEN {}
  ELSE {m \in {[kind |-> b[7], status |-> b[8], session_handle |-> FromU16(b, 8),
                reason |-> b[11], connection_epoch |-> Slice(b, 12, 20)]} : ResponseValid(m)}

(***************************************************************************)
(* The carrier.                                                            *)
(***************************************************************************)
Types == {"hdqm", "hdp", "hello", "prepare", "prepare_ack", "open", "open_ack",
          "binding", "response"}

Encode(t, m) ==
  CASE t = "hdqm" -> EncodeHdqm(m)       [] t = "hdp" -> EncodeHdp(m)
    [] t = "hello" -> EncodeHello(m)     [] t = "prepare" -> EncodePrepare(m)
    [] t = "prepare_ack" -> EncodePrepareAck(m)
    [] t = "open" -> EncodeOpen(m)       [] t = "open_ack" -> EncodeOpenAck(m)
    [] t = "binding" -> EncodeBinding(m) [] t = "response" -> EncodeResponse(m)

Decode(t, b) ==
  CASE t = "hdqm" -> DecodeHdqm(b)       [] t = "hdp" -> DecodeHdp(b)
    [] t = "hello" -> DecodeHello(b)     [] t = "prepare" -> DecodePrepare(b)
    [] t = "prepare_ack" -> DecodePrepareAck(b)
    [] t = "open" -> DecodeOpen(b)       [] t = "open_ack" -> DecodeOpenAck(b)
    [] t = "binding" -> DecodeBinding(b) [] t = "response" -> DecodeResponse(b)

\* What the fields of a message may be: bytes, arrays of w of them, and a
\* SessionName, whose constructor has accepted it.
Byte == 0..255
Octets(w) == [1..w -> Byte]
Given(w) == Octets(w) \ {Zeros(w)}
AtMost(n) == {p \in Seq(Byte) : Len(p) <= n}
Names == {s \in Seq(Byte) : SessionName(s) = {s}}

Opens == [session : Names, fingerprint : Octets(32), configuration_generation : Octets(8),
          relay_generation : Octets(8), connection_epoch : Octets(8), token : Octets(32)]

OpenAcks == [session_handle : 1..MaxU16, session : Names, fingerprint : Octets(32),
             configuration_generation : Octets(8), relay_generation : Octets(8),
             connection_epoch : Octets(8), token : Octets(32)]

\* The messages an encoder does not refuse.  Nothing in a hello is 0: the identity
\* is a SHA-256 digest, RelayQuicServer and its configuration are not built with a
\* generation of 0, and the epoch is at least 1.
Sendable(t) ==
  CASE t = "hdqm" -> [kind : HdqmKind, request_id : Octets(16), payload : AtMost(MaxFrame - HdqmHeader)]
    [] t = "hdp" -> [kind : HdpKind, payload : AtMost(MaxFrame - HdpHeader)]
    [] t = "hello" -> [relay_identity : Given(Authority), ca_generation : Given(8),
                       relay_generation : Given(8), connection_epoch : Given(8)]
    [] t = "prepare" -> [session : Names, expected_fingerprint : Octets(32),
                         configuration_generation : Octets(8)]
    [] t = "prepare_ack" -> [session : Names, fingerprint : Octets(32),
                             configuration_generation : Octets(8), relay_generation : Octets(8),
                             connection_epoch : Octets(8), token : Octets(32),
                             token_ttl_secs : Octets(4)]
    [] t = "open" -> Opens
    [] t \in {"open_ack", "binding"} -> OpenAcks
    [] t = "response" -> {m \in [kind : HdqsKind, status : HdqsKind, session_handle : 0..MaxU16,
                                 reason : HdqsReason, connection_epoch : Octets(8)] : ResponseValid(m)}

Init == /\ type \in Types
        /\ msg \in Messages[type]
        /\ bytes = Encode(type, msg)
        /\ changed = FALSE /\ resizes = 0

\* One byte is overwritten.
Overwrite ==
  /\ ~changed /\ changed' = TRUE
  /\ \E i \in DOMAIN bytes, v \in Values :
       v # bytes[i] /\ bytes' = [bytes EXCEPT ![i] = v]
  /\ UNCHANGED <<type, msg, resizes>>

\* The last byte is cut off.
Cut ==
  /\ resizes < MaxResizes /\ bytes # <<>>
  /\ bytes' = Slice(bytes, 0, Len(bytes) - 1) /\ resizes' = resizes + 1
  /\ UNCHANGED <<type, msg, changed>>

\* Bytes follow, as Herdr's own follow the preface of a session stream.
Extend ==
  /\ resizes < MaxResizes
  /\ \E v \in Values : bytes' = Append(bytes, v)
  /\ resizes' = resizes + 1
  /\ UNCHANGED <<type, msg, changed>>

Next == Overwrite \/ Cut \/ Extend

Spec == Init /\ [][Next]_vars

(***************************************************************************)
(* Properties.                                                             *)
(***************************************************************************)

\* The wire holds bytes, and the bounds of the instance hold.
TypeOK ==
  /\ type \in Types /\ msg \in Messages[type]
  /\ \A i \in DOMAIN bytes : bytes[i] \in 0..255
  /\ changed \in BOOLEAN /\ resizes \in 0..MaxResizes

\* Every message the relay writes is read back as itself.
RoundTrip == bytes = Encode(type, msg) => Decode(type, bytes) = {msg}

(***************************************************************************)
(* Decoding is canonical: a byte string that is accepted is the encoding   *)
(* of what it decodes to.  So no byte is ignored, none is read twice, and  *)
(* a changed or resized message is refused or is another message.          *)
(***************************************************************************)
Canonical == \A m \in Decode(type, bytes) : Encode(type, m) = bytes

(***************************************************************************)
(* The readers take exactly one message: whatever follows a preface or a   *)
(* pairing frame on the stream is left for the next reader.                *)
(***************************************************************************)
TakesExactly ==
  LET sent == Encode(type, msg)
  IN type \in {"binding", "hdp"} /\ Slice(bytes, 0, Len(sent)) = sent =>
       (IF type = "hdp" THEN {TakesHdp(bytes)}
                        ELSE {TakesBinding(bytes), TakesBindingIroh(bytes)}) = {{Len(sent)}}

(***************************************************************************)
(* What the relay does with a decoded message relies on these: a session   *)
(* name names a file in one directory, a handle is never 0, and an answer  *)
(* is an acceptance with a handle or a rejection without.                  *)
(***************************************************************************)
DecodedIsUsable ==
  \A m \in Decode(type, bytes) :
    /\ type \in {"prepare", "prepare_ack", "open", "open_ack", "binding"} =>
         /\ Len(m.session) \in 1..MaxName
         /\ 47 \notin {m.session[i] : i \in DOMAIN m.session}
         /\ \E i \in DOMAIN m.session : m.session[i] # 46 \/ Len(m.session) > 2
    /\ type \in {"open_ack", "binding"} => m.session_handle \in 1..MaxU16
    /\ type = "response" => (m.kind = 2) = (m.session_handle # 0)

=============================================================================
