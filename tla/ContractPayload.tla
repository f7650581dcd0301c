--------------------------- MODULE ContractPayload ---------------------------
(***************************************************************************)
(* The payloads of the HDB1 bootstrap and HDE3 enrollment contracts        *)
(* (bootstrap_wire.rs, enrollment_v3_wire.rs): their constructors, their   *)
(* decoders and the rules a decoder checks field by field.                 *)
(*                                                                         *)
(* A byte string is its length n and its content v, where content 0 is all *)
(* zeros.  A text field is the bytes it was made from and the form it has: *)
(* canonical base64url or hex, an accepted spelling of the same bytes that *)
(* is not canonical, or junk.  A payload is a JSON object: a record whose  *)
(* fields are sets of one value, or empty where the field is null.  Like   *)
(* a payload, the value of an operator that may fail is a set, empty for   *)
(* an error: which of the sanitized errors it is, and so the order of the  *)
(* checks, is left out.                                                    *)
(*                                                                         *)
(* The state machine builds one payload and changes fields of it on the    *)
(* way to whoever decodes it.                                              *)
(***************************************************************************)
EXTENDS Naturals, Sequences

CONSTANTS Inputs,       \* [start |-> ..., ...]: what each constructor is called with
          Alternatives, \* what a change may put in a field, by the field's name
          MaxTampers    \* bound: fields changed on the way

VARIABLES type, fields, \* the payload's type and what its constructor was called with
          payload,      \* what is on the way: {} when the constructor refused
          tampers       \* fields changed so far

vars == <<type, fields, payload, tampers>>

Id == 32                         \* HDB1_ID_BYTES, HDE3_ID_BYTES
RequestId == 16                  \* HDB1_REQUEST_ID_BYTES
Digest == 32                     \* HDB1_DIGEST_BYTES, HDE3_DIGEST_BYTES
MaxCsr == 16 * 1024              \* HDB1_MAX_CSR_BYTES, HDE3_MAX_CSR_BYTES
MaxSession == 64                 \* HDB1_MAX_SESSION_BYTES, HDE3_MAX_SESSION_BYTES
MaxCertificates == 8             \* HDB1_MAX_CHAIN_CERTIFICATES, HDE3_MAX_CHAIN_CERTIFICATES
MaxPayload == 64 * 1024 - 11     \* HDB1_MAX_PAYLOAD_BYTES, HDE3_MAX_PAYLOAD_BYTES

MaxChain == 46 * 1024            \* HDB1_MAX_CHAIN_BYTES, HDE3_MAX_CHAIN_BYTES

(***************************************************************************)
(* Fields.                                                                 *)
(***************************************************************************)
Forms == {"base64", "base64_loose", "hex", "hex_upper", "junk"}
Text(b, form) == {[n |-> b.n, v |-> b.v, form |-> form]}
Base64(b) == Text(b, "base64")
Hex(b) == Text(b, "hex")

\* The bytes of a text in one of these forms.
Bytes(o, forms) == {[n |-> t.n, v |-> t.v] : t \in {u \in o : u.form \in forms}}

\* Mutant: the text is not compared with the encoding of what it decodes to.
Base64ExactLoose(o, w) ==
  {b \in Bytes(o, {"base64", "base64_loose"}) : b.n = w /\ b.v # 0}

\* decode_base64_exact.
Base64Exact(o, w) ==
  {b \in Bytes(o, {"base64", "base64_loose"}) : b.n = w /\ Base64(b) = o /\ b.v # 0}

\* decode_base64_bounded.
Base64Bounded(o, max) ==
  {b \in Bytes(o, {"base64", "base64_loose"}) : b.n \in 1..max /\ Base64(b) = o}

\* decode_hex_exact, which refuses uppercase digits.
HexExact(o, w) == {b \in Bytes(o, {"hex", "hex_upper"}) : b.n = w /\ Hex(b) = o /\ b.v # 0}

\* validate_session: the length and whether the name is a safe one other than . and ..
Session(o) == {s \in o : s.n \in 1..MaxSession /\ s.safe}

\* validate_code.
Code(o) == {c \in o : c.n = 6 /\ c.digits}

NonZero(o) == o \ {0}

\* Sha256::digest: injective on the byte strings that fit in a payload, all of
\* them shorter than 100000 bytes.
Sha256(b) == [n |-> Digest, v |-> 100 + b.n + 100000 * b.v]

\* The bytes of the certificates a loop over the chain has seen.
Sizes(chain) == [i \in DOMAIN chain |-> chain[i].n]

SumOf(sizes) ==
  LET total[i \in 0..Len(sizes)] == IF i = 0 THEN 0 ELSE total[i - 1] + sizes[i]
  IN total[Len(sizes)]

ChainBytes(chain) == SumOf(Sizes(chain))

\* encode_certificate_chain.
EncodeChain(certs) ==
  IF /\ Len(certs) \in 1..MaxCertificates
     /\ \A i \in DOMAIN certs : certs[i].n # 0
     /\ ChainBytes(certs) <= MaxChain
  THEN {[i \in DOMAIN certs |-> CHOOSE t \in Base64(certs[i]) : TRUE]} ELSE {}

\* decode_certificate_chain.
DecodeChain(o) ==
  {[i \in DOMAIN texts |-> CHOOSE b \in Base64Bounded({texts[i]}, MaxChain) : TRUE] :
     texts \in {c \in o : /\ Len(c) \in 1..MaxCertificates
                          /\ \A i \in DOMAIN c : Base64Bounded({c[i]}, MaxChain) # {}
                          /\ ChainBytes(c) <= MaxChain}}

(***************************************************************************)
(* Constructors: what a field of each name is encoded as, and what each    *)
(* constructor asks of its arguments.                                      *)
(***************************************************************************)
Base64Fields == {"request_id", "core_csr", "app_csr", "bootstrap_id", "approval_id", "challenge"}
HexFields == {"app_csr_digest", "core_binding_digest", "core_identity", "app_identity",
              "existing_app_identity", "issued_certificate_fingerprint",
              "issued_certificate_chain_digest", "certificate_fingerprint",
              "certificate_chain_digest"}

EncodedField(name, x) ==
  IF name \in Base64Fields THEN Base64(x)
  ELSE IF name \in HexFields THEN Hex(x)
  ELSE IF name = "certificate_chain" THEN EncodeChain(x) ELSE {x}

Encoded(f) == [name \in DOMAIN f |-> EncodedField(name, f[name])]

\* The further fields g of the payload f.
With(f, g) ==
  [name \in DOMAIN f \cup DOMAIN g |-> IF name \in DOMAIN f THEN f[name] ELSE g[name]]

\* A payload whose optional fields are null.
Nulls(names) == [name \in names |-> {}]

\* No argument among these is all zeros.
Given(args) == \A b \in args : b.v # 0

NewStart(f) ==
  IF /\ Session({f.normalized_session}) # {}
     /\ Given({f.request_id, f.app_csr_digest, f.core_binding_digest})
     /\ f.core_csr.n \in 1..MaxCsr /\ f.configuration_generation # 0
  THEN {Encoded(f)} ELSE {}

NewChallenge(f) ==
  IF Given({f.bootstrap_id, f.challenge}) /\ f.expires_at_epoch_seconds # 0
  THEN {With(Encoded(f), [status |-> {"awaiting_code"}])} ELSE {}

NewSubmit(f) ==
  IF Code({f.code}) # {} /\ Given({f.bootstrap_id, f.challenge}) THEN {Encoded(f)} ELSE {}

NewCoreIssued(f) ==
  IF /\ Given({f.approval_id, f.core_identity}) /\ f.not_after_epoch_seconds # 0
     /\ EncodeChain(f.certificate_chain) # {}
  THEN {With(Encoded(f), [state |-> {"bootstrap_pending"}])} ELSE {}

NewReconcile(f) ==
  IF Session({f.normalized_session}) # {} /\ Given({f.approval_id, f.core_binding_digest})
  THEN {Encoded(f)} ELSE {}

\* Hdb1RejectedPayload and Hde3RejectedPayload, whose code is named as a result's is.
NewRejected(f) == IF f.rejection_code # 0 THEN {Encoded(f)} ELSE {}

\* new_pending and new_rejected of both result payloads, whose other fields are null.
NewShort(f, optional) ==
  IF /\ Given({f.approval_id})
     /\ f.status = "rejected" => f.rejection_code # 0
  THEN {With(Encoded(f), Nulls(optional))} ELSE {}

ResultFields == {"core_identity", "certificate_chain", "not_after_epoch_seconds", "rejection_code"}

\* Hdb1ResultPayload::new_pending, new_issued and new_rejected.
NewResult(f) ==
  IF f.status # "issued" THEN NewShort(f, ResultFields)
  ELSE IF /\ Given({f.approval_id, f.core_identity}) /\ f.not_after_epoch_seconds # 0
          /\ EncodeChain(f.certificate_chain) # {}
  THEN {With(Encoded(f), Nulls(ResultFields))} ELSE {}

NewApprovalChallenge(f) ==
  IF Given({f.approval_id, f.challenge}) /\ f.expires_at_epoch_seconds # 0
  THEN {Encoded(f)} ELSE {}

Result3Fields == {"app_identity", "certificate_chain", "certificate_fingerprint",
                  "certificate_chain_digest", "not_after_epoch_seconds",
                  "configuration_generation", "rejection_code"}

Issuable(f) ==
  /\ Given({f.approval_id, f.app_identity, f.certificate_fingerprint, f.certificate_chain_digest})
  /\ f.not_after_epoch_seconds # 0 /\ f.configuration_generation # 0
  /\ EncodeChain(f.certificate_chain) # {}

\* Hde3ResultPayload::new_pending, new_issued and new_rejected.
NewResult3(f) ==
  IF f.status \in {"pending", "rejected"} THEN NewShort(f, Result3Fields)
  ELSE IF Issuable(f) THEN {With(Encoded(f), Nulls(Result3Fields))} ELSE {}

(***************************************************************************)
(* Decoders.                                                               *)
(***************************************************************************)
DecodeStart(p) ==
  {[request_id |-> r, core_csr |-> c, app_csr_digest |-> d, normalized_session |-> s,
    core_binding_digest |-> b, configuration_generation |-> g] :
     r \in Base64Exact(p.request_id, RequestId), c \in Base64Bounded(p.core_csr, MaxCsr),
     d \in HexExact(p.app_csr_digest, Digest), b \in HexExact(p.core_binding_digest, Digest),
     g \in NonZero(p.configuration_generation), s \in Session(p.normalized_session)}

DecodeChallenge(p) ==
  {[bootstrap_id |-> i, challenge |-> c, expires_at_epoch_seconds |-> e] :
     i \in Base64Exact(p.bootstrap_id, Id), c \in Base64Exact(p.challenge, Digest),
     e \in {x \in NonZero(p.expires_at_epoch_seconds) : p.status = {"awaiting_code"}}}

DecodeSubmit(p) ==
  {[bootstrap_id |-> i, challenge |-> c, code |-> k] :
     i \in Base64Exact(p.bootstrap_id, Id), c \in Base64Exact(p.challenge, Digest),
     k \in Code(p.code)}

DecodeCoreIssued(p) ==
  {[approval_id |-> i, core_identity |-> d, certificate_chain |-> c,
    not_after_epoch_seconds |-> e] :
     i \in Base64Exact(p.approval_id, Id), d \in HexExact(p.core_identity, Digest),
     c \in DecodeChain(p.certificate_chain),
     e \in {x \in NonZero(p.not_after_epoch_seconds) : p.state = {"bootstrap_pending"}}}

DecodeReconcile(p) ==
  {[approval_id |-> i, core_binding_digest |-> b, normalized_session |-> s] :
     i \in Base64Exact(p.approval_id, Id), b \in HexExact(p.core_binding_digest, Digest),
     s \in Session(p.normalized_session)}

DecodeRejected(p) == {[rejection_code |-> c] : c \in NonZero(p.rejection_code)}

\* Hdb1ResultPayload::validate.
ResultValid(p) ==
  /\ Base64Exact(p.approval_id, Id) # {}
  /\ \/ /\ p.status = {"pending"} /\ \A name \in ResultFields : p[name] = {}
     \/ /\ p.status = {"issued"}
        /\ HexExact(p.core_identity, Digest) # {} /\ DecodeChain(p.certificate_chain) # {}
        /\ NonZero(p.not_after_epoch_seconds) # {} /\ p.rejection_code = {}
     \/ /\ p.status = {"rejected"} /\ NonZero(p.rejection_code) # {}
        /\ \A name \in ResultFields \ {"rejection_code"} : p[name] = {}

\* The value of an optional field that was checked, by the field's name.
FieldValue(name, o) ==
  CHOOSE x \in (IF name \in Base64Fields THEN Base64Exact(o, Id)
                ELSE IF name \in HexFields THEN HexExact(o, Digest)
                ELSE IF name = "certificate_chain" THEN DecodeChain(o) ELSE o) : TRUE

\* The fields of a result that are not null.
Present(p) == [name \in {n \in DOMAIN p : p[n] # {}} |-> FieldValue(name, p[name])]

DecodeResult(p) == IF ResultValid(p) THEN {Present(p)} ELSE {}

\* validate_csr_digest, with the two fields it compares.
BoundCsr(p) ==
  {cd \in Base64Bounded(p.app_csr, MaxCsr) \X HexExact(p.app_csr_digest, Digest) :
     cd[2] = Sha256(cd[1])}

DecodeFirstAppSubmit(p) ==
  {[approval_id |-> i, app_csr |-> cd[1], app_csr_digest |-> cd[2]] :
     i \in Base64Exact(p.approval_id, Id), cd \in BoundCsr(p)}

DecodeApprovalStart(p) ==
  {[app_csr_digest |-> d, normalized_session |-> s, core_binding_digest |-> b,
    configuration_generation |-> g] :
     d \in HexExact(p.app_csr_digest, Digest), b \in HexExact(p.core_binding_digest, Digest),
     s \in Session(p.normalized_session), g \in NonZero(p.configuration_generation)}

DecodeApprovalChallenge(p) ==
  {[approval_id |-> i, challenge |-> c, expires_at_epoch_seconds |-> e] :
     i \in Base64Exact(p.approval_id, Id), c \in Base64Exact(p.challenge, Digest),
     e \in NonZero(p.expires_at_epoch_seconds)}

DecodeApprovalSubmit(p) ==
  {[approval_id |-> i, challenge |-> c, code |-> k, app_csr |-> cd[1], app_csr_digest |-> cd[2]] :
     i \in Base64Exact(p.approval_id, Id), c \in Base64Exact(p.challenge, Digest),
     k \in Code(p.code), cd \in BoundCsr(p)}

DecodeConfirmPersisted(p) ==
  {[approval_id |-> i, app_identity |-> a, issued_certificate_fingerprint |-> t,
    issued_certificate_chain_digest |-> d, configuration_generation |-> g] :
     i \in Base64Exact(p.approval_id, Id), a \in HexExact(p.app_identity, Digest),
     t \in HexExact(p.issued_certificate_fingerprint, Digest),
     d \in HexExact(p.issued_certificate_chain_digest, Digest),
     g \in NonZero(p.configuration_generation)}

DecodeReconcile3(p) ==
  {[approval_id |-> i, app_csr_digest |-> d, normalized_session |-> s,
    core_binding_digest |-> b, configuration_generation |-> g] :
     i \in Base64Exact(p.approval_id, Id), d \in HexExact(p.app_csr_digest, Digest),
     b \in HexExact(p.core_binding_digest, Digest), s \in Session(p.normalized_session),
     g \in NonZero(p.configuration_generation)}

DecodeRenew(p) ==
  {[existing_app_identity |-> a, app_csr |-> cd[1], app_csr_digest |-> cd[2],
    normalized_session |-> s, core_binding_digest |-> b, configuration_generation |-> g] :
     a \in HexExact(p.existing_app_identity, Digest), cd \in BoundCsr(p),
     b \in HexExact(p.core_binding_digest, Digest), s \in Session(p.normalized_session),
     g \in NonZero(p.configuration_generation)}

\* Hde3ResultPayload::validate.
Result3Valid(p) ==
  /\ Base64Exact(p.approval_id, Id) # {}
  /\ \/ /\ p.status = {"pending"} /\ \A name \in Result3Fields : p[name] = {}
     \/ /\ p.status \in {{"issued"}, {"active"}}
        /\ \A name \in {"app_identity", "certificate_fingerprint", "certificate_chain_digest"} :
             HexExact(p[name], Digest) # {}
        /\ DecodeChain(p.certificate_chain) # {}
        /\ NonZero(p.not_after_epoch_seconds) # {}
        /\ NonZero(p.configuration_generation) # {} /\ p.rejection_code = {}
     \/ /\ p.status = {"rejected"} /\ NonZero(p.rejection_code) # {}
        /\ \A name \in Result3Fields \ {"rejection_code"} : p[name] = {}

\* decode_issued_fields, with the approval, status and rejection code it leaves in the payload.
DecodeResult3(p) == IF Result3Valid(p) THEN {Present(p)} ELSE {}

(***************************************************************************)
(* The carrier.  HDE3 requests are built by Core, which may send anything. *)
(***************************************************************************)
Types == DOMAIN Inputs
CoreBuilt == {"first_app_submit", "approval_start", "approval_submit", "confirm_persisted",
              "reconcile3", "renew"}

New(t, f) ==
  CASE t = "start" -> NewStart(f)             [] t = "challenge" -> NewChallenge(f)
    [] t = "submit" -> NewSubmit(f)           [] t = "core_issued" -> NewCoreIssued(f)
    [] t = "reconcile" -> NewReconcile(f)     [] t = "result" -> NewResult(f)
    [] t = "approval_challenge" -> NewApprovalChallenge(f)
    [] t = "result3" -> NewResult3(f)         [] t = "rejected" -> NewRejected(f)
    [] t \in CoreBuilt -> {Encoded(f)}

Decode(t, p) ==
  CASE t = "start" -> DecodeStart(p)          [] t = "challenge" -> DecodeChallenge(p)
    [] t = "submit" -> DecodeSubmit(p)        [] t = "core_issued" -> DecodeCoreIssued(p)
    [] t = "reconcile" -> DecodeReconcile(p)  [] t = "result" -> DecodeResult(p)
    [] t = "rejected" -> DecodeRejected(p)    [] t = "first_app_submit" -> DecodeFirstAppSubmit(p)
    [] t = "approval_start" -> DecodeApprovalStart(p)
    [] t = "approval_challenge" -> DecodeApprovalChallenge(p)
    [] t = "approval_submit" -> DecodeApprovalSubmit(p)
    [] t = "confirm_persisted" -> DecodeConfirmPersisted(p)
    [] t = "reconcile3" -> DecodeReconcile3(p) [] t = "renew" -> DecodeRenew(p)
    [] t = "result3" -> DecodeResult3(p)

(***************************************************************************)
(* The fields of each payload's struct, what a field may hold, and what a  *)
(* constructor may be called with.                                         *)
(***************************************************************************)
Layout ==
  [start |-> <<"request_id", "core_csr", "app_csr_digest", "normalized_session",
               "core_binding_digest", "configuration_generation">>,
   challenge |-> <<"bootstrap_id", "challenge", "expires_at_epoch_seconds", "status">>,
   submit |-> <<"bootstrap_id", "challenge", "code">>,
   core_issued |-> <<"approval_id", "core_identity", "certificate_chain",
                     "not_after_epoch_seconds", "state">>,
   reconcile |-> <<"approval_id", "core_binding_digest", "normalized_session">>,
   result |-> <<"approval_id", "status", "core_identity", "certificate_chain",
                "not_after_epoch_seconds", "rejection_code">>,
   rejected |-> <<"rejection_code">>,
   first_app_submit |-> <<"approval_id", "app_csr", "app_csr_digest">>,
   approval_start |-> <<"app_csr_digest", "normalized_session", "core_binding_digest",
                        "configuration_generation">>,
   approval_challenge |-> <<"approval_id", "challenge", "expires_at_epoch_seconds">>,
   approval_submit |-> <<"approval_id", "challenge", "code", "app_csr", "app_csr_digest">>,
   confirm_persisted |-> <<"approval_id", "app_identity", "issued_certificate_fingerprint",
                           "issued_certificate_chain_digest", "configuration_generation">>,
   reconcile3 |-> <<"approval_id", "app_csr_digest", "normalized_session",
                    "core_binding_digest", "configuration_generation">>,
   renew |-> <<"existing_app_identity", "app_csr", "app_csr_digest", "normalized_session",
               "core_binding_digest", "configuration_generation">>,
   result3 |-> <<"approval_id", "status", "app_identity", "certificate_chain",
                 "certificate_fingerprint", "certificate_chain_digest", "not_after_epoch_seconds",
                 "configuration_generation", "rejection_code">>]

Fields == [t \in DOMAIN Layout |-> {Layout[t][i] : i \in DOMAIN Layout[t]}]

\* One value or null; a chain is an array.
Optional(name, o) ==
  /\ o = {} \/ \E x \in o : o = {x}
  /\ name = "certificate_chain" => \A c \in o : c \in Seq([n : Nat, v : Nat, form : Forms])

\* The type of an argument: identifiers and digests are arrays of their width.
Argument(name) ==
  CASE name = "request_id" -> [n : {RequestId}, v : Nat]
    [] name \in {"core_csr", "app_csr"} -> [n : Nat, v : Nat]
    [] name \in (Base64Fields \cup HexFields) \ {"request_id", "core_csr", "app_csr"} ->
         [n : {Digest}, v : Nat]
    [] name = "certificate_chain" -> Seq([n : Nat, v : Nat])
    [] name = "normalized_session" -> [n : Nat, safe : BOOLEAN]
    [] name = "code" -> [n : Nat, digits : BOOLEAN]
    [] name = "status" -> {"pending", "issued", "active", "rejected"}
    [] OTHER -> Nat

\* The optional fields that new_pending, new_rejected and new_issued take, the
\* last for an active result too.
Reported(t, status) ==
  CASE status = "pending" -> {}
    [] status = "rejected" -> {"rejection_code"}
    [] OTHER -> (IF t = "result" THEN ResultFields ELSE Result3Fields) \ {"rejection_code"}

\* The arguments of a constructor: the optional fields of a result as its status has them.
Arguments(t, f) ==
  /\ f = [name \in DOMAIN f |-> f[name]]
  /\ IF t \in {"result", "result3"}
     THEN /\ {"approval_id", "status"} \subseteq DOMAIN f
          /\ t = "result" => f.status # "active"
          /\ DOMAIN f = {"approval_id", "status"} \cup Reported(t, f.status)
     ELSE DOMAIN f = Fields[t] \ {"status", "state"}
  /\ \A name \in DOMAIN f : f[name] \in Argument(name)

Init == /\ type \in Types
        /\ fields \in Inputs[type]
        /\ payload = New(type, fields)
        /\ tampers = 0

\* A field is replaced on the way.
Tamper ==
  /\ tampers < MaxTampers /\ tampers' = tampers + 1
  /\ \E p \in payload : \E name \in DOMAIN p : \E x \in Alternatives[name] :
       x # p[name] /\ payload' = {[p EXCEPT ![name] = x]}
  /\ UNCHANGED <<type, fields>>

Next == Tamper

Spec == Init /\ [][Next]_vars

(***************************************************************************)
(* Properties.                                                             *)
(***************************************************************************)
Accepted == UNION {Decode(type, p) : p \in payload}

\* One payload at most is on the way, with the fields of its struct.
TypeOK ==
  /\ type \in Types /\ fields \in Inputs[type] /\ tampers \in 0..MaxTampers
  /\ \A p \in payload :
       /\ payload = {p} /\ DOMAIN p = Fields[type]
       /\ \A name \in DOMAIN p : Optional(name, p[name])

(***************************************************************************)
(* A constructor only builds what the decoder at the other end accepts,    *)
(* as the fields it was given.                                             *)
(***************************************************************************)
RoundTrip == tampers = 0 /\ type \notin CoreBuilt /\ payload # {} => Accepted = {fields}

(***************************************************************************)
(* What a decoder accepts is exactly what the constructor builds from the  *)
(* fields it decodes to: no field has two spellings, and a result whose    *)
(* status and fields disagree is refused.                                  *)
(***************************************************************************)
Canonical == \A f \in Accepted : New(type, f) = payload

(***************************************************************************)
(* A certificate request that is accepted is the one its digest names, so  *)
(* the approval that was given for the digest covers it.                   *)
(***************************************************************************)
DigestBinds ==
  \A f \in Accepted : "app_csr" \in DOMAIN f => f.app_csr_digest = Sha256(f.app_csr)

(***************************************************************************)
(* A result that is accepted carries a certificate if and only if it       *)
(* reports one, and a rejection code if and only if it reports a rejection.*)
(***************************************************************************)
StatusDecides ==
  type \in {"result", "result3"} =>
    \A f \in Accepted :
      /\ (f.status \in {"issued", "active"}) = ("certificate_chain" \in DOMAIN f)
      /\ (f.status = "rejected") = ("rejection_code" \in DOMAIN f)

\* The JSON text of a field: keys have at most 31 characters and numbers 20 digits.
TextSize(t) == IF t.form = "hex" THEN 2 * t.n ELSE (4 * t.n + 2) \div 3

FieldSize(name, x) ==
  CASE name \in Base64Fields \cup HexFields -> 2 + TextSize(x)
    [] name = "certificate_chain" -> 1 + SumOf([i \in DOMAIN x |-> 3 + TextSize(x[i])])
    [] name = "normalized_session" -> 2 + MaxSession
    [] OTHER -> 20

OptionalSize(name, o) == 35 + IF o = {} THEN 4 ELSE FieldSize(name, CHOOSE x \in o : TRUE)

JsonSize(t, p) == 1 + SumOf([i \in DOMAIN Layout[t] |-> OptionalSize(Layout[t][i], p[Layout[t][i]])])

(***************************************************************************)
(* Every payload a decoder accepts fits a frame, and so does every one a   *)
(* constructor of the relay builds, at the limits of certificate requests  *)
(* and chains too: a result that cannot be written would leave the other   *)
(* end waiting for an issued certificate.                                  *)
(***************************************************************************)
FitsFrame == Accepted # {} => \A p \in payload : JsonSize(type, p) <= MaxPayload
=============================================================================
