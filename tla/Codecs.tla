------------------------------- MODULE Codecs -------------------------------
(***************************************************************************)
(* The codecs: a QUIC session-plane message whose bytes change on the way, *)
(* or a bootstrap or enrollment payload whose fields do.  A behaviour      *)
(* carries one message of the one or the other kind.                       *)
(***************************************************************************)
EXTENDS Naturals, Sequences

CONSTANTS Messages, Values, MaxResizes, Inputs, Alternatives, MaxTampers

VARIABLES type, msg, bytes, changed, resizes,    \* QuicWire
          payloadType, fields, payload, tampers  \* ContractPayload, whose type is payloadType

wireVars == <<type, msg, bytes, changed, resizes>>
payloadVars == <<payloadType, fields, payload, tampers>>
codecVars == <<wireVars, payloadVars>>

W == INSTANCE QuicWire
P == INSTANCE ContractPayload WITH type <- payloadType

\* The messages are ones the encoders write, and a changed byte is a byte.  The
\* constructors get the arguments of their signatures, and JSON gives a field
\* of the struct one value or null.
ASSUME CodecAssumption ==
  /\ MaxResizes \in Nat /\ MaxTampers \in Nat
  /\ Values \subseteq W!Byte
  /\ \A t \in W!Types : Messages[t] \subseteq W!Sendable(t)
  /\ P!Types \subseteq DOMAIN P!Fields
  /\ \A t \in P!Types : /\ \A f \in Inputs[t] : P!Arguments(t, f)
                        /\ \A name \in P!Fields[t] : \A o \in Alternatives[name] : P!Optional(name, o)

OnWire == payloadType = "none"

CodecInit ==
  \/ W!Init /\ payloadType = "none" /\ fields = "none" /\ payload = {} /\ tampers = 0
  \/ P!Init /\ type = "none" /\ msg = "none" /\ bytes = <<>> /\ changed = FALSE /\ resizes = 0

CodecNext ==
  \/ OnWire /\ W!Next /\ UNCHANGED payloadVars
  \/ ~OnWire /\ P!Next /\ UNCHANGED wireVars

CodecSpec == CodecInit /\ [][CodecNext]_codecVars

(***************************************************************************)
(* Whatever the relay writes fits a frame and is read back as itself, at   *)
(* the limits of names, requests and chains too.                           *)
(***************************************************************************)
RoundTrip == IF OnWire THEN W!TypeOK /\ W!RoundTrip
                       ELSE P!TypeOK /\ P!RoundTrip /\ P!FitsFrame

(***************************************************************************)
(* Decoding is canonical and takes exactly one message: what is accepted   *)
(* is the encoding of what it decodes to, so a changed, cut or extended    *)
(* message is refused or is another message, and no field is ignored.      *)
(***************************************************************************)
Canonical == IF OnWire THEN W!Canonical /\ W!TakesExactly ELSE P!Canonical

(***************************************************************************)
(* What the handlers rely on when a message is accepted: names of one      *)
(* directory, handles that are not 0, a digest that is the request's, and  *)
(* a certificate or a rejection code where the status says so.             *)
(***************************************************************************)
DecodedIsUsable == IF OnWire THEN W!DecodedIsUsable ELSE P!DigestBinds /\ P!StatusDecides
=============================================================================
