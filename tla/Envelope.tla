------------------------------- MODULE Envelope -------------------------------
(***************************************************************************)
(* Signed statements, across clusters and purposes.  Holders of keys sign  *)
(* SignedV1 envelopes; the signatures travel in SignedBlobV1s and in       *)
(* CommitCertificateV1s, neither of which carries the envelope; a verifier *)
(* rebuilds it from its own genesis digest.                                *)
(*                                                                         *)
(* Relays carry signatures about, pair them with payloads and name signers *)
(* and purposes as they please, late, twice or never: every structure that *)
(* can be filled in from the signatures that exist may reach any verifier. *)
(* A machine has one key, whatever cluster it serves, so nothing but the   *)
(* envelope tells its statements in two clusters apart.                    *)
(***************************************************************************)
EXTENDS Structures, FiniteSets

CONSTANTS Clusters,        \* genesis digests
          Nodes,           \* identifiers of consenters
          Clients,         \* certificates of clients
          Texts,           \* octet strings that travel as a Payload or a Msg
          WireOf(_),       \* the wire that an octet string spells
          SignatureOf(_, _),\* the signature a key makes over a message: octets
          Garbled,         \* octets that are nobody's signature
          Threshold,       \* how many verified entries a client asks for
          MaxSigned,       \* bound: how many signatures are made
          MaxEntries       \* bound: how many entries a certificate has

ASSUME EnvelopeAssumption ==
  /\ 4 <= MaxInt
  /\ Clusters \subseteq Seq(Byte)
  /\ Nodes \subseteq Int64
  /\ Clients \subseteq Seq(Byte)
  /\ Texts \subseteq Seq(Byte)
  /\ Threshold \in Nat \ {0}
  /\ MaxSigned \in Nat /\ MaxEntries \in Nat

VARIABLES signed,    \* the signatures made: [key, message]
          said,      \* history: the statements made, [cluster, purpose, key, payload]
          believed,  \* the statements verifiers accepted from blobs
          decided    \* [cluster, digest, votes] of each certificate a client accepted

vars == <<signed, said, believed, decided>>

PurposeCommitSig     == 1
PurposeOpaqueSign    == 2
PurposeClientRequest == 3
PurposeReadIndex     == 4

Node(n)   == <<"node", n>>
Client(c) == <<"client", c>>
Holders   == {Node(n) : n \in Nodes} \union {Client(c) : c \in Clients}

Statement(g, p, k, text) == [cluster |-> g, purpose |-> p, key |-> k, payload |-> text]

-----------------------------------------------------------------------------
(* The structure that a purpose's payload is; purpose 2 relays its caller's bytes. *)
PURPOSE_PAYLOAD ==
  [p \in {PurposeCommitSig, PurposeClientRequest, PurposeReadIndex} |->
     CASE p = PurposeCommitSig     -> "CommitPayloadV1"
       [] p = PurposeClientRequest -> "ClientRequestV1"
       [] p = PurposeReadIndex     -> "ReadIndexV1"]

Payload(p, text) == Unmarshal(PURPOSE_PAYLOAD[p], WireOf(text))

IsPayload(p, text) == p \in DOMAIN PURPOSE_PAYLOAD => Payload(p, text).err = "ok"

(* Every payload names its own signer, except those that travel beside an  *)
(* identity that the transport has established.                            *)
Signers(p, text) == CASE p = PurposeReadIndex     -> {Node(Payload(p, text).value.SignerID)}
                      [] p = PurposeClientRequest -> {Client(Payload(p, text).value.ClientCert)}
                      [] OTHER                    -> {Node(n) : n \in Nodes}

\* Mutant: the purpose is not in the signed bytes.
envelopeAnyPurpose(p, g, text) ==
  MarshalSignedV1([Version |-> VersionV1, Purpose |-> PurposeReadIndex,
                   GenesisDigest |-> g, Payload |-> text])

\* Mutant: the envelope is encoded without its checks.
envelopeUnchecked(p, g, text) ==
  [err  |-> "ok",
   wire |-> marshal(SignedV1Fields, [Version |-> VersionV1, Purpose |-> p,
                                     GenesisDigest |-> g, Payload |-> text])]

(* The bytes handed to ed25519.Sign, and those a verifier rebuilds. *)
envelopeFor(p, g, text) ==
  MarshalSignedV1([Version |-> VersionV1, Purpose |-> p, GenesisDigest |-> g, Payload |-> text])

(* Ed25519: a signature verifies under the key and over the message it was made for. *)
Verify(k, message, value) == /\ [key |-> k, message |-> message] \in signed
                             /\ value = SignatureOf(k, message)

-----------------------------------------------------------------------------
Init == signed = {} /\ said = {} /\ believed = {} /\ decided = {}

(* The holder of k signs a payload of its own under purpose p in cluster g. *)
Sign(k, p, g, text) ==
  LET e == envelopeFor(p, g, text)
  IN  /\ Statement(g, p, k, text) \in said \/ Cardinality(said) < MaxSigned
      /\ IsPayload(p, text) /\ k \in Signers(p, text)
      /\ e.err = "ok"
      /\ signed' = signed \union {[key |-> k, message |-> e.wire]}
      /\ said' = said \union {Statement(g, p, k, text)}
      /\ UNCHANGED <<believed, decided>>

(* The values that may stand where a signature is expected. *)
Values == {SignatureOf(s.key, s.message) : s \in signed} \union {Garbled}

(* A verifier of cluster g decodes a blob where it expects purpose p and *)
(* attributes the statement to the holder of k.                          *)
BlobVerifies(g, p, k, blob) ==
  LET e == envelopeFor(p, g, blob.Payload)
  IN  /\ blob.Purpose = p
      /\ e.err = "ok" /\ Verify(k, e.wire, blob.Value)
      /\ IsPayload(p, blob.Payload) /\ k \in Signers(p, blob.Payload)
      /\ UnmarshalSignedBlobV1(marshal(SignedBlobV1Fields, blob)) = Acceptance(blob)

Believe(g, p, k, blob) ==
  /\ BlobVerifies(g, p, k, blob)
  /\ believed' = believed \union {Statement(g, p, k, blob.Payload)}
  /\ UNCHANGED <<signed, said, decided>>

(* WIRE-SPEC 3.13.1: what a client checks of one entry of a certificate. *)
EntryVerifies(g, cert, s) ==
  LET m == Payload(PurposeCommitSig, s.Msg)
      e == envelopeFor(PurposeCommitSig, g, s.Msg)
  IN  /\ e.err = "ok" /\ Verify(Node(s.Signer), e.wire, s.Value)
      /\ m.err = "ok" /\ m.value.ProposalDigest = cert.ProposalDigest

(* A client decodes a certificate and counts its entries: that they are *)
(* different consenters' is the certificate's order.                    *)
Decide(g, cert) ==
  LET counted == {i \in DOMAIN cert.Sigs : EntryVerifies(g, cert, cert.Sigs[i])}
      Vote(i) == Statement(g, PurposeCommitSig, Node(cert.Sigs[i].Signer), cert.Sigs[i].Msg)
  IN  /\ Cardinality(counted) >= Threshold
      /\ UnmarshalCommitCertificateV1(marshal(CommitCertificateV1Fields, cert)) = Acceptance(cert)
      /\ decided' = decided \union {[cluster |-> g, digest |-> cert.ProposalDigest,
                                     votes |-> {Vote(i) : i \in counted}]}
      /\ UNCHANGED <<signed, said, believed>>

Blobs == [Version : {VersionV1}, Purpose : 0 .. 5, Payload : Texts, Value : Values]

Entries == [Signer : Nodes, Value : Values, Msg : Texts]

(* The proposals that the texts are about. *)
Proposals == {Payload(PurposeCommitSig, text).value.ProposalDigest :
                text \in {t \in Texts : Payload(PurposeCommitSig, t).err = "ok"}}

Certificates == [Version : {VersionV1}, ProposalDigest : Proposals, View : {0}, Seq : {0},
                 Sigs : UNION {[1 .. n -> Entries] : n \in 1 .. MaxEntries}]

Next == \E g \in Clusters :
          \/ \E k \in Holders, p \in 1 .. 4, text \in Texts : Sign(k, p, g, text)
          \/ \E k \in Holders, p \in 1 .. 4, blob \in Blobs : Believe(g, p, k, blob)
          \/ \E cert \in Certificates : Decide(g, cert)

Spec == Init /\ [][Next]_vars

-----------------------------------------------------------------------------
(* Statements are typed, and what was signed is what UnmarshalSignedV1 accepts *)
(* (signed.go:39: what a verifier reconstructs a signer could have emitted).   *)
TypeOK ==
  LET Statements == [cluster : Clusters, purpose : 1 .. 4, key : Holders, payload : Texts]
  IN  /\ said \subseteq Statements /\ believed \subseteq Statements
      /\ \A d \in decided : d.cluster \in Clusters /\ d.votes \subseteq Statements
      /\ \A s \in signed : s.key \in Holders /\ UnmarshalSignedV1(s.message).err = "ok"

(* A verifier believes what the holder of the key said, in that cluster, under   *)
(* that purpose: no statement crosses over (signed.go:22, :72, attest.go:6).     *)
BelievedWasSaid == believed \subseteq said

(* What a client takes as decided, as many different consenters as it asks for   *)
(* signed for, in its cluster and about that proposal (commitcert.go:3).         *)
DecidedByQuorum ==
  \A d \in decided :
    LET about == {s \in said : /\ s.cluster = d.cluster /\ s.purpose = PurposeCommitSig
                               /\ Payload(PurposeCommitSig, s.payload).value.ProposalDigest = d.digest}
    IN  Cardinality({s.key : s \in about}) >= Threshold

(* The envelope implements the statements it stands for. *)
Promise == INSTANCE Statements

PromiseKept == Promise!Spec
=============================================================================
