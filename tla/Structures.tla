------------------------------ MODULE Structures ------------------------------
(***************************************************************************)
(* The structures of package canonical: the field list of each, the checks *)
(* its Marshal and Unmarshal functions make, and those functions.          *)
(***************************************************************************)
EXTENDS Asn1

CONSTANTS PrevStateRootLen,   \* 32 in the code, as the next three
          GenesisDigestLen,
          DigestLen,
          LeafPubKeyLen,
          SignatureLen,       \* 64
          RequestIDLen,       \* 16
          NonceLen,           \* 16
          SpiffeScheme,       \* the octets of "spiffe://"
          SpiffeNode          \* the octets of "/node/"

ASSUME WidthAssumption ==
  /\ {PrevStateRootLen, GenesisDigestLen, DigestLen, LeafPubKeyLen,
      SignatureLen, RequestIDLen, NonceLen} \subseteq Nat \ {0}
  /\ {SpiffeScheme, SpiffeNode} \subseteq Seq(Byte) \ {<<>>}
  /\ SpiffeNode[Len(SpiffeNode)] \notin 48 .. 57   \* it ends with no digit

VersionV1 == 1

-----------------------------------------------------------------------------
(* The errors of errors.go, and the one asn1.Unmarshal returns. *)
Errors == {"ErrAsn1", "ErrVersion", "ErrTrailing", "ErrNonCanonical", "ErrRange",
           "ErrLength", "ErrEmpty", "ErrFormat", "ErrOrder"}

(* Field lists. *)
HeaderFields == <<IntField("Version"), OctField("PrevStateRoot"),
                  IntField("PrevSeq"), IntField("ConsensusTime")>>

ProposalV0Fields == <<OctField("Payload"), OctField("Header"),
                      OctField("Metadata"), IntField("VerificationSequence")>>

SignerSigV0Fields == <<IntField("Signer"), OctField("Value"), OctField("Msg")>>

SignatureSetV0Fields == <<ListField("Sigs", SignerSigV0Fields)>>

SignedV1Fields == <<IntField("Version"), IntField("Purpose"),
                    OctField("GenesisDigest"), OctField("Payload")>>

SignedBlobV1Fields == <<IntField("Version"), IntField("Purpose"),
                        OctField("Payload"), OctField("Value")>>

CommitPayloadV1Fields == <<IntField("Version"), OctField("ProposalDigest"), OctField("Aux")>>

CertificateV1Fields == <<OctField("DER")>>

ClientRequestV1Fields == <<IntField("Version"), OctField("ClientCert"),
                           ListField("Intermediates", CertificateV1Fields),
                           OctField("RequestID"), IntField("Expiry"), OctField("Payload")>>

ReadIndexV1Fields == <<IntField("Version"), IntField("SignerID"), IntField("View"),
                       IntField("Seq"), OctField("Nonce")>>

CommitCertificateV1Fields == <<IntField("Version"), OctField("ProposalDigest"),
                               IntField("View"), IntField("Seq"),
                               ListField("Sigs", SignerSigV0Fields)>>

GenesisMemberV1Fields == <<IntField("NodeID"), OctField("SpiffeID"), OctField("LeafPubKey")>>

GenesisV1Fields == <<IntField("Version"), OctField("TrustDomain"), OctField("CARoot"),
                     IntField("MaxNodes"), ListField("Members", GenesisMemberV1Fields)>>

Schemas == [Header              |-> HeaderFields,
            ProposalV0          |-> ProposalV0Fields,
            SignatureSetV0      |-> SignatureSetV0Fields,
            SignedV1            |-> SignedV1Fields,
            SignedBlobV1        |-> SignedBlobV1Fields,
            CommitPayloadV1     |-> CommitPayloadV1Fields,
            ClientRequestV1     |-> ClientRequestV1Fields,
            ReadIndexV1         |-> ReadIndexV1Fields,
            CommitCertificateV1 |-> CommitCertificateV1Fields,
            GenesisV1           |-> GenesisV1Fields]

(* The structures that travel on their own, and those with a Version field. *)
Kinds         == DOMAIN Schemas
VersionExempt == {"ProposalV0", "SignatureSetV0"}
Versioned     == Kinds \ VersionExempt

IsValue(kind, v) == IsStruct(Schemas[kind], v, Int64)

-----------------------------------------------------------------------------
(***************************************************************************)
(* A check is a run of early returns: the error of the first clause whose  *)
(* condition holds, "ok" when none does.                                   *)
(***************************************************************************)
Least(I) == CHOOSE i \in I : \A j \in I : i <= j

FirstError(clauses) ==
  LET failed == {i \in DOMAIN clauses : clauses[i][1]}
  IN  IF failed = {} THEN "ok" ELSE clauses[Least(failed)][2]

(* A loop over the elements of a list that returns the first element's error. *)
LoopError(list, Err(_)) ==
  LET failed == {i \in DOMAIN list : Err(i) # "ok"}
  IN  IF failed = {} THEN "ok" ELSE Err(Least(failed))

Then(first, second) == IF first # "ok" THEN first ELSE second

ValidPurpose(p) == p \in 1 .. 4

\* Mutant: a check of the state root's width is missing on one side.
HeaderCheckAnyWidth(h) == FirstError(<< <<h.Version # VersionV1, "ErrVersion">> >>)

\* Mutant: the version is not checked.
HeaderCheckAnyVersion(h) ==
  FirstError(<< <<Len(h.PrevStateRoot) # PrevStateRootLen, "ErrLength">> >>)

MarshalHeaderCheck(h) ==
  FirstError(<< <<h.Version # VersionV1, "ErrVersion">>,
                <<Len(h.PrevStateRoot) # PrevStateRootLen, "ErrLength">> >>)

UnmarshalHeaderCheck(h) ==
  FirstError(<< <<h.Version # VersionV1, "ErrVersion">>,
                <<Len(h.PrevStateRoot) # PrevStateRootLen, "ErrLength">> >>)

checkSignedV1(s) ==
  FirstError(<< <<s.Version # VersionV1, "ErrVersion">>,
                <<~ValidPurpose(s.Purpose), "ErrFormat">>,
                <<Len(s.GenesisDigest) # GenesisDigestLen, "ErrLength">> >>)

checkSignedBlobV1(b) ==
  FirstError(<< <<b.Version # VersionV1, "ErrVersion">>,
                <<~ValidPurpose(b.Purpose), "ErrFormat">>,
                <<Len(b.Payload) = 0, "ErrEmpty">>,
                <<Len(b.Value) # SignatureLen, "ErrLength">> >>)

checkCommitPayloadV1(p) ==
  FirstError(<< <<p.Version # VersionV1, "ErrVersion">>,
                <<Len(p.ProposalDigest) # DigestLen, "ErrLength">> >>)

(* The part of checkClientRequestV1 after the loop. *)
\* Mutant: an expiry of zero is let through.
RequestTailErrZeroExpiry(r) ==
  FirstError(<< <<Len(r.RequestID) # RequestIDLen, "ErrLength">>, <<r.Expiry < 0, "ErrRange">> >>)

RequestTailErr(r) ==
  FirstError(<< <<Len(r.RequestID) # RequestIDLen, "ErrLength">>, <<r.Expiry <= 0, "ErrRange">> >>)

checkClientRequestV1(r) ==
  LET CertErr(i) == IF Len(r.Intermediates[i].DER) = 0 THEN "ErrEmpty" ELSE "ok"
  IN  Then(FirstError(<< <<r.Version # VersionV1, "ErrVersion">>,
                         <<Len(r.ClientCert) = 0, "ErrEmpty">> >>),
           Then(LoopError(r.Intermediates, CertErr), RequestTailErr(r)))

checkReadIndexV1(r) ==
  FirstError(<< <<r.Version # VersionV1, "ErrVersion">>,
                <<r.SignerID <= 0, "ErrRange">>,
                <<r.View < 0 \/ r.Seq < 0, "ErrRange">>,
                <<Len(r.Nonce) # NonceLen, "ErrLength">> >>)

\* Mutant: a signer may repeat.
SigErrRepeats(c, i) ==
  FirstError(<< <<i > 1 /\ c.Sigs[i].Signer < c.Sigs[i - 1].Signer, "ErrOrder">>,
                <<Len(c.Sigs[i].Value) # SignatureLen, "ErrLength">>,
                <<Len(c.Sigs[i].Msg) = 0, "ErrEmpty">> >>)

(* One turn of the loop over a certificate's signatures: each is tested *)
(* against the one before.                                              *)
SigErr(c, i) ==
  FirstError(<< <<i > 1 /\ c.Sigs[i].Signer <= c.Sigs[i - 1].Signer, "ErrOrder">>,
                <<Len(c.Sigs[i].Value) # SignatureLen, "ErrLength">>,
                <<Len(c.Sigs[i].Msg) = 0, "ErrEmpty">> >>)

checkCommitCertificateV1(c) ==
  LET Err(i) == SigErr(c, i)
  IN  Then(FirstError(<< <<c.Version # VersionV1, "ErrVersion">>,
                         <<Len(c.ProposalDigest) # DigestLen, "ErrLength">>,
                         <<c.View < 0 \/ c.Seq < 0, "ErrRange">>,
                         <<Len(c.Sigs) = 0, "ErrEmpty">> >>),
           LoopError(c.Sigs, Err))

-----------------------------------------------------------------------------
(* strconv.AppendInt(id, n, 10): the decimal digits of n, most significant first. *)
Decimal[n \in Nat] == IF n < 10 THEN <<48 + n>>
                                ELSE Append(Decimal[n \div 10], 48 + (n % 10))

\* Mutant: the path between the trust domain and the number is left out.
spiffeIDV1Joined(trustDomain, nodeID) == SpiffeScheme \o trustDomain \o Decimal[nodeID]

spiffeIDV1(trustDomain, nodeID) ==
  SpiffeScheme \o trustDomain \o SpiffeNode \o Decimal[nodeID]

\* Mutant: only a repetition of the previous member is an order error.
MemberErrUnsorted(g, i) ==
  LET m == g.Members[i]
  IN  FirstError(<< <<m.NodeID < 0, "ErrRange">>,
                    <<i > 1 /\ m.NodeID = g.Members[i - 1].NodeID, "ErrOrder">>,
                    <<Len(m.SpiffeID) = 0, "ErrEmpty">>,
                    <<m.NodeID >= 0 /\ m.SpiffeID # spiffeIDV1(g.TrustDomain, m.NodeID), "ErrFormat">>,
                    <<Len(m.LeafPubKey) # LeafPubKeyLen, "ErrLength">> >>)

(* One turn of the loop over a genesis' members. *)
MemberErr(g, i) ==
  LET m == g.Members[i]
  IN  FirstError(<< <<m.NodeID < 0, "ErrRange">>,
                    <<i > 1 /\ m.NodeID <= g.Members[i - 1].NodeID, "ErrOrder">>,
                    <<Len(m.SpiffeID) = 0, "ErrEmpty">>,
                    <<m.NodeID >= 0 /\ m.SpiffeID # spiffeIDV1(g.TrustDomain, m.NodeID), "ErrFormat">>,
                    <<Len(m.LeafPubKey) # LeafPubKeyLen, "ErrLength">> >>)

checkGenesisV1(g) ==
  LET Err(i) == MemberErr(g, i)
  IN  Then(FirstError(<< <<g.Version # VersionV1, "ErrVersion">>,
                         <<Len(g.TrustDomain) = 0, "ErrEmpty">>,
                         <<g.MaxNodes < 0 \/ Len(g.Members) > g.MaxNodes, "ErrRange">> >>),
           LoopError(g.Members, Err))

-----------------------------------------------------------------------------
(***************************************************************************)
(* The exported functions.  Marshal checks and encodes; Unmarshal decodes  *)
(* under the R-RULE and checks.  On an error Unmarshal returns no value.   *)
(***************************************************************************)
NoCheck(v) == "ok"

Marshals(S, Check(_), v) ==
  IF Check(v) # "ok" THEN Refusal(Check(v)) ELSE [err |-> "ok", wire |-> marshal(S, v)]

Unmarshals(S, Check(_), w) ==
  LET d == unmarshal(S, w)
  IN  IF d.err # "ok" THEN d
      ELSE IF Check(d.value) # "ok" THEN Refusal(Check(d.value)) ELSE d

MarshalHeader(h)   == Marshals(HeaderFields, MarshalHeaderCheck, h)
UnmarshalHeader(w) == Unmarshals(HeaderFields, UnmarshalHeaderCheck, w)

MarshalProposalV0(p)   == Marshals(ProposalV0Fields, NoCheck, p)
UnmarshalProposalV0(w) == Unmarshals(ProposalV0Fields, NoCheck, w)

MarshalSignatureSetV0(s)   == Marshals(SignatureSetV0Fields, NoCheck, s)
UnmarshalSignatureSetV0(w) == Unmarshals(SignatureSetV0Fields, NoCheck, w)

MarshalSignedV1(s)   == Marshals(SignedV1Fields, checkSignedV1, s)
UnmarshalSignedV1(w) == Unmarshals(SignedV1Fields, checkSignedV1, w)

MarshalSignedBlobV1(b)   == Marshals(SignedBlobV1Fields, checkSignedBlobV1, b)
UnmarshalSignedBlobV1(w) == Unmarshals(SignedBlobV1Fields, checkSignedBlobV1, w)

MarshalCommitPayloadV1(p)   == Marshals(CommitPayloadV1Fields, checkCommitPayloadV1, p)
UnmarshalCommitPayloadV1(w) == Unmarshals(CommitPayloadV1Fields, checkCommitPayloadV1, w)

MarshalClientRequestV1(r)   == Marshals(ClientRequestV1Fields, checkClientRequestV1, r)
UnmarshalClientRequestV1(w) == Unmarshals(ClientRequestV1Fields, checkClientRequestV1, w)

MarshalReadIndexV1(r)   == Marshals(ReadIndexV1Fields, checkReadIndexV1, r)
UnmarshalReadIndexV1(w) == Unmarshals(ReadIndexV1Fields, checkReadIndexV1, w)

MarshalCommitCertificateV1(c) ==
  Marshals(CommitCertificateV1Fields, checkCommitCertificateV1, c)
UnmarshalCommitCertificateV1(w) ==
  Unmarshals(CommitCertificateV1Fields, checkCommitCertificateV1, w)

MarshalGenesisV1(g)   == Marshals(GenesisV1Fields, checkGenesisV1, g)
UnmarshalGenesisV1(w) == Unmarshals(GenesisV1Fields, checkGenesisV1, w)

(* The function a caller holding a structure of the given kind calls. *)
Marshal(kind, v) ==
  CASE kind = "Header"              -> MarshalHeader(v)
    [] kind = "ProposalV0"          -> MarshalProposalV0(v)
    [] kind = "SignatureSetV0"      -> MarshalSignatureSetV0(v)
    [] kind = "SignedV1"            -> MarshalSignedV1(v)
    [] kind = "SignedBlobV1"        -> MarshalSignedBlobV1(v)
    [] kind = "CommitPayloadV1"     -> MarshalCommitPayloadV1(v)
    [] kind = "ClientRequestV1"     -> MarshalClientRequestV1(v)
    [] kind = "ReadIndexV1"         -> MarshalReadIndexV1(v)
    [] kind = "CommitCertificateV1" -> MarshalCommitCertificateV1(v)
    [] kind = "GenesisV1"           -> MarshalGenesisV1(v)

Unmarshal(kind, w) ==
  CASE kind = "Header"              -> UnmarshalHeader(w)
    [] kind = "ProposalV0"          -> UnmarshalProposalV0(w)
    [] kind = "SignatureSetV0"      -> UnmarshalSignatureSetV0(w)
    [] kind = "SignedV1"            -> UnmarshalSignedV1(w)
    [] kind = "SignedBlobV1"        -> UnmarshalSignedBlobV1(w)
    [] kind = "CommitPayloadV1"     -> UnmarshalCommitPayloadV1(w)
    [] kind = "ClientRequestV1"     -> UnmarshalClientRequestV1(w)
    [] kind = "ReadIndexV1"         -> UnmarshalReadIndexV1(w)
    [] kind = "CommitCertificateV1" -> UnmarshalCommitCertificateV1(w)
    [] kind = "GenesisV1"           -> UnmarshalGenesisV1(w)
=============================================================================
