------------------------------- MODULE Verifier -------------------------------
(***************************************************************************)
(* The second implementation of the wire format, ci/verify_vectors.py: it  *)
(* decodes by the specification's own words, counts the elements of every  *)
(* SEQUENCE instead of re-encoding, and makes the structures' checks       *)
(* again.  It refuses by raising, so its verdict is a Boolean; only one     *)
(* place of it, _check_cert_msg, tells SpecError from other exceptions.    *)
(***************************************************************************)
EXTENDS Structures

CONSTANTS WireOf(_),     \* the wire that an octet string spells
          Crashes(_),    \* octet strings whose decoding raises, but no SpecError
          Length(_),     \* the length a wire states for its outer value
          PythonCeiling  \* the largest length that MAX_LENGTH_OCTETS octets state

ASSUME PythonCeilingAssumption == PythonCeiling \in Nat

(* WIRE-SPEC 2.4.2: a reader has a ceiling on lengths; the outer value's is *)
(* the largest length of a wire.                                            *)
Within(w, ceiling) == Length(w) <= ceiling

(* decode_struct: one element for each field, each of the field's type. *)
FitsRow(S, t) == /\ Tag(t) = "seq"
                 /\ DOMAIN Content(t) = DOMAIN S
                 /\ \A i \in DOMAIN S : Tag(Content(t)[i]) = S[i].type

FitsField(f, t) == IF f.type = "list"
                     THEN /\ Tag(t) = "seq"
                          /\ \A j \in DOMAIN Content(t) : FitsRow(f.elem, Content(t)[j])
                     ELSE Tag(t) = f.type

Fits(S, t) == /\ Tag(t) = "seq"
              /\ DOMAIN Content(t) = DOMAIN S
              /\ \A i \in DOMAIN S : FitsField(S[i], Content(t)[i])

(* decode_struct(name, parse_der(wire)) does not raise. *)
Decodes(S, w) == w.rest = <<>> /\ Within(w, PythonCeiling) /\ Fits(S, w.tree)

StrictlyAscending(list, Key(_)) ==
  \A i \in DOMAIN list : i > 1 => Key(list[i - 1]) < Key(list[i])

-----------------------------------------------------------------------------
(* The constraints of each structure; Version is checked by validate. *)
HeaderHolds(o) == Len(o.PrevStateRoot) = PrevStateRootLen

SignedHolds(o) == o.Purpose \in 1 .. 4 /\ Len(o.GenesisDigest) = GenesisDigestLen

BlobHolds(o) == /\ o.Purpose \in 1 .. 4
                /\ o.Payload # <<>>
                /\ Len(o.Value) = SignatureLen

CommitPayloadHolds(o) == Len(o.ProposalDigest) = DigestLen

ClientRequestHolds(o) == /\ o.ClientCert # <<>>
                         /\ \A i \in DOMAIN o.Intermediates : o.Intermediates[i].DER # <<>>
                         /\ Len(o.RequestID) = RequestIDLen
                         /\ o.Expiry > 0

ReadIndexHolds(o) == /\ o.SignerID > 0
                     /\ o.View >= 0 /\ o.Seq >= 0
                     /\ Len(o.Nonce) = NonceLen

GenesisHolds(o) == /\ o.TrustDomain # <<>>
                   /\ o.MaxNodes >= 0 /\ o.MaxNodes >= Len(o.Members)
                   /\ StrictlyAscending(o.Members, LAMBDA m : m.NodeID)
                   /\ \A i \in DOMAIN o.Members :
                        LET m == o.Members[i]
                        IN  /\ m.NodeID >= 0
                            /\ Len(m.LeafPubKey) = LeafPubKeyLen
                            /\ m.SpiffeID = spiffeIDV1(o.TrustDomain, m.NodeID)

(* A Msg that spells a CommitPayloadV1 must name the certificate's proposal; *)
(* one that raises SpecError is opaque.  Any other exception goes through    *)
(* `except SpecError' and refuses the certificate: RecursionError for a Msg   *)
(* nested deeper than Python's calls go, ValueError for a Version of more     *)
(* digits than Python writes into the error's text.                          *)
MsgBound(cert, msg) ==
  LET w == WireOf(msg)
      p == StructValue(CommitPayloadV1Fields, w.tree)
  IN  /\ ~Crashes(msg)
      /\ Decodes(CommitPayloadV1Fields, w)
           => (p.Version = VersionV1 /\ CommitPayloadHolds(p)
                 => p.ProposalDigest = cert.ProposalDigest)

CommitCertHolds(o) == /\ Len(o.ProposalDigest) = DigestLen
                      /\ o.View >= 0 /\ o.Seq >= 0
                      /\ o.Sigs # <<>>
                      /\ StrictlyAscending(o.Sigs, LAMBDA s : s.Signer)
                      /\ \A i \in DOMAIN o.Sigs :
                           /\ Len(o.Sigs[i].Value) = SignatureLen
                           /\ o.Sigs[i].Msg # <<>>
                           /\ MsgBound(o, o.Sigs[i].Msg)

(* validate: the V-RULE, then the structure's constraints, if it has any. *)
Holds(kind, o) == CASE kind = "Header"              -> HeaderHolds(o)
                    [] kind = "GenesisV1"           -> GenesisHolds(o)
                    [] kind = "SignedV1"            -> SignedHolds(o)
                    [] kind = "SignedBlobV1"        -> BlobHolds(o)
                    [] kind = "CommitPayloadV1"     -> CommitPayloadHolds(o)
                    [] kind = "ClientRequestV1"     -> ClientRequestHolds(o)
                    [] kind = "ReadIndexV1"         -> ReadIndexHolds(o)
                    [] kind = "CommitCertificateV1" -> CommitCertHolds(o)
                    [] OTHER                        -> TRUE

validate(kind, o) == (kind \in Versioned => o.Version = VersionV1) /\ Holds(kind, o)

(* validate(name, decode_struct(name, parse_der(wire))) does not raise. *)
Verifies(kind, w) == /\ Decodes(Schemas[kind], w)
                     /\ validate(kind, StructValue(Schemas[kind], w.tree))
=============================================================================
