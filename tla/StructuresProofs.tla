--------------------------- MODULE StructuresProofs ---------------------------
(***************************************************************************)
(* What the exported functions do to every value and every wire of every   *)
(* kind of structure.                                                      *)
(***************************************************************************)
EXTENDS Structures, Asn1Proofs, SequenceTheorems, WellFoundedInduction

(* The checks a structure's two functions make, as one function of its kind. *)
Check(kind, v) ==
  CASE kind = "Header"              -> UnmarshalHeaderCheck(v)
    [] kind = "ProposalV0"          -> NoCheck(v)
    [] kind = "SignatureSetV0"      -> NoCheck(v)
    [] kind = "SignedV1"            -> checkSignedV1(v)
    [] kind = "SignedBlobV1"        -> checkSignedBlobV1(v)
    [] kind = "CommitPayloadV1"     -> checkCommitPayloadV1(v)
    [] kind = "ClientRequestV1"     -> checkClientRequestV1(v)
    [] kind = "ReadIndexV1"         -> checkReadIndexV1(v)
    [] kind = "CommitCertificateV1" -> checkCommitCertificateV1(v)
    [] kind = "GenesisV1"           -> checkGenesisV1(v)

LEMMA KindList ==
  Kinds = {"Header", "ProposalV0", "SignatureSetV0", "SignedV1", "SignedBlobV1",
           "CommitPayloadV1", "ClientRequestV1", "ReadIndexV1", "CommitCertificateV1",
           "GenesisV1"}
BY DEF Kinds, Schemas

(* Every schema of the package is one of the type profile. *)
LEMMA SchemasAreGood == ASSUME NEW kind \in Kinds PROVE GoodSchema(Schemas[kind])
<1> USE DEF GoodSchema, FlatSchema, DistinctNames, IsSequence, IntField, OctField, ListField
<1>1. GoodSchema(HeaderFields) /\ GoodSchema(ProposalV0Fields)
  BY DEF HeaderFields, ProposalV0Fields
<1>2. FlatSchema(SignerSigV0Fields) /\ FlatSchema(CertificateV1Fields) /\ FlatSchema(GenesisMemberV1Fields)
  BY DEF SignerSigV0Fields, CertificateV1Fields, GenesisMemberV1Fields
<1>3. GoodSchema(SignatureSetV0Fields)
  BY <1>2 DEF SignatureSetV0Fields
<1>4. GoodSchema(SignedV1Fields) /\ GoodSchema(SignedBlobV1Fields)
  BY DEF SignedV1Fields, SignedBlobV1Fields
<1>5. GoodSchema(CommitPayloadV1Fields) /\ GoodSchema(ReadIndexV1Fields)
  BY DEF CommitPayloadV1Fields, ReadIndexV1Fields
<1>6. GoodSchema(ClientRequestV1Fields)
  BY <1>2 DEF ClientRequestV1Fields
<1>7. GoodSchema(CommitCertificateV1Fields)
  BY <1>2 DEF CommitCertificateV1Fields
<1>8. GoodSchema(GenesisV1Fields)
  <2>1. IsSequence(GenesisV1Fields)
    BY DEF GenesisV1Fields
  <2>2. DistinctNames(GenesisV1Fields)
    BY DEF GenesisV1Fields
  <2>3. \A i \in DOMAIN GenesisV1Fields :
          \/ GenesisV1Fields[i].type \in {"int", "oct"}
          \/ GenesisV1Fields[i].type = "list" /\ FlatSchema(GenesisV1Fields[i].elem)
    <3> HIDE DEF FlatSchema
    <3> QED
      BY <1>2 DEF GenesisV1Fields
  <2> QED
    BY <2>1, <2>2, <2>3
<1> HIDE DEF GoodSchema
<1> QED
  BY <1>1, <1>3, <1>4, <1>5, <1>6, <1>7, <1>8, KindList DEF Schemas

(* Marshal checks and encodes, whatever the kind. *)
LEMMA MarshalIs ==
  ASSUME NEW kind \in Kinds, NEW v
  PROVE  Marshal(kind, v) = IF Check(kind, v) # "ok"
                              THEN Refusal(Check(kind, v))
                              ELSE [err |-> "ok", wire |-> marshal(Schemas[kind], v)]
<1>1. MarshalHeaderCheck(v) = UnmarshalHeaderCheck(v)
  BY DEF MarshalHeaderCheck, UnmarshalHeaderCheck
<1> QED
  BY <1>1, KindList DEF Marshal, Check, Schemas, Marshals, MarshalHeader, MarshalProposalV0,
     MarshalSignatureSetV0, MarshalSignedV1, MarshalSignedBlobV1, MarshalCommitPayloadV1,
     MarshalClientRequestV1, MarshalReadIndexV1, MarshalCommitCertificateV1, MarshalGenesisV1

(* Unmarshal decodes under the R-RULE and makes the same checks. *)
LEMMA UnmarshalIs ==
  ASSUME NEW kind \in Kinds, NEW w
  PROVE  LET d == unmarshal(Schemas[kind], w)
         IN  Unmarshal(kind, w) = IF d.err # "ok" THEN d
                                  ELSE IF Check(kind, d.value) # "ok"
                                  THEN Refusal(Check(kind, d.value)) ELSE d
BY KindList DEF Unmarshal, Check, Schemas, Unmarshals, UnmarshalHeader, UnmarshalProposalV0,
   UnmarshalSignatureSetV0, UnmarshalSignedV1, UnmarshalSignedBlobV1, UnmarshalCommitPayloadV1,
   UnmarshalClientRequestV1, UnmarshalReadIndexV1, UnmarshalCommitCertificateV1, UnmarshalGenesisV1

(* What Unmarshal accepts, Marshal emits for the value Unmarshal returned. *)
THEOREM AcceptedIsEmitted ==
  ASSUME NEW kind \in Kinds, NEW w, Unmarshal(kind, w).err = "ok"
  PROVE  Marshal(kind, Unmarshal(kind, w).value) = [err |-> "ok", wire |-> w]
<1> DEFINE d == unmarshal(Schemas[kind], w)
<1>1. /\ d.err = "ok"
      /\ Unmarshal(kind, w) = d
      /\ Check(kind, d.value) = "ok"
  BY UnmarshalIs DEF Refusal
<1>2. d = Acceptance(StructValue(Schemas[kind], w.tree)) /\ w = marshal(Schemas[kind], StructValue(Schemas[kind], w.tree))
  BY <1>1, AcceptedIsCanonical
<1>3. w = marshal(Schemas[kind], d.value)
  BY <1>2 DEF Acceptance
<1> QED
  BY <1>1, <1>3, MarshalIs

(* What Marshal emits, Unmarshal accepts as the value it was emitted for. *)
THEOREM EmittedIsAccepted ==
  ASSUME NEW kind \in Kinds, NEW v, IsValue(kind, v), Marshal(kind, v).err = "ok"
  PROVE  Unmarshal(kind, Marshal(kind, v).wire) = Acceptance(v)
<1>1. Check(kind, v) = "ok" /\ Marshal(kind, v).wire = marshal(Schemas[kind], v)
  BY MarshalIs DEF Refusal
<1>2. unmarshal(Schemas[kind], marshal(Schemas[kind], v)) = Acceptance(v)
  BY UnmarshalOfMarshal, SchemasAreGood DEF IsValue
<1> QED
  BY <1>1, <1>2, UnmarshalIs DEF Acceptance

-----------------------------------------------------------------------------
(* Induction on the natural numbers, as the least element of a set. *)
NatLess == {pair \in Nat \X Nat : pair[1] < pair[2]}

LEMMA NatLessWellFounded == IsWellFoundedOn(NatLess, Nat)
BY NatLessThanWellFounded DEF OpToRel, NatLess

LEMMA LeastOfNaturals ==
  ASSUME NEW I, I \subseteq Nat, I # {}
  PROVE  Least(I) \in I /\ \A j \in I : Least(I) <= j
<1>1. PICK m \in I : \A j \in I : ~(<<j, m>> \in NatLess)
  BY WFMin, NatLessWellFounded
<1>2. ASSUME NEW j \in I PROVE m <= j
  <2>1. j \in Nat /\ m \in Nat
    OBVIOUS
  <2>2. <<j, m>> \in NatLess <=> j < m
    BY <2>1 DEF NatLess
  <2> QED
    BY <1>1, <2>1, <2>2
<1> QED
  BY <1>2 DEF Least

-----------------------------------------------------------------------------
(* What a run of early returns, or a loop of them, returns. *)
LEMMA FirstErrorIs ==
  ASSUME NEW clauses, DOMAIN clauses \subseteq Nat
  PROVE  \/ FirstError(clauses) = "ok" /\ \A i \in DOMAIN clauses : ~clauses[i][1]
         \/ \E i \in DOMAIN clauses : clauses[i][1] /\ FirstError(clauses) = clauses[i][2]
<1> DEFINE failed == {i \in DOMAIN clauses : clauses[i][1]}
<1>1. CASE failed = {}
  BY <1>1 DEF FirstError
<1>2. CASE failed # {}
  <2>1. Least(failed) \in failed
    BY <1>2, LeastOfNaturals
  <2> QED
    BY <1>2, <2>1 DEF FirstError
<1> QED
  BY <1>1, <1>2

(* The same for a run of two to five returns written out. *)
LEMMA FirstOf2 ==
  ASSUME NEW c1, NEW e1 \in Errors, NEW c2, NEW e2 \in Errors
  PROVE  LET r == FirstError(<< <<c1, e1>>, <<c2, e2>> >>)
         IN  r \in Errors \union {"ok"} /\ (r = "ok" <=> ~c1 /\ ~c2)
<1> DEFINE cl == << <<c1, e1>>, <<c2, e2>> >>
<1>1. /\ DOMAIN cl = {1, 2}
      /\ cl[1][1] = c1 /\ cl[1][2] = e1
      /\ cl[2][1] = c2 /\ cl[2][2] = e2
  OBVIOUS
<1> HIDE DEF cl
<1>2. "ok" \notin Errors
  BY DEF Errors
<1>3. FirstError(cl) \in Errors \union {"ok"}
  BY <1>1, FirstErrorIs
<1>4. ASSUME FirstError(cl) = "ok" PROVE ~c1 /\ ~c2
  <2>1. \A i \in DOMAIN cl : ~cl[i][1]
    BY <1>1, <1>2, <1>4, FirstErrorIs
  <2> QED
    BY <1>1, <2>1
<1>5. ASSUME ~c1 /\ ~c2 PROVE FirstError(cl) = "ok"
  <2>1. \A i \in DOMAIN cl : ~cl[i][1]
    BY <1>1, <1>5
  <2> QED
    BY <1>1, <2>1, FirstErrorIs
<1> QED
  BY <1>3, <1>4, <1>5 DEF cl

LEMMA FirstOf3 ==
  ASSUME NEW c1, NEW e1 \in Errors, NEW c2, NEW e2 \in Errors, NEW c3, NEW e3 \in Errors
  PROVE  LET r == FirstError(<< <<c1, e1>>, <<c2, e2>>, <<c3, e3>> >>)
         IN  r \in Errors \union {"ok"} /\ (r = "ok" <=> ~c1 /\ ~c2 /\ ~c3)
<1> DEFINE cl == << <<c1, e1>>, <<c2, e2>>, <<c3, e3>> >>
<1>1. /\ DOMAIN cl = {1, 2, 3}
      /\ cl[1][1] = c1 /\ cl[1][2] = e1
      /\ cl[2][1] = c2 /\ cl[2][2] = e2
      /\ cl[3][1] = c3 /\ cl[3][2] = e3
  OBVIOUS
<1> HIDE DEF cl
<1>2. "ok" \notin Errors
  BY DEF Errors
<1>3. FirstError(cl) \in Errors \union {"ok"}
  BY <1>1, FirstErrorIs
<1>4. ASSUME FirstError(cl) = "ok" PROVE ~c1 /\ ~c2 /\ ~c3
  <2>1. \A i \in DOMAIN cl : ~cl[i][1]
    BY <1>1, <1>2, <1>4, FirstErrorIs
  <2> QED
    BY <1>1, <2>1
<1>5. ASSUME ~c1 /\ ~c2 /\ ~c3 PROVE FirstError(cl) = "ok"
  <2>1. \A i \in DOMAIN cl : ~cl[i][1]
    BY <1>1, <1>5
  <2> QED
    BY <1>1, <2>1, FirstErrorIs
<1> QED
  BY <1>3, <1>4, <1>5 DEF cl

LEMMA FirstOf4 ==
  ASSUME NEW c1, NEW e1 \in Errors, NEW c2, NEW e2 \in Errors, NEW c3, NEW e3 \in Errors, NEW c4, NEW e4 \in Errors
  PROVE  LET r == FirstError(<< <<c1, e1>>, <<c2, e2>>, <<c3, e3>>, <<c4, e4>> >>)
         IN  r \in Errors \union {"ok"} /\ (r = "ok" <=> ~c1 /\ ~c2 /\ ~c3 /\ ~c4)
<1> DEFINE cl == << <<c1, e1>>, <<c2, e2>>, <<c3, e3>>, <<c4, e4>> >>
<1>1. /\ DOMAIN cl = {1, 2, 3, 4}
      /\ cl[1][1] = c1 /\ cl[1][2] = e1
      /\ cl[2][1] = c2 /\ cl[2][2] = e2
      /\ cl[3][1] = c3 /\ cl[3][2] = e3
      /\ cl[4][1] = c4 /\ cl[4][2] = e4
  OBVIOUS
<1> HIDE DEF cl
<1>2. "ok" \notin Errors
  BY DEF Errors
<1>3. FirstError(cl) \in Errors \union {"ok"}
  BY <1>1, FirstErrorIs
<1>4. ASSUME FirstError(cl) = "ok" PROVE ~c1 /\ ~c2 /\ ~c3 /\ ~c4
  <2>1. \A i \in DOMAIN cl : ~cl[i][1]
    BY <1>1, <1>2, <1>4, FirstErrorIs
  <2> QED
    BY <1>1, <2>1
<1>5. ASSUME ~c1 /\ ~c2 /\ ~c3 /\ ~c4 PROVE FirstError(cl) = "ok"
  <2>1. \A i \in DOMAIN cl : ~cl[i][1]
    BY <1>1, <1>5
  <2> QED
    BY <1>1, <2>1, FirstErrorIs
<1> QED
  BY <1>3, <1>4, <1>5 DEF cl

LEMMA FirstOf5 ==
  ASSUME NEW c1, NEW e1 \in Errors, NEW c2, NEW e2 \in Errors, NEW c3, NEW e3 \in Errors, NEW c4, NEW e4 \in Errors, NEW c5, NEW e5 \in Errors
  PROVE  LET r == FirstError(<< <<c1, e1>>, <<c2, e2>>, <<c3, e3>>, <<c4, e4>>, <<c5, e5>> >>)
         IN  r \in Errors \union {"ok"} /\ (r = "ok" <=> ~c1 /\ ~c2 /\ ~c3 /\ ~c4 /\ ~c5)
<1> DEFINE cl == << <<c1, e1>>, <<c2, e2>>, <<c3, e3>>, <<c4, e4>>, <<c5, e5>> >>
<1>1. /\ DOMAIN cl = {1, 2, 3, 4, 5}
      /\ cl[1][1] = c1 /\ cl[1][2] = e1
      /\ cl[2][1] = c2 /\ cl[2][2] = e2
      /\ cl[3][1] = c3 /\ cl[3][2] = e3
      /\ cl[4][1] = c4 /\ cl[4][2] = e4
      /\ cl[5][1] = c5 /\ cl[5][2] = e5
  OBVIOUS
<1> HIDE DEF cl
<1>2. "ok" \notin Errors
  BY DEF Errors
<1>3. FirstError(cl) \in Errors \union {"ok"}
  BY <1>1, FirstErrorIs
<1>4. ASSUME FirstError(cl) = "ok" PROVE ~c1 /\ ~c2 /\ ~c3 /\ ~c4 /\ ~c5
  <2>1. \A i \in DOMAIN cl : ~cl[i][1]
    BY <1>1, <1>2, <1>4, FirstErrorIs
  <2> QED
    BY <1>1, <2>1
<1>5. ASSUME ~c1 /\ ~c2 /\ ~c3 /\ ~c4 /\ ~c5 PROVE FirstError(cl) = "ok"
  <2>1. \A i \in DOMAIN cl : ~cl[i][1]
    BY <1>1, <1>5
  <2> QED
    BY <1>1, <2>1, FirstErrorIs
<1> QED
  BY <1>3, <1>4, <1>5 DEF cl

LEMMA OkIsNoError == "ok" \notin Errors
BY DEF Errors

-----------------------------------------------------------------------------
(* What the two loops that test an order let through. *)
LEMMA SigErrIs ==
  ASSUME NEW c, NEW i
  PROVE  /\ SigErr(c, i) \in Errors \union {"ok"}
         /\ SigErr(c, i) = "ok" <=>
              /\ ~(i > 1 /\ c.Sigs[i].Signer <= c.Sigs[i - 1].Signer)
              /\ Len(c.Sigs[i].Value) = SignatureLen
              /\ Len(c.Sigs[i].Msg) # 0
<1>1. {"ErrOrder", "ErrLength", "ErrEmpty"} \subseteq Errors
  BY DEF Errors
<1> QED
  <2> DEFINE c1 == i > 1 /\ c.Sigs[i].Signer <= c.Sigs[i - 1].Signer
             c2 == Len(c.Sigs[i].Value) # SignatureLen
             c3 == Len(c.Sigs[i].Msg) = 0
  <2>1. SigErr(c, i) = FirstError(<< <<c1, "ErrOrder">>, <<c2, "ErrLength">>, <<c3, "ErrEmpty">> >>)
    BY DEF SigErr
  <2>2. (SigErr(c, i) \in Errors \union {"ok"}) /\ (SigErr(c, i) = "ok" <=> ~c1 /\ ~c2 /\ ~c3)
    <3> HIDE DEF c1, c2, c3
    <3> QED
      BY <1>1, <2>1, FirstOf3
  <2> QED
    BY <2>2

LEMMA MemberErrIs ==
  ASSUME NEW g, NEW i
  PROVE  /\ MemberErr(g, i) \in Errors \union {"ok"}
         /\ MemberErr(g, i) = "ok" <=>
              LET m == g.Members[i]
              IN  /\ ~(m.NodeID < 0)
                  /\ ~(i > 1 /\ m.NodeID <= g.Members[i - 1].NodeID)
                  /\ Len(m.SpiffeID) # 0
                  /\ ~(m.NodeID >= 0 /\ m.SpiffeID # spiffeIDV1(g.TrustDomain, m.NodeID))
                  /\ Len(m.LeafPubKey) = LeafPubKeyLen
<1>1. {"ErrRange", "ErrOrder", "ErrEmpty", "ErrFormat", "ErrLength"} \subseteq Errors
  BY DEF Errors
<1> QED
  <2> DEFINE m  == g.Members[i]
             c1 == m.NodeID < 0
             c2 == i > 1 /\ m.NodeID <= g.Members[i - 1].NodeID
             c3 == Len(m.SpiffeID) = 0
             c4 == m.NodeID >= 0 /\ m.SpiffeID # spiffeIDV1(g.TrustDomain, m.NodeID)
             c5 == Len(m.LeafPubKey) # LeafPubKeyLen
  <2>1. MemberErr(g, i) = FirstError(<< <<c1, "ErrRange">>, <<c2, "ErrOrder">>, <<c3, "ErrEmpty">>,
                                        <<c4, "ErrFormat">>, <<c5, "ErrLength">> >>)
    BY DEF MemberErr
  <2>2. (MemberErr(g, i) \in Errors \union {"ok"}) /\ (MemberErr(g, i) = "ok" <=> ~c1 /\ ~c2 /\ ~c3 /\ ~c4 /\ ~c5)
    <3> HIDE DEF c1, c2, c3, c4, c5
    <3> QED
      BY <1>1, <2>1, FirstOf5
  <2> QED
    BY <2>2

(* The checks name errors of the package, and what passes them has the version *)
(* its decoder knows.                                                          *)
LEMMA HeaderCheckIs ==
  ASSUME NEW v
  PROVE  /\ UnmarshalHeaderCheck(v) \in Errors \union {"ok"}
         /\ UnmarshalHeaderCheck(v) = "ok" <=>
              /\ v.Version = VersionV1
              /\ Len(v.PrevStateRoot) = PrevStateRootLen
<1> DEFINE c1 == v.Version # VersionV1
           c2 == Len(v.PrevStateRoot) # PrevStateRootLen
<1>1. UnmarshalHeaderCheck(v) = FirstError(<< <<c1, "ErrVersion">>, <<c2, "ErrLength">> >>)
  BY DEF UnmarshalHeaderCheck
<1>2. {"ErrLength", "ErrVersion"} \subseteq Errors
  BY DEF Errors
<1>3. UnmarshalHeaderCheck(v) \in Errors \union {"ok"} /\ (UnmarshalHeaderCheck(v) = "ok" <=> ~c1 /\ ~c2)
  <2> HIDE DEF c1, c2
  <2> QED
    BY <1>1, <1>2, FirstOf2
<1> QED
  BY <1>3

LEMMA SignedCheckIs ==
  ASSUME NEW v
  PROVE  /\ checkSignedV1(v) \in Errors \union {"ok"}
         /\ checkSignedV1(v) = "ok" <=>
              /\ v.Version = VersionV1
              /\ ValidPurpose(v.Purpose)
              /\ Len(v.GenesisDigest) = GenesisDigestLen
<1> DEFINE c1 == v.Version # VersionV1
           c2 == ~ValidPurpose(v.Purpose)
           c3 == Len(v.GenesisDigest) # GenesisDigestLen
<1>1. checkSignedV1(v) = FirstError(<< <<c1, "ErrVersion">>, <<c2, "ErrFormat">>, <<c3, "ErrLength">> >>)
  BY DEF checkSignedV1
<1>2. {"ErrFormat", "ErrLength", "ErrVersion"} \subseteq Errors
  BY DEF Errors
<1>3. checkSignedV1(v) \in Errors \union {"ok"} /\ (checkSignedV1(v) = "ok" <=> ~c1 /\ ~c2 /\ ~c3)
  <2> HIDE DEF c1, c2, c3
  <2> QED
    BY <1>1, <1>2, FirstOf3
<1> QED
  BY <1>3

LEMMA BlobCheckIs ==
  ASSUME NEW v
  PROVE  /\ checkSignedBlobV1(v) \in Errors \union {"ok"}
         /\ checkSignedBlobV1(v) = "ok" <=>
              /\ v.Version = VersionV1
              /\ ValidPurpose(v.Purpose)
              /\ Len(v.Payload) # 0
              /\ Len(v.Value) = SignatureLen
<1> DEFINE c1 == v.Version # VersionV1
           c2 == ~ValidPurpose(v.Purpose)
           c3 == Len(v.Payload) = 0
           c4 == Len(v.Value) # SignatureLen
<1>1. checkSignedBlobV1(v) = FirstError(<< <<c1, "ErrVersion">>, <<c2, "ErrFormat">>, <<c3, "ErrEmpty">>, <<c4, "ErrLength">> >>)
  BY DEF checkSignedBlobV1
<1>2. {"ErrEmpty", "ErrFormat", "ErrLength", "ErrVersion"} \subseteq Errors
  BY DEF Errors
<1>3. checkSignedBlobV1(v) \in Errors \union {"ok"} /\ (checkSignedBlobV1(v) = "ok" <=> ~c1 /\ ~c2 /\ ~c3 /\ ~c4)
  <2> HIDE DEF c1, c2, c3, c4
  <2> QED
    BY <1>1, <1>2, FirstOf4
<1> QED
  BY <1>3

LEMMA CommitPayloadCheckIs ==
  ASSUME NEW v
  PROVE  /\ checkCommitPayloadV1(v) \in Errors \union {"ok"}
         /\ checkCommitPayloadV1(v) = "ok" <=>
              /\ v.Version = VersionV1
              /\ Len(v.ProposalDigest) = DigestLen
<1> DEFINE c1 == v.Version # VersionV1
           c2 == Len(v.ProposalDigest) # DigestLen
<1>1. checkCommitPayloadV1(v) = FirstError(<< <<c1, "ErrVersion">>, <<c2, "ErrLength">> >>)
  BY DEF checkCommitPayloadV1
<1>2. {"ErrLength", "ErrVersion"} \subseteq Errors
  BY DEF Errors
<1>3. checkCommitPayloadV1(v) \in Errors \union {"ok"} /\ (checkCommitPayloadV1(v) = "ok" <=> ~c1 /\ ~c2)
  <2> HIDE DEF c1, c2
  <2> QED
    BY <1>1, <1>2, FirstOf2
<1> QED
  BY <1>3

LEMMA ReadIndexCheckIs ==
  ASSUME NEW v
  PROVE  /\ checkReadIndexV1(v) \in Errors \union {"ok"}
         /\ checkReadIndexV1(v) = "ok" <=>
              /\ v.Version = VersionV1
              /\ ~(v.SignerID <= 0)
              /\ ~(v.View < 0 \/ v.Seq < 0)
              /\ Len(v.Nonce) = NonceLen
<1> DEFINE c1 == v.Version # VersionV1
           c2 == v.SignerID <= 0
           c3 == v.View < 0 \/ v.Seq < 0
           c4 == Len(v.Nonce) # NonceLen
<1>1. checkReadIndexV1(v) = FirstError(<< <<c1, "ErrVersion">>, <<c2, "ErrRange">>, <<c3, "ErrRange">>, <<c4, "ErrLength">> >>)
  BY DEF checkReadIndexV1
<1>2. {"ErrLength", "ErrRange", "ErrVersion"} \subseteq Errors
  BY DEF Errors
<1>3. checkReadIndexV1(v) \in Errors \union {"ok"} /\ (checkReadIndexV1(v) = "ok" <=> ~c1 /\ ~c2 /\ ~c3 /\ ~c4)
  <2> HIDE DEF c1, c2, c3, c4
  <2> QED
    BY <1>1, <1>2, FirstOf4
<1> QED
  BY <1>3

LEMMA ClientRequestCheckIs ==
  ASSUME NEW v, IsSequence(v.Intermediates)
  PROVE  /\ checkClientRequestV1(v) \in Errors \union {"ok"}
         /\ checkClientRequestV1(v) = "ok" <=>
              /\ v.Version = VersionV1
              /\ Len(v.ClientCert) # 0
              /\ \A i \in DOMAIN v.Intermediates : Len(v.Intermediates[i].DER) # 0
              /\ Len(v.RequestID) = RequestIDLen
              /\ ~(v.Expiry <= 0)
<1> DEFINE c1 == v.Version # VersionV1
           c2 == Len(v.ClientCert) = 0
           Err(i) == (IF Len(v.Intermediates[i].DER) = 0 THEN "ErrEmpty" ELSE "ok")
           first == FirstError(<< <<c1, "ErrVersion">>, <<c2, "ErrEmpty">> >>)
           loop  == LoopError(v.Intermediates, Err)
<1>1. checkClientRequestV1(v) = Then(first, Then(loop, RequestTailErr(v)))
  BY DEF checkClientRequestV1
<1>2. {"ErrEmpty", "ErrVersion"} \subseteq Errors
  BY DEF Errors
<1>3. first \in Errors \union {"ok"} /\ (first = "ok" <=> ~c1 /\ ~c2)
  <2> HIDE DEF c1, c2
  <2> QED
    BY <1>2, FirstOf2
<1>4. loop \in Errors \union {"ok"} /\ (loop = "ok" <=> \A i \in DOMAIN v.Intermediates : Err(i) = "ok")
  <2>1. \A i \in DOMAIN v.Intermediates : Err(i) \in Errors \union {"ok"}
    BY <1>2
  <2> DEFINE failed == {i \in DOMAIN v.Intermediates : Err(i) # "ok"}
  <2>2. failed \subseteq Nat
    BY DEF IsSequence
  <2>3. loop = IF failed = {} THEN "ok" ELSE Err(Least(failed))
    BY DEF LoopError
  <2>4. failed # {} => Least(failed) \in failed
    BY <2>2, LeastOfNaturals
  <2> HIDE DEF Err, loop
  <2> QED
    BY <2>1, <2>3, <2>4, OkIsNoError
<1>5. /\ RequestTailErr(v) \in Errors \union {"ok"}
      /\ RequestTailErr(v) = "ok" <=> Len(v.RequestID) = RequestIDLen /\ ~(v.Expiry <= 0)
  <2> DEFINE c3 == Len(v.RequestID) # RequestIDLen
             c4 == v.Expiry <= 0
  <2>1. RequestTailErr(v) = FirstError(<< <<c3, "ErrLength">>, <<c4, "ErrRange">> >>)
    BY DEF RequestTailErr
  <2>2. {"ErrLength", "ErrRange"} \subseteq Errors
    BY DEF Errors
  <2>3. RequestTailErr(v) \in Errors \union {"ok"} /\ (RequestTailErr(v) = "ok" <=> ~c3 /\ ~c4)
    <3> HIDE DEF c3, c4
    <3> QED
      BY <2>1, <2>2, FirstOf2
  <2> QED
    BY <2>3
<1> HIDE DEF first, loop, Err
<1>6. checkClientRequestV1(v) \in Errors \union {"ok"} /\ (checkClientRequestV1(v) = "ok" <=> ~c1 /\ ~c2 /\ loop = "ok" /\ RequestTailErr(v) = "ok")
  BY <1>1, <1>3, <1>4, <1>5 DEF Then
<1>7. \A i \in DOMAIN v.Intermediates : Err(i) = "ok" <=> Len(v.Intermediates[i].DER) # 0
  BY DEF Err
<1> QED
  BY <1>4, <1>5, <1>6, <1>7

LEMMA CommitCertificateCheckIs ==
  ASSUME NEW v, IsSequence(v.Sigs)
  PROVE  /\ checkCommitCertificateV1(v) \in Errors \union {"ok"}
         /\ checkCommitCertificateV1(v) = "ok" <=>
              /\ v.Version = VersionV1
              /\ Len(v.ProposalDigest) = DigestLen
              /\ ~(v.View < 0 \/ v.Seq < 0)
              /\ Len(v.Sigs) # 0
              /\ \A i \in DOMAIN v.Sigs : SigErr(v, i) = "ok"
<1> DEFINE c1 == v.Version # VersionV1
           c2 == Len(v.ProposalDigest) # DigestLen
           c3 == v.View < 0 \/ v.Seq < 0
           c4 == Len(v.Sigs) = 0
           Err(i) == SigErr(v, i)
           first == FirstError(<< <<c1, "ErrVersion">>, <<c2, "ErrLength">>, <<c3, "ErrRange">>, <<c4, "ErrEmpty">> >>)
           loop  == LoopError(v.Sigs, Err)
<1>1. checkCommitCertificateV1(v) = Then(first, loop)
  BY DEF checkCommitCertificateV1
<1>2. {"ErrEmpty", "ErrLength", "ErrRange", "ErrVersion"} \subseteq Errors
  BY DEF Errors
<1>3. first \in Errors \union {"ok"} /\ (first = "ok" <=> ~c1 /\ ~c2 /\ ~c3 /\ ~c4)
  <2> HIDE DEF c1, c2, c3, c4
  <2> QED
    BY <1>2, FirstOf4
<1>4. loop \in Errors \union {"ok"} /\ (loop = "ok" <=> \A i \in DOMAIN v.Sigs : Err(i) = "ok")
  <2>1. \A i \in DOMAIN v.Sigs : Err(i) \in Errors \union {"ok"}
    BY SigErrIs
  <2> DEFINE failed == {i \in DOMAIN v.Sigs : Err(i) # "ok"}
  <2>2. failed \subseteq Nat
    BY DEF IsSequence
  <2>3. loop = IF failed = {} THEN "ok" ELSE Err(Least(failed))
    BY DEF LoopError
  <2>4. failed # {} => Least(failed) \in failed
    BY <2>2, LeastOfNaturals
  <2> HIDE DEF Err, loop
  <2> QED
    BY <2>1, <2>3, <2>4, OkIsNoError
<1> HIDE DEF first, loop, Err
<1>5. checkCommitCertificateV1(v) \in Errors \union {"ok"} /\ (checkCommitCertificateV1(v) = "ok" <=> ~c1 /\ ~c2 /\ ~c3 /\ ~c4 /\ loop = "ok")
  BY <1>1, <1>3, <1>4 DEF Then
<1> QED
  BY <1>4, <1>5 DEF Err

LEMMA GenesisCheckIs ==
  ASSUME NEW v, IsSequence(v.Members)
  PROVE  /\ checkGenesisV1(v) \in Errors \union {"ok"}
         /\ checkGenesisV1(v) = "ok" <=>
              /\ v.Version = VersionV1
              /\ Len(v.TrustDomain) # 0
              /\ ~(v.MaxNodes < 0 \/ Len(v.Members) > v.MaxNodes)
              /\ \A i \in DOMAIN v.Members : MemberErr(v, i) = "ok"
<1> DEFINE c1 == v.Version # VersionV1
           c2 == Len(v.TrustDomain) = 0
           c3 == v.MaxNodes < 0 \/ Len(v.Members) > v.MaxNodes
           Err(i) == MemberErr(v, i)
           first == FirstError(<< <<c1, "ErrVersion">>, <<c2, "ErrEmpty">>, <<c3, "ErrRange">> >>)
           loop  == LoopError(v.Members, Err)
<1>1. checkGenesisV1(v) = Then(first, loop)
  BY DEF checkGenesisV1
<1>2. {"ErrEmpty", "ErrRange", "ErrVersion"} \subseteq Errors
  BY DEF Errors
<1>3. first \in Errors \union {"ok"} /\ (first = "ok" <=> ~c1 /\ ~c2 /\ ~c3)
  <2> HIDE DEF c1, c2, c3
  <2> QED
    BY <1>2, FirstOf3
<1>4. loop \in Errors \union {"ok"} /\ (loop = "ok" <=> \A i \in DOMAIN v.Members : Err(i) = "ok")
  <2>1. \A i \in DOMAIN v.Members : Err(i) \in Errors \union {"ok"}
    BY MemberErrIs
  <2> DEFINE failed == {i \in DOMAIN v.Members : Err(i) # "ok"}
  <2>2. failed \subseteq Nat
    BY DEF IsSequence
  <2>3. loop = IF failed = {} THEN "ok" ELSE Err(Least(failed))
    BY DEF LoopError
  <2>4. failed # {} => Least(failed) \in failed
    BY <2>2, LeastOfNaturals
  <2> HIDE DEF Err, loop
  <2> QED
    BY <2>1, <2>3, <2>4, OkIsNoError
<1> HIDE DEF first, loop, Err
<1>5. checkGenesisV1(v) \in Errors \union {"ok"} /\ (checkGenesisV1(v) = "ok" <=> ~c1 /\ ~c2 /\ ~c3 /\ loop = "ok")
  BY <1>1, <1>3, <1>4 DEF Then
<1> QED
  BY <1>4, <1>5 DEF Err

(* A list of a typed value is a sequence, and the field its order is drawn from *)
(* an integer.                                                                  *)
LEMMA SigsAreTyped ==
  ASSUME NEW v, IsValue("CommitCertificateV1", v)
  PROVE  IsSequence(v.Sigs) /\ \A i \in DOMAIN v.Sigs : v.Sigs[i].Signer \in Int
<1>1. IsField(ListField("Sigs", SignerSigV0Fields), v.Sigs, Int64)
  BY DEF IsValue, IsStruct, Schemas, CommitCertificateV1Fields, ListField, IntField, OctField
<1>2. IsSequence(v.Sigs) /\ \A i \in DOMAIN v.Sigs : IsRow(SignerSigV0Fields, v.Sigs[i], Int64)
  BY <1>1 DEF IsField, ListField
<1>3. ASSUME NEW i \in DOMAIN v.Sigs PROVE v.Sigs[i].Signer \in Int64
  <2>1. 1 \in DOMAIN SignerSigV0Fields /\ SignerSigV0Fields[1].type = "int" /\ SignerSigV0Fields[1].name = "Signer"
    BY DEF SignerSigV0Fields, IntField, OctField
  <2>2. IsScalar(SignerSigV0Fields[1].type, v.Sigs[i][SignerSigV0Fields[1].name], Int64)
    BY <1>2, <2>1 DEF IsRow
  <2> QED
    BY <2>1, <2>2 DEF IsScalar
<1> QED
  BY <1>2, <1>3, IntAssumption DEF Int64

LEMMA MembersAreTyped ==
  ASSUME NEW v, IsValue("GenesisV1", v)
  PROVE  IsSequence(v.Members) /\ \A i \in DOMAIN v.Members : v.Members[i].NodeID \in Int
<1>1. IsField(ListField("Members", GenesisMemberV1Fields), v.Members, Int64)
  BY DEF IsValue, IsStruct, Schemas, GenesisV1Fields, ListField, IntField, OctField
<1>2. IsSequence(v.Members) /\ \A i \in DOMAIN v.Members : IsRow(GenesisMemberV1Fields, v.Members[i], Int64)
  BY <1>1 DEF IsField, ListField
<1>3. ASSUME NEW i \in DOMAIN v.Members PROVE v.Members[i].NodeID \in Int64
  <2>1. 1 \in DOMAIN GenesisMemberV1Fields /\ GenesisMemberV1Fields[1].type = "int" /\ GenesisMemberV1Fields[1].name = "NodeID"
    BY DEF GenesisMemberV1Fields, IntField, OctField
  <2>2. IsScalar(GenesisMemberV1Fields[1].type, v.Members[i][GenesisMemberV1Fields[1].name], Int64)
    BY <1>2, <2>1 DEF IsRow
  <2> QED
    BY <2>1, <2>2 DEF IsScalar
<1> QED
  BY <1>2, <1>3, IntAssumption DEF Int64

LEMMA IntermediatesAreTyped ==
  ASSUME NEW v, IsValue("ClientRequestV1", v)
  PROVE  IsSequence(v.Intermediates)
<1>1. IsField(ListField("Intermediates", CertificateV1Fields), v.Intermediates, Int64)
  BY DEF IsValue, IsStruct, Schemas, ClientRequestV1Fields, ListField, IntField, OctField
<1> QED
  BY <1>1 DEF IsField, ListField

(* Whatever the kind, the checks name errors of the package, and what passes them *)
(* has the version its decoder knows.                                             *)
LEMMA CheckIs ==
  ASSUME NEW kind \in Kinds, NEW v, IsValue(kind, v)
  PROVE  /\ Check(kind, v) \in Errors \union {"ok"}
         /\ Check(kind, v) = "ok" /\ kind \in Versioned => v.Version = VersionV1
<1>1. CASE kind \in VersionExempt
  BY <1>1 DEF VersionExempt, Versioned, Check, NoCheck
<1>2. CASE kind \in Versioned
  <2>1. kind \in Kinds \ {"ProposalV0", "SignatureSetV0"}
    BY <1>2 DEF Versioned, VersionExempt
  <2>2. kind = "ClientRequestV1" => IsSequence(v.Intermediates)
    BY IntermediatesAreTyped
  <2>3. kind = "CommitCertificateV1" => IsSequence(v.Sigs)
    BY SigsAreTyped
  <2>4. kind = "GenesisV1" => IsSequence(v.Members)
    BY MembersAreTyped
  <2> QED
    BY <2>1, <2>2, <2>3, <2>4, KindList, HeaderCheckIs, SignedCheckIs, BlobCheckIs,
       CommitPayloadCheckIs, ClientRequestCheckIs, ReadIndexCheckIs, CommitCertificateCheckIs,
       GenesisCheckIs DEF Check
<1> QED
  BY <1>1, <1>2 DEF Versioned

-----------------------------------------------------------------------------
(***************************************************************************)
(* A list that ascends from each element to the next ascends throughout,   *)
(* so it holds no key twice and only one such list holds its elements.     *)
(***************************************************************************)
LEMMA Ascending ==
  ASSUME NEW n \in Nat, NEW K, \A i \in 1 .. n : K[i] \in Int,
         \A i \in 1 .. n : ~(i > 1 /\ K[i] <= K[i - 1])
  PROVE  \A i, j \in 1 .. n : i < j => K[i] < K[j]
<1>1. SUFFICES ASSUME NEW i \in 1 .. n, NEW k \in 1 .. n, i < k, ~(K[i] < K[k])
               PROVE  FALSE
  OBVIOUS
<1> DEFINE bad == {j \in 1 .. n : i < j /\ ~(K[i] < K[j])}
           m   == Least(bad)
<1>2. m \in bad /\ \A j \in bad : m <= j
  <2>1. bad \subseteq Nat /\ k \in bad
    BY <1>1
  <2> QED
    BY <2>1, LeastOfNaturals
<1> HIDE DEF m
<1>3. m \in 1 .. n /\ i < m /\ ~(K[i] < K[m])
  BY <1>2
<1>4. m - 1 \in 1 .. n /\ m - 1 \notin bad /\ K[m - 1] < K[m]
  BY <1>2, <1>3
<1>5. K[i] = K[m - 1] \/ K[i] < K[m - 1]
  BY <1>3, <1>4
<1> QED
  BY <1>3, <1>4, <1>5

(* The signers of a certificate that passes its check are in order. *)
LEMMA CertificateAscends ==
  ASSUME NEW v, IsSequence(v.Sigs), \A i \in DOMAIN v.Sigs : v.Sigs[i].Signer \in Int,
         checkCommitCertificateV1(v) = "ok"
  PROVE  \A i, j \in DOMAIN v.Sigs : i < j => v.Sigs[i].Signer < v.Sigs[j].Signer
<1> DEFINE sigs == v.Sigs
           K == [i \in DOMAIN sigs |-> sigs[i].Signer]
<1>1. \A i \in DOMAIN sigs : SigErr(v, i) = "ok"
  BY CommitCertificateCheckIs
<1>2. \A i \in DOMAIN sigs : ~(i > 1 /\ sigs[i].Signer <= sigs[i - 1].Signer)
  BY <1>1, SigErrIs
<1>3. IsSequence(sigs) /\ \A i \in DOMAIN sigs : sigs[i].Signer \in Int
  OBVIOUS
<1> HIDE DEF sigs
<1>4. Len(sigs) \in Nat /\ DOMAIN sigs = 1 .. Len(sigs)
  BY <1>3 DEF IsSequence
<1>5. \A i \in 1 .. Len(sigs) : ~(i > 1 /\ K[i] <= K[i - 1])
  <2> SUFFICES ASSUME NEW i \in 1 .. Len(sigs), i > 1 PROVE ~(K[i] <= K[i - 1])
    OBVIOUS
  <2>1. i \in DOMAIN sigs /\ i - 1 \in DOMAIN sigs
    BY <1>4
  <2>2. K[i] = sigs[i].Signer /\ K[i - 1] = sigs[i - 1].Signer
    BY <2>1
  <2> QED
    BY <1>2, <2>1, <2>2
<1>6. \A i \in 1 .. Len(sigs) : K[i] \in Int
  BY <1>3, <1>4
<1>7. \A i, j \in 1 .. Len(sigs) : i < j => K[i] < K[j]
  <2> HIDE DEF K
  <2> QED
    BY <1>4, <1>5, <1>6, Ascending
<1> QED
  BY <1>4, <1>7 DEF sigs

(* Two lists of entries, each strictly ascending by a key of the entry, that hold *)
(* the same entries are the same list.                                            *)
LEMMA OneAscendingList ==
  ASSUME NEW s, IsSequence(s), NEW t, IsSequence(t), NEW key,
         \A i \in DOMAIN s : key[s[i]] \in Int,
         \A i \in DOMAIN t : key[t[i]] \in Int,
         \A i, j \in DOMAIN s : i < j => key[s[i]] < key[s[j]],
         \A i, j \in DOMAIN t : i < j => key[t[i]] < key[t[j]],
         {s[i] : i \in DOMAIN s} = {t[i] : i \in DOMAIN t}
  PROVE  s = t
<1>1. /\ DOMAIN s \subseteq Nat /\ DOMAIN s = 1 .. Len(s) /\ Len(s) \in Nat
      /\ DOMAIN t \subseteq Nat /\ DOMAIN t = 1 .. Len(t) /\ Len(t) \in Nat
  BY DEF IsSequence
<1> DEFINE bad == {i \in DOMAIN s \union DOMAIN t :
                     ~(i \in DOMAIN s /\ i \in DOMAIN t /\ s[i] = t[i])}
<1>2. bad = {}
  <2> SUFFICES ASSUME bad # {} PROVE FALSE
    OBVIOUS
  <2> DEFINE m == Least(bad)
  <2>1. m \in bad /\ \A i \in bad : m <= i
    BY <1>1, LeastOfNaturals
  <2> HIDE DEF m
  <2>2. m \in Nat /\ \A i \in DOMAIN s \union DOMAIN t :
          i < m => i \in DOMAIN s /\ i \in DOMAIN t /\ s[i] = t[i]
    BY <1>1, <2>1
  <2>3. m \in DOMAIN s => \E k \in DOMAIN t : k >= m /\ s[m] = t[k]
    <3> SUFFICES ASSUME m \in DOMAIN s PROVE \E k \in DOMAIN t : k >= m /\ s[m] = t[k]
      OBVIOUS
    <3>1. PICK k \in DOMAIN t : s[m] = t[k]
      OBVIOUS
    <3>2. CASE k < m
      <4>1. k \in DOMAIN s /\ s[k] = t[k]
        BY <2>2, <3>2
      <4>2. key[s[k]] < key[s[m]]
        BY <3>2, <4>1
      <4> QED
        BY <3>1, <4>1, <4>2
    <3> QED
      BY <1>1, <2>2, <3>1, <3>2
  <2>4. m \in DOMAIN t => \E k \in DOMAIN s : k >= m /\ t[m] = s[k]
    <3> SUFFICES ASSUME m \in DOMAIN t PROVE \E k \in DOMAIN s : k >= m /\ t[m] = s[k]
      OBVIOUS
    <3>1. PICK k \in DOMAIN s : t[m] = s[k]
      OBVIOUS
    <3>2. CASE k < m
      <4>1. k \in DOMAIN t /\ s[k] = t[k]
        BY <2>2, <3>2
      <4>2. key[t[k]] < key[t[m]]
        BY <3>2, <4>1
      <4> QED
        BY <3>1, <4>1, <4>2
    <3> QED
      BY <1>1, <2>2, <3>1, <3>2
  <2>5. m \in DOMAIN s /\ m \in DOMAIN t
    BY <1>1, <2>1, <2>3, <2>4
  <2>6. PICK k \in DOMAIN t : k >= m /\ s[m] = t[k]
    BY <2>3, <2>5
  <2>7. PICK l \in DOMAIN s : l >= m /\ t[m] = s[l]
    BY <2>4, <2>5
  <2>8. CASE k = m
    BY <2>1, <2>5, <2>6, <2>8
  <2>9. CASE k > m
    <3>1. key[t[m]] < key[s[m]]
      BY <2>5, <2>6, <2>9
    <3>2. key[s[m]] <= key[s[l]]
      BY <1>1, <2>5, <2>7
    <3> QED
      BY <2>5, <2>7, <3>1, <3>2
  <2> QED
    BY <1>1, <2>2, <2>6, <2>8, <2>9
<1>3. DOMAIN s = DOMAIN t /\ \A i \in DOMAIN s : s[i] = t[i]
  BY <1>2
<1>4. s = [i \in DOMAIN s |-> s[i]] /\ t = [i \in DOMAIN t |-> t[i]]
  BY DEF IsSequence
<1> QED
  BY <1>3, <1>4
-----------------------------------------------------------------------------
(***************************************************************************)
(* The decimal spelling of a node's number, and the SPIFFE ID that ends    *)
(* with it: one number and one trust domain for one identity.  Decimal is  *)
(* recursive; what is said of all numbers is shown of the least one it     *)
(* could fail for.                                                         *)
(***************************************************************************)
Digits == 48 .. 57

(* One step of the recursion. *)
Spelled(f, n) == IF n < 10 THEN <<48 + n>> ELSE Append(f[n \div 10], 48 + (n % 10))

LEMMA Halves ==
  ASSUME NEW n \in Nat
  PROVE  /\ n \div 10 \in Nat /\ n % 10 \in 0 .. 9
         /\ n = 10 * (n \div 10) + (n % 10)
         /\ n >= 10 => n \div 10 < n
OBVIOUS

-----------------------------------------------------------------------------
(* The recursion has a solution: finite ones agree where they overlap, and *)
(* each can be continued by one number.                                    *)
SpellsUpTo(g, k) == g = [n \in 0 .. k |-> Spelled(g, n)]

LEMMA SpelledAt ==
  ASSUME NEW k, NEW g, SpellsUpTo(g, k), NEW n \in 0 .. k
  PROVE  g[n] = Spelled(g, n)
<1> DEFINE f(j) == Spelled(g, j)
<1>1. g = [j \in 0 .. k |-> f(j)]
  BY DEF SpellsUpTo
<1> HIDE DEF f
<1>2. g[n] = f(n)
  BY <1>1
<1> QED
  BY <1>2 DEF f

LEMMA SolutionsAgree ==
  ASSUME NEW k \in Nat, NEW g, SpellsUpTo(g, k), NEW m \in Nat, NEW h, SpellsUpTo(h, m),
         NEW x \in Nat, x <= k, x <= m
  PROVE  g[x] = h[x]
<1> DEFINE bad == {n \in Nat : n <= k /\ n <= m /\ g[n] # h[n]}
<1> SUFFICES ASSUME bad # {} PROVE FALSE
  OBVIOUS
<1> DEFINE n == Least(bad)
<1>1. n \in bad /\ \A j \in bad : n <= j
  BY LeastOfNaturals
<1> HIDE DEF n
<1>2. g[n] = Spelled(g, n) /\ h[n] = Spelled(h, n)
  <2>1. n \in 0 .. k /\ n \in 0 .. m
    BY <1>1
  <2> QED
    BY <2>1, SpelledAt
<1>3. n >= 10 => g[n \div 10] = h[n \div 10]
  <2> SUFFICES ASSUME n >= 10 PROVE g[n \div 10] = h[n \div 10]
    OBVIOUS
  <2>1. n \div 10 \in Nat /\ n \div 10 < n
    BY <1>1, Halves
  <2> QED
    BY <1>1, <2>1
<1> QED
  BY <1>1, <1>2, <1>3 DEF Spelled

LEMMA SolutionsExist == ASSUME NEW k \in Nat PROVE \E g : SpellsUpTo(g, k)
<1> DEFINE bad == {n \in Nat : ~\E g : SpellsUpTo(g, n)}
<1> SUFFICES ASSUME bad # {} PROVE FALSE
  OBVIOUS
<1> DEFINE n == Least(bad)
<1>1. n \in bad /\ \A j \in bad : n <= j
  BY LeastOfNaturals
<1> HIDE DEF n
<1>2. CASE n = 0
  <2> DEFINE g == [j \in 0 .. 0 |-> <<48 + j>>]
  <2>1. g = [j \in 0 .. 0 |-> Spelled(g, j)]
    BY DEF Spelled
  <2> QED
    BY <1>1, <1>2, <2>1 DEF SpellsUpTo
<1>3. CASE n > 0
  <2>1. n - 1 \in Nat /\ n - 1 \notin bad
    BY <1>1, <1>3
  <2>2. PICK h : SpellsUpTo(h, n - 1)
    BY <2>1
  <2> DEFINE g == [j \in 0 .. n |-> IF j < n THEN h[j] ELSE Spelled(h, n)]
  <2>3. ASSUME NEW j \in 0 .. n PROVE g[j] = Spelled(g, j)
    <3>1. g[j] = Spelled(h, j)
      <4>1. j < n => j \in 0 .. n - 1
        BY <1>1
      <4>2. j < n => h[j] = Spelled(h, j)
        BY <2>2, <4>1, SpelledAt
      <4> QED
        BY <1>1, <4>2
    <3>2. j >= 10 => j \div 10 \in 0 .. n /\ j \div 10 < n
      BY <1>1, Halves
    <3>3. j >= 10 => g[j \div 10] = h[j \div 10]
      BY <3>2
    <3> HIDE DEF g
    <3> QED
      BY <3>1, <3>3 DEF Spelled
  <2>4. g = [j \in 0 .. n |-> Spelled(g, j)]
    <3>1. g = [j \in 0 .. n |-> g[j]]
      OBVIOUS
    <3> HIDE DEF g
    <3> QED
      BY <2>3, <3>1
  <2> QED
    BY <1>1, <2>4 DEF SpellsUpTo
<1> QED
  BY <1>1, <1>2, <1>3

(* Decimal is what its definition says. *)
LEMMA DecimalIs == Decimal = [n \in Nat |-> Spelled(Decimal, n)]
<1> DEFINE G(k) == CHOOSE g : SpellsUpTo(g, k)
           f    == [n \in Nat |-> G(n)[n]]
<1>1. \A k \in Nat : SpellsUpTo(G(k), k)
  BY SolutionsExist
<1> HIDE DEF G
<1>2. ASSUME NEW n \in Nat PROVE f[n] = Spelled(f, n)
  <2>1. f[n] = Spelled(G(n), n)
    BY <1>1, SpelledAt
  <2>2. n >= 10 => G(n)[n \div 10] = f[n \div 10]
    <3>1. n \div 10 \in Nat /\ (n >= 10 => n \div 10 < n)
      BY Halves
    <3>2. n >= 10 => G(n)[n \div 10] = G(n \div 10)[n \div 10]
      BY <1>1, <3>1, SolutionsAgree
    <3> QED
      BY <3>1, <3>2
  <2> HIDE DEF f
  <2> QED
    BY <2>1, <2>2 DEF Spelled
<1>3. f = [n \in Nat |-> Spelled(f, n)]
  <2>1. f = [n \in Nat |-> f[n]]
    OBVIOUS
  <2> HIDE DEF f
  <2> QED
    BY <1>2, <2>1
<1> HIDE DEF f
<1>4. \E d : d = [n \in Nat |-> IF n < 10 THEN <<48 + n>> ELSE Append(d[n \div 10], 48 + (n % 10))]
  BY <1>3 DEF Spelled
<1> QED
  BY <1>4 DEF Decimal, Spelled

LEMMA DecimalAt == ASSUME NEW n \in Nat PROVE Decimal[n] = Spelled(Decimal, n)
<1> DEFINE f(j) == Spelled(Decimal, j)
<1>1. Decimal = [j \in Nat |-> f(j)]
  BY DecimalIs
<1> HIDE DEF f
<1>2. Decimal[n] = f(n)
  BY <1>1
<1> QED
  BY <1>2 DEF f

-----------------------------------------------------------------------------
(* A number is spelled with digits, at least one. *)
LEMMA DecimalIsDigits ==
  ASSUME NEW x \in Nat
  PROVE  Decimal[x] \in Seq(Digits) /\ Len(Decimal[x]) >= 1
<1> DEFINE bad == {n \in Nat : ~(Decimal[n] \in Seq(Digits) /\ Len(Decimal[n]) >= 1)}
<1> SUFFICES ASSUME bad # {} PROVE FALSE
  OBVIOUS
<1> DEFINE n == Least(bad)
<1>1. n \in bad /\ \A j \in bad : n <= j
  BY LeastOfNaturals
<1> HIDE DEF n
<1>2. Decimal[n] = Spelled(Decimal, n)
  BY <1>1, DecimalAt
<1>3. CASE n < 10
  <2>1. Decimal[n] = <<48 + n>> /\ 48 + n \in Digits
    BY <1>1, <1>2, <1>3 DEF Spelled, Digits
  <2> HIDE DEF Digits
  <2> DEFINE s == <<48 + n>>
  <2>2. s \in Seq(Digits) /\ Len(s) = 1
    BY <2>1
  <2>3. Decimal[n] = s
    BY <2>1
  <2> HIDE DEF s
  <2>4. Decimal[n] \in Seq(Digits) /\ Len(Decimal[n]) >= 1
    BY <2>2, <2>3
  <2> QED
    BY <1>1, <2>4
<1>4. CASE n >= 10
  <2>1. n \div 10 \in Nat /\ n \div 10 < n /\ 48 + (n % 10) \in Digits
    BY <1>1, <1>4, Halves DEF Digits
  <2>2. Decimal[n \div 10] \in Seq(Digits) /\ Len(Decimal[n \div 10]) >= 1
    BY <1>1, <2>1
  <2>3. Decimal[n] = Append(Decimal[n \div 10], 48 + (n % 10))
    BY <1>1, <1>2, <1>4 DEF Spelled
  <2>4. Decimal[n] \in Seq(Digits) /\ Len(Decimal[n]) = Len(Decimal[n \div 10]) + 1
    BY <2>1, <2>2, <2>3, AppendProperties
  <2> QED
    BY <1>1, <2>2, <2>4
<1> QED
  BY <1>1, <1>3, <1>4

(* Two numbers with the same digits are one number. *)
THEOREM DecimalNamesNumber ==
  ASSUME NEW x \in Nat, NEW y \in Nat, Decimal[x] = Decimal[y]
  PROVE  x = y
<1> DEFINE bad == {n \in Nat : \E m \in Nat : Decimal[n] = Decimal[m] /\ n # m}
<1> SUFFICES ASSUME bad # {} PROVE FALSE
  OBVIOUS
<1> DEFINE n == Least(bad)
<1>1. n \in bad /\ \A j \in bad : n <= j
  BY LeastOfNaturals
<1> HIDE DEF n
<1>2. PICK m \in Nat : Decimal[n] = Decimal[m] /\ n # m
  BY <1>1
<1>3. n \in Nat /\ Decimal[n] = Spelled(Decimal, n) /\ Decimal[m] = Spelled(Decimal, m)
  BY <1>1, DecimalAt
<1>4. ASSUME NEW k \in Nat, k >= 10
      PROVE  /\ Decimal[k \div 10] \in Seq(Digits)
             /\ Decimal[k] = Append(Decimal[k \div 10], 48 + (k % 10))
             /\ 48 + (k % 10) \in Digits /\ Len(Decimal[k]) >= 2
  <2>1. k \div 10 \in Nat /\ 48 + (k % 10) \in Digits
    BY Halves DEF Digits
  <2>2. Decimal[k \div 10] \in Seq(Digits) /\ Len(Decimal[k \div 10]) >= 1
    BY <2>1, DecimalIsDigits
  <2>3. Decimal[k] = Append(Decimal[k \div 10], 48 + (k % 10))
    <3>1. Decimal[k] = Spelled(Decimal, k) /\ ~(k < 10)
      BY <1>4, DecimalAt
    <3> QED
      BY <3>1 DEF Spelled
  <2>4. Len(Decimal[k]) = Len(Decimal[k \div 10]) + 1
    BY <2>1, <2>2, <2>3, AppendProperties
  <2>5. Len(Decimal[k \div 10]) \in Nat
    BY <2>2, LenProperties
  <2> QED
    BY <2>1, <2>2, <2>3, <2>4, <2>5
<1>5. ASSUME NEW k \in Nat, k < 10
      PROVE  /\ Decimal[k] = <<48 + k>> /\ Len(Decimal[k]) = 1
             /\ Decimal[k][1] = 48 + k
  <2>1. Decimal[k] = Spelled(Decimal, k)
    BY DecimalAt
  <2>2. Decimal[k] = <<48 + k>>
    BY <1>5, <2>1 DEF Spelled
  <2> QED
    BY <2>2
<1>6. CASE n < 10
  <2>1. m < 10
    <3>1. Len(Decimal[m]) = 1
      BY <1>2, <1>3, <1>5, <1>6
    <3>2. m >= 10 => Len(Decimal[m]) >= 2
      BY <1>2, <1>4
    <3> QED
      BY <1>2, <3>1, <3>2
  <2>2. 48 + n = 48 + m
    <3>1. Decimal[n][1] = 48 + n /\ Decimal[m][1] = 48 + m
      BY <1>2, <1>3, <1>5, <1>6, <2>1
    <3> QED
      BY <1>2, <3>1
  <2> QED
    BY <1>2, <1>3, <2>2
<1>7. CASE n >= 10
  <2>1. m >= 10
    <3>1. Len(Decimal[m]) >= 2
      BY <1>2, <1>3, <1>4, <1>7
    <3>2. ASSUME m < 10 PROVE FALSE
      <4>1. Len(Decimal[m]) = 1
        BY <1>2, <1>5, <3>2
      <4> QED
        BY <3>1, <4>1
    <3>3. m \in Nat
      BY <1>2
    <3> QED
      BY <3>2, <3>3
  <2> DEFINE s == Decimal[n \div 10]
             t == Decimal[m \div 10]
             a == 48 + (n % 10)
             b == 48 + (m % 10)
  <2>2. /\ s \in Seq(Digits) /\ t \in Seq(Digits) /\ a \in Digits /\ b \in Digits
        /\ Append(s, a) = Append(t, b)
    BY <1>2, <1>3, <1>4, <1>7, <2>1
  <2> HIDE DEF s, t, a, b
  <2>3. Len(s) = Len(t) /\ \A i \in 1 .. Len(s) : s[i] = t[i]
    BY <2>2, AppendProperties, LenProperties
  <2>4. s = t
    BY <2>2, <2>3, SeqEqual
  <2>5. a = b
    BY <2>2, <2>3, AppendProperties
  <2>6. n \div 10 \in Nat /\ n \div 10 < n /\ m \div 10 \in Nat
    BY <1>3, <1>7, Halves
  <2>7. n \div 10 = m \div 10
    BY <1>1, <2>4, <2>6 DEF s, t
  <2>8. n % 10 = m % 10
    BY <1>3, <2>5, Halves DEF a, b
  <2> QED
    BY <1>2, <1>3, <2>7, <2>8, Halves
<1> QED
  BY <1>3, <1>6, <1>7

-----------------------------------------------------------------------------
(* What ends with no digit is told apart from the digits after it. *)
LEMMA DigitsComeOff ==
  ASSUME NEW p \in Seq(Byte), NEW q \in Seq(Byte),
         NEW d \in Seq(Digits), NEW e \in Seq(Digits),
         p # <<>>, p[Len(p)] \notin Digits, q # <<>>, q[Len(q)] \notin Digits,
         p \o d = q \o e
  PROVE  p = q /\ d = e
<1>1. /\ Digits \subseteq Byte
      /\ d \in Seq(Byte) /\ e \in Seq(Byte)
  <2>1. Digits \subseteq Byte
    BY DEF Digits, Byte
  <2> HIDE DEF Digits, Byte
  <2> QED
    BY <2>1
<1> HIDE DEF Digits, Byte
<1>2. Len(p) \in Nat /\ Len(q) \in Nat /\ Len(d) \in Nat /\ Len(e) \in Nat /\ Len(p) >= 1 /\ Len(q) >= 1
  BY <1>1, LenProperties, EmptySeq
<1>3. Len(p) + Len(d) = Len(q) + Len(e)
  BY <1>1, ConcatProperties
<1>4. \A i \in 1 .. Len(p) + Len(d) :
        /\ (p \o d)[i] = IF i <= Len(p) THEN p[i] ELSE d[i - Len(p)]
        /\ (p \o d)[i] = IF i <= Len(q) THEN q[i] ELSE e[i - Len(q)]
  BY <1>1, <1>3, ConcatProperties
<1>5. ~(Len(p) < Len(q))
  <2> SUFFICES ASSUME Len(p) < Len(q) PROVE FALSE
    OBVIOUS
  <2>1. Len(q) \in 1 .. Len(p) + Len(d) /\ Len(q) - Len(p) \in 1 .. Len(d)
    BY <1>2, <1>3
  <2>2. d[Len(q) - Len(p)] = q[Len(q)]
    BY <1>2, <1>4, <2>1
  <2> QED
    BY <2>1, <2>2, ElementOfSeq
<1>6. ~(Len(q) < Len(p))
  <2> SUFFICES ASSUME Len(q) < Len(p) PROVE FALSE
    OBVIOUS
  <2>1. Len(p) \in 1 .. Len(p) + Len(d) /\ Len(p) - Len(q) \in 1 .. Len(e)
    BY <1>2, <1>3
  <2>2. e[Len(p) - Len(q)] = p[Len(p)]
    BY <1>2, <1>4, <2>1
  <2> QED
    BY <2>1, <2>2, ElementOfSeq
<1>7. Len(p) = Len(q) /\ Len(d) = Len(e)
  BY <1>2, <1>3, <1>5, <1>6
<1>8. \A i \in 1 .. Len(p) : p[i] = q[i]
  BY <1>2, <1>4, <1>7
<1>9. ASSUME NEW i \in 1 .. Len(d) PROVE d[i] = e[i]
  <2>1. i + Len(p) \in 1 .. Len(p) + Len(d) /\ ~(i + Len(p) <= Len(p)) /\ i + Len(p) - Len(p) = i
    BY <1>2
  <2>2. (p \o d)[i + Len(p)] = d[i]
    BY <1>4, <2>1
  <2>3. (p \o d)[i + Len(p)] = e[i]
    BY <1>4, <1>7, <2>1
  <2> QED
    BY <2>2, <2>3
<1>10. p = q
  BY <1>7, <1>8, SeqEqual
<1>11. d = e
  BY <1>7, <1>9, SeqEqual
<1> QED
  BY <1>10, <1>11

(* The part before the number ends with no digit, and holds the trust domain *)
(* at a known place.                                                         *)
LEMMA BeforeNumber ==
  ASSUME NEW td \in Seq(Byte)
  PROVE  LET p == SpiffeScheme \o td \o SpiffeNode
         IN  /\ p \in Seq(Byte) /\ p # <<>> /\ p[Len(p)] \notin Digits
             /\ Len(p) = Len(SpiffeScheme) + Len(td) + Len(SpiffeNode)
             /\ \A i \in 1 .. Len(td) : p[Len(SpiffeScheme) + i] = td[i]
<1> DEFINE a == SpiffeScheme \o td
           p == a \o SpiffeNode
<1>1. /\ SpiffeScheme \in Seq(Byte)
      /\ SpiffeNode \in Seq(Byte) /\ SpiffeNode # <<>> /\ SpiffeNode[Len(SpiffeNode)] \notin Digits
  BY WidthAssumption DEF Digits
<1> HIDE DEF Byte, Digits
<1>2. Len(SpiffeScheme) \in Nat /\ Len(td) \in Nat /\ Len(SpiffeNode) \in Nat /\ Len(SpiffeNode) >= 1
  BY <1>1, LenProperties, EmptySeq
<1>3. /\ a \in Seq(Byte) /\ Len(a) = Len(SpiffeScheme) + Len(td)
      /\ \A i \in 1 .. Len(SpiffeScheme) + Len(td) :
           a[i] = IF i <= Len(SpiffeScheme) THEN SpiffeScheme[i] ELSE td[i - Len(SpiffeScheme)]
  BY <1>1, ConcatProperties
<1> HIDE DEF a
<1>4. /\ p \in Seq(Byte) /\ Len(p) = Len(a) + Len(SpiffeNode)
      /\ \A i \in 1 .. Len(a) + Len(SpiffeNode) :
           p[i] = IF i <= Len(a) THEN a[i] ELSE SpiffeNode[i - Len(a)]
  BY <1>1, <1>3, ConcatProperties
<1> HIDE DEF p
<1>5. p[Len(p)] = SpiffeNode[Len(SpiffeNode)] /\ p # <<>>
  <2>1. Len(p) \in 1 .. Len(a) + Len(SpiffeNode) /\ ~(Len(p) <= Len(a)) /\ Len(p) - Len(a) = Len(SpiffeNode)
    BY <1>2, <1>3, <1>4
  <2> QED
    BY <1>4, <2>1, EmptySeq
<1>6. ASSUME NEW i \in 1 .. Len(td) PROVE p[Len(SpiffeScheme) + i] = td[i]
  <2>1. /\ Len(SpiffeScheme) + i \in 1 .. Len(SpiffeScheme) + Len(td)
        /\ Len(SpiffeScheme) + i \in 1 .. Len(a) + Len(SpiffeNode)
        /\ Len(SpiffeScheme) + i <= Len(a) /\ ~(Len(SpiffeScheme) + i <= Len(SpiffeScheme))
        /\ Len(SpiffeScheme) + i - Len(SpiffeScheme) = i
    BY <1>2, <1>3
  <2> QED
    BY <1>3, <1>4, <2>1
<1>7. /\ p \in Seq(Byte) /\ p # <<>> /\ p[Len(p)] \notin Digits
      /\ Len(p) = Len(SpiffeScheme) + Len(td) + Len(SpiffeNode)
      /\ \A i \in 1 .. Len(td) : p[Len(SpiffeScheme) + i] = td[i]
  BY <1>1, <1>3, <1>4, <1>5, <1>6
<1> QED
  BY <1>7 DEF p, a

(* A derived SPIFFE ID has one trust domain and one number in it, whatever   *)
(* octets the trust domain is made of (genesis.go:84).                       *)
THEOREM SpiffeIDNamesNode ==
  ASSUME NEW td \in Seq(Byte), NEW n \in Nat, NEW ud \in Seq(Byte), NEW m \in Nat,
         spiffeIDV1(td, n) = spiffeIDV1(ud, m)
  PROVE  td = ud /\ n = m
<1> DEFINE p == SpiffeScheme \o td \o SpiffeNode
           q == SpiffeScheme \o ud \o SpiffeNode
<1>1. /\ p \in Seq(Byte) /\ p # <<>> /\ p[Len(p)] \notin Digits
      /\ Len(p) = Len(SpiffeScheme) + Len(td) + Len(SpiffeNode)
      /\ \A i \in 1 .. Len(td) : p[Len(SpiffeScheme) + i] = td[i]
  BY BeforeNumber
<1>2. /\ q \in Seq(Byte) /\ q # <<>> /\ q[Len(q)] \notin Digits
      /\ Len(q) = Len(SpiffeScheme) + Len(ud) + Len(SpiffeNode)
      /\ \A i \in 1 .. Len(ud) : q[Len(SpiffeScheme) + i] = ud[i]
  BY BeforeNumber
<1>3. p \o Decimal[n] = q \o Decimal[m]
  BY DEF spiffeIDV1
<1> HIDE DEF p, q
<1>4. p = q /\ Decimal[n] = Decimal[m]
  <2>1. Decimal[n] \in Seq(Digits) /\ Decimal[m] \in Seq(Digits)
    BY DecimalIsDigits
  <2> DEFINE d == Decimal[n]
             e == Decimal[m]
  <2>2. d \in Seq(Digits) /\ e \in Seq(Digits) /\ p \o d = q \o e
    BY <1>3, <2>1
  <2> HIDE DEF d, e
  <2>3. p = q /\ d = e
    BY <1>1, <1>2, <2>2, DigitsComeOff
  <2> QED
    BY <2>3 DEF d, e
<1>5. n = m
  BY <1>4, DecimalNamesNumber
<1>6. Len(td) = Len(ud)
  <2>1. SpiffeScheme \in Seq(Byte) /\ SpiffeNode \in Seq(Byte)
    BY WidthAssumption
  <2>2. /\ Len(SpiffeScheme) \in Nat /\ Len(SpiffeNode) \in Nat
        /\ Len(td) \in Nat /\ Len(ud) \in Nat
    BY <2>1, LenProperties
  <2> QED
    BY <1>1, <1>2, <1>4, <2>2
<1>7. td = ud
  BY <1>1, <1>2, <1>4, <1>6, SeqEqual
<1> QED
  BY <1>5, <1>7

(* It is never empty, so that no check of its own is needed for that. *)
LEMMA SpiffeIDIsSome ==
  ASSUME NEW td \in Seq(Byte), NEW n \in Nat
  PROVE  Len(spiffeIDV1(td, n)) # 0
<1> DEFINE p == SpiffeScheme \o td \o SpiffeNode
<1>1. p \in Seq(Byte)
  BY BeforeNumber
<1>2. Decimal[n] \in Seq(Digits) /\ Len(Decimal[n]) >= 1
  BY DecimalIsDigits
<1>3. Digits \subseteq Byte
  BY DEF Digits, Byte
<1>4. spiffeIDV1(td, n) = p \o Decimal[n]
  BY DEF spiffeIDV1
<1> HIDE DEF p, Digits, Byte
<1>5. Decimal[n] \in Seq(Byte)
  BY <1>2, <1>3
<1>6. Len(p \o Decimal[n]) = Len(p) + Len(Decimal[n]) /\ Len(p) \in Nat
  BY <1>1, <1>5, ConcatProperties, LenProperties
<1> QED
  BY <1>2, <1>4, <1>6
=============================================================================
