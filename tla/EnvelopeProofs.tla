---------------------------- MODULE EnvelopeProofs ----------------------------
(***************************************************************************)
(* What the envelope promises, for every set of clusters, holders of keys  *)
(* and payloads, however many signatures are made.                         *)
(***************************************************************************)
EXTENDS Envelope, StructuresProofs, FiniteSetTheorems

Keys(statements) == {s.key : s \in statements}

(* A signature over the envelope of a statement means that it was said. *)
SignedWasSaid ==
  \A s \in signed, g \in Clusters, p \in 1 .. 4, text \in Texts :
    LET e == envelopeFor(p, g, text)
    IN  e.err = "ok" /\ s.message = e.wire => Statement(g, p, s.key, text) \in said

(* The votes of a decision are statements about its proposal, by different keys. *)
Counts(d) ==
  /\ d.votes \subseteq said
  /\ \A v \in d.votes : /\ v.cluster = d.cluster /\ v.purpose = PurposeCommitSig
                        /\ Payload(PurposeCommitSig, v.payload).value.ProposalDigest = d.digest
  /\ IsFiniteSet(Keys(d.votes)) /\ Cardinality(Keys(d.votes)) >= Threshold

(* The inductive invariant. *)
IInv == /\ TypeOK
        /\ IsFiniteSet(Keys(said))
        /\ SignedWasSaid
        /\ BelievedWasSaid
        /\ \A d \in decided : Counts(d)

-----------------------------------------------------------------------------
(* The record that envelopeFor encodes. *)
EnvelopeOf(p, g, text) ==
  [Version |-> VersionV1, Purpose |-> p, GenesisDigest |-> g, Payload |-> text]

LEMMA EnvelopeIsValue ==
  ASSUME NEW p \in 1 .. 4, NEW g \in Clusters, NEW text \in Texts
  PROVE  IsValue("SignedV1", EnvelopeOf(p, g, text))
<1> DEFINE v == EnvelopeOf(p, g, text)
           S == SignedV1Fields
<1>1. /\ DOMAIN S = 1 .. 4
      /\ S[1] = [name |-> "Version", type |-> "int"] /\ S[2] = [name |-> "Purpose", type |-> "int"]
      /\ S[3] = [name |-> "GenesisDigest", type |-> "oct"]
      /\ S[4] = [name |-> "Payload", type |-> "oct"]
  BY DEF SignedV1Fields, IntField, OctField
<1>2. Names(S) = {"Version", "Purpose", "GenesisDigest", "Payload"}
  BY <1>1 DEF Names
<1>3. v = [n \in Names(S) |-> v[n]]
  BY <1>2 DEF EnvelopeOf
<1>4. v.Version \in Int64 /\ v.Purpose \in Int64
  BY IntAssumption, EnvelopeAssumption DEF EnvelopeOf, VersionV1, Int64
<1>5. v.GenesisDigest \in Seq(Byte) /\ v.Payload \in Seq(Byte)
  BY EnvelopeAssumption DEF EnvelopeOf
<1>6. \A i \in DOMAIN S : IsField(S[i], v[S[i].name], Int64)
  <2> HIDE DEF S, v
  <2> QED
    BY <1>1, <1>4, <1>5 DEF IsField, IsScalar
<1> QED
  BY <1>3, <1>6 DEF IsValue, IsStruct, Schemas

LEMMA EnvelopeIs ==
  ASSUME NEW p, NEW g, NEW text, envelopeFor(p, g, text).err = "ok"
  PROVE  /\ envelopeFor(p, g, text).wire = marshal(SignedV1Fields, EnvelopeOf(p, g, text))
         /\ checkSignedV1(EnvelopeOf(p, g, text)) = "ok"
BY OkIsNoError DEF envelopeFor, EnvelopeOf, MarshalSignedV1, Marshals, Refusal

(* One wire is the envelope of one purpose, one cluster and one payload. *)
LEMMA EnvelopeNamesStatement ==
  ASSUME NEW p \in 1 .. 4, NEW g \in Clusters, NEW text \in Texts, envelopeFor(p, g, text).err = "ok",
         NEW q \in 1 .. 4, NEW h \in Clusters, NEW other \in Texts, envelopeFor(q, h, other).err = "ok",
         envelopeFor(p, g, text).wire = envelopeFor(q, h, other).wire
  PROVE  p = q /\ g = h /\ text = other
<1> DEFINE v == EnvelopeOf(p, g, text)
           w == EnvelopeOf(q, h, other)
<1>1. GoodSchema(SignedV1Fields)
  BY SchemasAreGood, KindList DEF Schemas
<1>2. IsStruct(SignedV1Fields, v, Int64) /\ IsStruct(SignedV1Fields, w, Int64)
  BY EnvelopeIsValue DEF IsValue, Schemas
<1>3. Encode(SignedV1Fields, v) = Encode(SignedV1Fields, w)
  <2>1. /\ envelopeFor(p, g, text).wire = marshal(SignedV1Fields, v)
        /\ envelopeFor(q, h, other).wire = marshal(SignedV1Fields, w)
    BY EnvelopeIs
  <2>2. marshal(SignedV1Fields, v).tree = marshal(SignedV1Fields, w).tree
    BY <2>1
  <2> QED
    BY <2>2 DEF marshal
<1>4. v = w
  BY <1>1, <1>2, <1>3, RoundTrip
<1> QED
  BY <1>4 DEF EnvelopeOf

(* What a signer emits, UnmarshalSignedV1 accepts. *)
LEMMA EnvelopeIsAccepted ==
  ASSUME NEW p \in 1 .. 4, NEW g \in Clusters, NEW text \in Texts, envelopeFor(p, g, text).err = "ok"
  PROVE  UnmarshalSignedV1(envelopeFor(p, g, text).wire).err = "ok"
<1> DEFINE v == EnvelopeOf(p, g, text)
<1>1. unmarshal(SignedV1Fields, marshal(SignedV1Fields, v)) = Acceptance(v)
  BY UnmarshalOfMarshal, EnvelopeIsValue, SchemasAreGood, KindList DEF IsValue, Schemas
<1> QED
  BY <1>1, EnvelopeIs DEF UnmarshalSignedV1, Unmarshals, Acceptance

(* Blobs and certificates are made of the constants' members. *)
LEMMA BlobIs ==
  ASSUME NEW g, NEW p, NEW k, NEW blob \in Blobs, BlobVerifies(g, p, k, blob)
  PROVE  LET e == envelopeFor(p, g, blob.Payload)
         IN  /\ blob.Payload \in Texts
             /\ e.err = "ok" /\ [key |-> k, message |-> e.wire] \in signed
BY DEF Blobs, BlobVerifies, Verify

LEMMA EntryIs ==
  ASSUME NEW g, NEW cert \in Certificates, NEW i \in DOMAIN cert.Sigs,
         EntryVerifies(g, cert, cert.Sigs[i])
  PROVE  LET s == cert.Sigs[i]
             e == envelopeFor(PurposeCommitSig, g, s.Msg)
         IN  /\ s.Signer \in Nodes /\ s.Msg \in Texts
             /\ e.err = "ok" /\ [key |-> Node(s.Signer), message |-> e.wire] \in signed
             /\ Payload(PurposeCommitSig, s.Msg).value.ProposalDigest = cert.ProposalDigest
<1>1. cert.Sigs[i] \in Entries
  BY DEF Certificates
<1>2. cert.Sigs[i].Signer \in Nodes /\ cert.Sigs[i].Msg \in Texts
  BY <1>1 DEF Entries
<1> QED
  BY <1>2 DEF EntryVerifies, Verify

(* The entries of a certificate that a client decodes are different consenters'. *)
LEMMA SignersDiffer ==
  ASSUME NEW cert \in Certificates,
         UnmarshalCommitCertificateV1(marshal(CommitCertificateV1Fields, cert)) = Acceptance(cert)
  PROVE  /\ IsFiniteSet(DOMAIN cert.Sigs)
         /\ \A i, j \in DOMAIN cert.Sigs : cert.Sigs[i].Signer = cert.Sigs[j].Signer => i = j
<1> DEFINE sigs == cert.Sigs
<1>1. PICK n \in 1 .. MaxEntries : sigs \in [1 .. n -> Entries]
  BY DEF Certificates
<1>2. n \in Nat /\ DOMAIN sigs = 1 .. n
  BY <1>1, EnvelopeAssumption
<1>3. IsSequence(sigs)
  BY <1>1, <1>2 DEF IsSequence
<1>4. \A i \in DOMAIN sigs : sigs[i].Signer \in Int
  <2>1. Nodes \subseteq Int
    BY EnvelopeAssumption, IntAssumption DEF Int64
  <2>2. \A x \in Entries : x.Signer \in Nodes
    BY DEF Entries
  <2>3. \A i \in DOMAIN sigs : sigs[i] \in Entries
    BY <1>1
  <2> HIDE DEF sigs
  <2> QED
    BY <2>1, <2>2, <2>3
<1>5. checkCommitCertificateV1(cert) = "ok"
  BY OkIsNoError DEF UnmarshalCommitCertificateV1, Unmarshals, Acceptance, Refusal
<1>6. \A i, j \in DOMAIN sigs : i < j => sigs[i].Signer < sigs[j].Signer
  BY <1>3, <1>4, <1>5, CertificateAscends
<1>7. \A i, j \in DOMAIN sigs : sigs[i].Signer = sigs[j].Signer => i = j
  <2> SUFFICES ASSUME NEW i \in DOMAIN sigs, NEW j \in DOMAIN sigs,
                      sigs[i].Signer = sigs[j].Signer, i # j
               PROVE  FALSE
    OBVIOUS
  <2>1. i < j \/ j < i
    BY <1>2
  <2> HIDE DEF sigs
  <2> QED
    BY <1>4, <1>6, <2>1
<1>8. IsFiniteSet(DOMAIN sigs)
  BY <1>2, FS_Interval
<1> QED
  BY <1>7, <1>8

(* Counting the entries counts the keys of the votes. *)
LEMMA VotesAreCounted ==
  ASSUME NEW g, NEW cert \in Certificates, NEW counted, counted \subseteq DOMAIN cert.Sigs,
         UnmarshalCommitCertificateV1(marshal(CommitCertificateV1Fields, cert)) = Acceptance(cert)
  PROVE  LET votes == {Statement(g, PurposeCommitSig, Node(cert.Sigs[i].Signer), cert.Sigs[i].Msg) :
                         i \in counted}
         IN  /\ IsFiniteSet(Keys(votes))
             /\ Cardinality(Keys(votes)) = Cardinality(counted)
<1> DEFINE Vote(i) == Statement(g, PurposeCommitSig, Node(cert.Sigs[i].Signer), cert.Sigs[i].Msg)
           votes == {Vote(i) : i \in counted}
           f == [i \in counted |-> Vote(i).key]
<1>1. IsFiniteSet(counted)
  BY SignersDiffer, FS_Subset
<1>2. Keys(votes) = {Vote(i).key : i \in counted}
  BY DEF Keys
<1>3. \A i \in counted : Vote(i).key = Node(cert.Sigs[i].Signer)
  BY DEF Statement
<1>4. \A i, j \in counted : Vote(i).key = Vote(j).key => i = j
  BY <1>3, SignersDiffer DEF Node
<1> HIDE DEF Vote
<1>5. f \in Bijection(counted, Keys(votes))
  BY <1>2, <1>4 DEF Bijection, Injection, Surjection, IsInjective
<1>6. ExistsBijection(counted, Keys(votes))
  BY <1>5 DEF ExistsBijection
<1> QED
  BY <1>1, <1>6, FS_Bijection DEF Vote

-----------------------------------------------------------------------------
LEMMA InitHolds == Init => IInv
<1> SUFFICES ASSUME Init PROVE IInv
  OBVIOUS
<1>1. Keys(said) = {}
  BY DEF Init, Keys
<1>2. IsFiniteSet(Keys(said))
  BY <1>1, FS_EmptySet
<1> QED
  BY <1>2 DEF Init, IInv, TypeOK, SignedWasSaid, BelievedWasSaid

(* A key's signature over an envelope: the statement was made. *)
LEMMA SaidWhenSigned ==
  ASSUME SignedWasSaid, NEW g \in Clusters, NEW p \in 1 .. 4, NEW k, NEW text \in Texts,
         envelopeFor(p, g, text).err = "ok",
         [key |-> k, message |-> envelopeFor(p, g, text).wire] \in signed
  PROVE  Statement(g, p, k, text) \in said
<1> DEFINE s == [key |-> k, message |-> envelopeFor(p, g, text).wire]
<1>1. s.message = envelopeFor(p, g, text).wire /\ s.key = k
  OBVIOUS
<1>2. s \in signed
  OBVIOUS
<1> HIDE DEF s
<1> QED
  BY <1>1, <1>2 DEF SignedWasSaid

(* A statement made is typed, adds one key at most, and is the only one that its *)
(* signature stands for.                                                         *)
LEMMA SignHolds ==
  ASSUME IInv, NEW g \in Clusters, NEW k \in Holders, NEW p \in 1 .. 4, NEW text \in Texts,
         Sign(k, p, g, text)
  PROVE  IInv'
<1> DEFINE e == envelopeFor(p, g, text)
           st == Statement(g, p, k, text)
<1>1. /\ e.err = "ok"
      /\ signed' = signed \union {[key |-> k, message |-> e.wire]}
      /\ said' = said \union {st}
      /\ believed' = believed /\ decided' = decided
  BY DEF Sign
<1>2. TypeOK'
  <2>1. st \in [cluster : Clusters, purpose : 1 .. 4, key : Holders, payload : Texts]
    BY DEF Statement
  <2>2. UnmarshalSignedV1(e.wire).err = "ok"
    BY <1>1, EnvelopeIsAccepted
  <2> QED
    BY <1>1, <2>1, <2>2 DEF IInv, TypeOK
<1>3. IsFiniteSet(Keys(said))'
  <2>0. st.key = k
    BY DEF Statement
  <2>1. Keys(said') = Keys(said) \union {k}
    <3> HIDE DEF st
    <3> QED
      BY <1>1, <2>0 DEF Keys
  <2> QED
    BY <2>1, FS_AddElement DEF IInv
<1>4. SignedWasSaid'
  <2> SUFFICES ASSUME NEW s \in signed', NEW h \in Clusters, NEW q \in 1 .. 4, NEW t \in Texts,
                      envelopeFor(q, h, t).err = "ok", s.message = envelopeFor(q, h, t).wire
               PROVE  Statement(h, q, s.key, t) \in said'
    BY DEF SignedWasSaid
  <2>1. CASE s \in signed
    BY <1>1, <2>1 DEF IInv, SignedWasSaid
  <2>2. CASE s = [key |-> k, message |-> e.wire]
    <3>1. p = q /\ g = h /\ text = t
      BY <1>1, <2>2, EnvelopeNamesStatement
    <3> QED
      BY <1>1, <2>2, <3>1
  <2> QED
    BY <1>1, <2>1, <2>2
<1>5. BelievedWasSaid'
  BY <1>1 DEF IInv, BelievedWasSaid
<1>6. (\A d \in decided : Counts(d))'
  BY <1>1 DEF IInv, Counts
<1> QED
  BY <1>2, <1>3, <1>4, <1>5, <1>6 DEF IInv

LEMMA BelieveHolds ==
  ASSUME IInv, NEW g \in Clusters, NEW k \in Holders, NEW p \in 1 .. 4, NEW blob \in Blobs,
         Believe(g, p, k, blob)
  PROVE  IInv'
<1> DEFINE st == Statement(g, p, k, blob.Payload)
<1>1. /\ believed' = believed \union {st}
      /\ signed' = signed /\ said' = said /\ decided' = decided
  BY DEF Believe
<1>2. st \in said
  <2>1. BlobVerifies(g, p, k, blob)
    BY DEF Believe
  <2> QED
    BY <2>1, BlobIs, SaidWhenSigned DEF IInv
<1>3. TypeOK'
  BY <1>1, <1>2 DEF IInv, TypeOK
<1>4. BelievedWasSaid'
  BY <1>1, <1>2 DEF IInv, BelievedWasSaid
<1> QED
  BY <1>1, <1>3, <1>4 DEF IInv, SignedWasSaid, Counts

(* A certificate's decision rests on statements that were made. *)
LEMMA DecisionCounts ==
  ASSUME IInv, NEW g \in Clusters, NEW cert \in Certificates, Decide(g, cert)
  PROVE  \E d : /\ d.cluster = g /\ Counts(d)
                /\ decided' = decided \union {d}
                /\ signed' = signed /\ said' = said /\ believed' = believed
<1> DEFINE counted == {i \in DOMAIN cert.Sigs : EntryVerifies(g, cert, cert.Sigs[i])}
           Vote(i) == Statement(g, PurposeCommitSig, Node(cert.Sigs[i].Signer), cert.Sigs[i].Msg)
           d == [cluster |-> g, digest |-> cert.ProposalDigest, votes |-> {Vote(i) : i \in counted}]
<1>1. /\ Cardinality(counted) >= Threshold
      /\ UnmarshalCommitCertificateV1(marshal(CommitCertificateV1Fields, cert)) = Acceptance(cert)
      /\ decided' = decided \union {d}
      /\ signed' = signed /\ said' = said /\ believed' = believed
  BY DEF Decide
<1>2. \A i \in counted :
        /\ Vote(i) \in said
        /\ Vote(i).cluster = g /\ Vote(i).purpose = PurposeCommitSig
        /\ Payload(PurposeCommitSig, Vote(i).payload).value.ProposalDigest = cert.ProposalDigest
  <2> SUFFICES ASSUME NEW i \in DOMAIN cert.Sigs, EntryVerifies(g, cert, cert.Sigs[i])
               PROVE  /\ Vote(i) \in said
                      /\ Vote(i).cluster = g /\ Vote(i).purpose = PurposeCommitSig
                      /\ Payload(PurposeCommitSig, Vote(i).payload).value.ProposalDigest
                           = cert.ProposalDigest
    OBVIOUS
  <2>1. PurposeCommitSig \in 1 .. 4
    BY DEF PurposeCommitSig
  <2>2. Vote(i) \in said
    BY <2>1, EntryIs, SaidWhenSigned DEF IInv
  <2> QED
    BY <2>2, EntryIs DEF Statement
<1>3. IsFiniteSet(Keys(d.votes)) /\ Cardinality(Keys(d.votes)) = Cardinality(counted)
  BY <1>1, VotesAreCounted
<1>4. Counts(d)
  <2> HIDE DEF Vote, counted
  <2> QED
    BY <1>1, <1>2, <1>3 DEF Counts
<1>5. d.cluster = g
  OBVIOUS
<1> HIDE DEF d
<1> QED
  BY <1>1, <1>4, <1>5

LEMMA DecideHolds ==
  ASSUME IInv, NEW g \in Clusters, NEW cert \in Certificates, Decide(g, cert)
  PROVE  IInv'
<1>1. PICK d : /\ d.cluster = g /\ Counts(d)
               /\ decided' = decided \union {d}
               /\ signed' = signed /\ said' = said /\ believed' = believed
  BY DecisionCounts
<1>2. d.cluster \in Clusters /\ d.votes \subseteq said
  BY <1>1 DEF Counts
<1>3. TypeOK'
  BY <1>1, <1>2 DEF IInv, TypeOK
<1>4. (\A x \in decided : Counts(x))'
  BY <1>1 DEF IInv, Counts
<1> QED
  BY <1>1, <1>3, <1>4 DEF IInv, SignedWasSaid, BelievedWasSaid

LEMMA StepHolds == IInv /\ [Next]_vars => IInv'
<1> SUFFICES ASSUME IInv, [Next]_vars PROVE IInv'
  OBVIOUS
<1>1. CASE UNCHANGED vars
  BY <1>1 DEF vars, IInv, TypeOK, SignedWasSaid, BelievedWasSaid, Counts
<1>2. ASSUME NEW g \in Clusters, NEW k \in Holders, NEW p \in 1 .. 4, NEW text \in Texts,
             Sign(k, p, g, text)
      PROVE  IInv'
  BY <1>2, SignHolds
<1>3. ASSUME NEW g \in Clusters, NEW k \in Holders, NEW p \in 1 .. 4, NEW blob \in Blobs,
             Believe(g, p, k, blob)
      PROVE  IInv'
  BY <1>3, BelieveHolds
<1>4. ASSUME NEW g \in Clusters, NEW cert \in Certificates, Decide(g, cert)
      PROVE  IInv'
  BY <1>4, DecideHolds
<1> QED
  BY <1>1, <1>2, <1>3, <1>4 DEF Next

LEMMA InductiveInvariant == Spec => []IInv
BY InitHolds, StepHolds, PTL DEF Spec

-----------------------------------------------------------------------------
(* Statements are typed and UnmarshalSignedV1 accepts whatever was signed, in every *)
(* reachable state: a verifier rebuilds what a signer could have emitted.           *)
THEOREM TypeCorrect == Spec => []TypeOK
<1>1. IInv => TypeOK
  BY DEF IInv
<1> QED
  BY <1>1, InductiveInvariant, PTL

(* No verifier ever believes a statement, from a blob, that the key's holder did not *)
(* make in that cluster and under that purpose.                                      *)
THEOREM BelievedWasAlwaysSaid == Spec => []BelievedWasSaid
<1>1. IInv => BelievedWasSaid
  BY DEF IInv
<1> QED
  BY <1>1, InductiveInvariant, PTL

(* Whatever threshold a client asks for, the entries it counts are statements of as *)
(* many different consenters about that proposal, in its cluster.                   *)
THEOREM DecidedByQuorumAlways == Spec => []DecidedByQuorum
<1>1. IInv => DecidedByQuorum
  <2> SUFFICES ASSUME IInv, NEW d \in decided
               PROVE  LET about == {s \in said : /\ s.cluster = d.cluster
                                                /\ s.purpose = PurposeCommitSig
                                                /\ Payload(PurposeCommitSig, s.payload).value.ProposalDigest
                                                     = d.digest}
                      IN  Cardinality({s.key : s \in about}) >= Threshold
    BY DEF DecidedByQuorum
  <2> DEFINE about == {s \in said : /\ s.cluster = d.cluster /\ s.purpose = PurposeCommitSig
                                   /\ Payload(PurposeCommitSig, s.payload).value.ProposalDigest
                                        = d.digest}
  <2>1. Counts(d) /\ IsFiniteSet(Keys(said))
    BY DEF IInv
  <2>2. d.votes \subseteq about
    BY <2>1 DEF Counts
  <2>3. about \subseteq said
    OBVIOUS
  <2> HIDE DEF about
  <2>4. Keys(d.votes) \subseteq Keys(about) /\ Keys(about) \subseteq Keys(said)
    BY <2>2, <2>3 DEF Keys
  <2>5. IsFiniteSet(Keys(about))
    BY <2>1, <2>4, FS_Subset
  <2>6. Cardinality(Keys(d.votes)) <= Cardinality(Keys(about))
    BY <2>4, <2>5, FS_Subset
  <2>7. /\ Cardinality(Keys(d.votes)) \in Nat /\ Cardinality(Keys(about)) \in Nat
        /\ Threshold \in Nat /\ Cardinality(Keys(d.votes)) >= Threshold
    BY <2>1, <2>5, FS_CardinalityType, EnvelopeAssumption DEF Counts
  <2>8. Cardinality(Keys(about)) >= Threshold
    BY <2>6, <2>7
  <2> QED
    BY <2>8 DEF Keys, about
<1> QED
  BY <1>1, InductiveInvariant, PTL

(* The envelope implements the statements it stands for: every step of signers, *)
(* verifiers and clients is one of Statements, or leaves what it says alone.     *)
THEOREM PromiseIsKept == Spec => PromiseKept
<1>1. Init => Promise!Init
  BY DEF Init, Promise!Init
<1>2. IInv /\ [Next]_vars => [Promise!Next]_<<said, believed, decided>>
  <2> SUFFICES ASSUME IInv, [Next]_vars
               PROVE  [Promise!Next]_<<said, believed, decided>>
    OBVIOUS
  <2>1. CASE UNCHANGED vars
    BY <2>1 DEF vars
  <2>2. ASSUME NEW g \in Clusters, NEW k \in Holders, NEW p \in 1 .. 4, NEW text \in Texts,
               Sign(k, p, g, text)
        PROVE  Promise!Say
    BY <2>2 DEF Sign, Promise!Say
  <2>3. ASSUME NEW g \in Clusters, NEW k \in Holders, NEW p \in 1 .. 4, NEW blob \in Blobs,
               Believe(g, p, k, blob)
        PROVE  Promise!Believe
    <3>1. IInv'
      BY <2>3, BelieveHolds
    <3>2. believed \subseteq believed' /\ said' = said /\ decided' = decided
      BY <2>3 DEF Believe
    <3>3. believed' \subseteq said
      BY <3>1, <3>2 DEF IInv, BelievedWasSaid
    <3> QED
      BY <3>2, <3>3 DEF Promise!Believe
  <2>4. ASSUME NEW g \in Clusters, NEW cert \in Certificates, Decide(g, cert)
        PROVE  Promise!Decide
    <3>1. PICK d : /\ d.cluster = g /\ Counts(d)
                   /\ decided' = decided \union {d}
                   /\ signed' = signed /\ said' = said /\ believed' = believed
      BY <2>4, DecisionCounts
    <3>2. Promise!QuorumOf(d)
      <4>1. Cardinality({v.key : v \in d.votes}) >= Threshold
        BY <3>1, Zenon DEF Counts, Keys
      <4>2. d.votes \subseteq said /\ \A v \in d.votes : v.cluster = d.cluster
        BY <3>1 DEF Counts
      <4>3. Promise!Cardinality({v.key : v \in d.votes}) = Cardinality({v.key : v \in d.votes})
        BY Zenon DEF Cardinality, Promise!Cardinality
      <4> QED
        BY <4>1, <4>2, <4>3 DEF Promise!QuorumOf
    <3> QED
      BY <3>1, <3>2 DEF Promise!Decide
  <2> QED
    BY <2>1, <2>2, <2>3, <2>4 DEF Next, Promise!Next
<1> QED
  BY <1>1, <1>2, InductiveInvariant, PTL DEF Spec, PromiseKept, Promise!Spec
=============================================================================
