------------------------------ MODULE MCEnvelope ------------------------------
(***************************************************************************)
(* Small universes for Envelope.  An octet string of one octet spells one  *)
(* payload; a signature is spelled by what it was made of.                 *)
(***************************************************************************)
EXTENDS Envelope

MCMinInt == -2

SchemeOctets == <<115>>
NodeOctets   == <<47>>

G == <<1>>
H == <<2>>
Misconfigured == <<1, 1>>   \* a genesis digest of another width

A == <<1>>
B == <<2>>

ReadIndex(signer, seq) ==
  [Version |-> 1, SignerID |-> signer, View |-> 0, Seq |-> seq, Nonce |-> A]

Request(cert) == [Version |-> 1, ClientCert |-> cert, Intermediates |-> <<>>,
                  RequestID |-> A, Expiry |-> 1, Payload |-> <<>>]

CommitPayload(digest, aux) == [Version |-> 1, ProposalDigest |-> digest, Aux |-> aux]

MCWireOf(text) ==
  CASE text = <<11>> -> marshal(ReadIndexV1Fields, ReadIndex(1, 0))
    [] text = <<12>> -> marshal(ReadIndexV1Fields, ReadIndex(2, 0))
    [] text = <<13>> -> marshal(ReadIndexV1Fields, ReadIndex(0, 1))
    [] text = <<21>> -> marshal(ClientRequestV1Fields, Request(A))
    [] text = <<31>> -> marshal(CommitPayloadV1Fields, CommitPayload(A, <<>>))
    [] text = <<32>> -> marshal(CommitPayloadV1Fields, CommitPayload(B, <<>>))
    [] text = <<33>> -> marshal(CommitPayloadV1Fields, CommitPayload(A, A))
    [] OTHER         -> [tree |-> <<"bad", text>>, rest |-> <<>>]

(* The holder, and the purpose, the cluster and the payload of the envelope. *)
MCSignatureOf(k, message) ==
  LET e == StructValue(SignedV1Fields, message.tree)
      holder == CASE k = Client(A) -> 100
                  [] OTHER -> k[2]
      first(octets) == IF octets = <<>> THEN 0 ELSE octets[1]
  IN  <<holder, e.Purpose, Len(e.GenesisDigest), first(e.GenesisDigest), first(e.Payload)>>

MCGarbled == <<0, 0, 0, 0, 0>>

TwoClusters == {G, H}
BlobClusters == {G, H, Misconfigured}
OneClient == {A}
NoClient  == {}
TwoNodes  == {1, 2}
BlobTexts == {<<11>>, <<12>>, <<13>>, <<21>>, <<99>>, <<>>}
VoteTexts == {<<31>>, <<32>>, <<33>>}
=============================================================================
