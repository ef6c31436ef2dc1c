------------------------------ MODULE MCExchange ------------------------------
(***************************************************************************)
(* Small universes for Exchange: for each kind the legal values that a     *)
(* reader could confuse, and values next to each bound the checks draw.    *)
(***************************************************************************)
EXTENDS Exchange

LOCAL Seqs == INSTANCE SequencesExt

MCMinInt == -2

SchemeOctets == <<115>>
NodeOctets   == <<47>>

HeaderOnly == {"Header"}

A == <<1>>
B == <<2>>

(* The octets <<7>> and <<8>> spell a CommitPayloadV1 about proposal A, about B; *)
(* other octets spell nothing.                                                   *)
PayloadAbout(digest) == marshal(CommitPayloadV1Fields,
                                [Version |-> 1, ProposalDigest |-> digest, Aux |-> <<>>])
MCWireOf(octets) == CASE octets = <<7>> -> PayloadAbout(A)
                      [] octets = <<8>> -> PayloadAbout(B)
                      [] OTHER -> [tree |-> <<"bad", octets>>, rest |-> <<>>]

(* <<9>> is too deep for the verifier to decode. *)
MCCrashes(octets) == octets = <<9>>

(* The octets of a tree; every tag, length and INTEGER here takes one octet. *)
RECURSIVE Size(_)
Size(t) == CASE Tag(t) = "seq" -> Seqs!FoldSeq(LAMBDA u, n : n + Size(u), 2, Content(t))
             [] Tag(t) = "int" -> 3
             [] OTHER          -> 2 + Len(Content(t))

MCLength(w) == Size(w.tree) - 2

(* A payload that brings a ProposalV0 up to the ceilings, and one beyond. *)
Zeros(n) == [i \in 1 .. n |-> 0]

Sig(signer, value, msg) == [Signer |-> signer, Value |-> value, Msg |-> msg]

(* Trust domains that a derivation without a separator would confuse. *)
Short  == <<97>>
Longer == <<97, 49>>

Member(td, id, key) == [NodeID |-> id, SpiffeID |-> spiffeIDV1(td, id), LeafPubKey |-> key]
Stranger(id)        == [NodeID |-> id, SpiffeID |-> spiffeIDV1(B, 1), LeafPubKey |-> A]
Nameless            == [NodeID |-> 3, SpiffeID |-> <<>>, LeafPubKey |-> A]
NoNode              == [NodeID |-> -1, SpiffeID |-> A, LeafPubKey |-> A]

Cert(octets) == [DER |-> octets]

SigLists == {<<>>, <<Sig(0, A, A)>>, <<Sig(0, A, A), Sig(1, B, B)>>, <<Sig(1, B, B), Sig(0, A, A)>>,
             <<Sig(1, A, A), Sig(1, B, B)>>, <<Sig(0, <<>>, A)>>, <<Sig(0, A, <<>>)>>,
             <<Sig(0, A, <<7>>), Sig(1, A, <<7>>)>>, <<Sig(0, A, <<9>>)>>, <<Sig(0, A, <<7>>), Sig(1, A, <<8>>)>>,
             <<Sig(2, A, A), Sig(4, B, B), Sig(3, B, B)>>, <<Sig(-1, A, A), Sig(0, A, A), Sig(1, A, A)>>}

MemberLists ==
  LET M(id, key) == Member(Short, id, key)
  IN  {<<>>, <<M(0, A)>>, <<M(1, A), M(2, B)>>, <<M(2, B), M(1, A)>>, <<M(1, A), M(1, B)>>,
       <<M(1, A), Stranger(2)>>, <<Nameless>>, <<NoNode>>, <<M(1, <<>>)>>,
       <<M(1, A), M(11, A), M(2, B)>>, <<M(1, B), M(11, B)>>}

Memberships(td, maxNodes, lists) ==
  [Version : {1}, TrustDomain : {td}, CARoot : {B}, MaxNodes : maxNodes, Members : lists]

MCValues ==
  [Header |->
     [Version : {1, 2}, PrevStateRoot : {<<>>, A, B, <<1, 1>>}, PrevSeq : {-1, 0}, ConsensusTime : {0}],
   ProposalV0 |->
     [Payload : {<<>>, A, Zeros(90), Zeros(91)}, Header : {A, <<1, 1>>}, Metadata : {<<>>}, VerificationSequence : {-1, 5}],
   SignatureSetV0 |-> [Sigs : SigLists],
   SignedV1 |->
     [Version : {1, 2}, Purpose : {0, 1, 4, 5}, GenesisDigest : {A, <<1, 1>>}, Payload : {<<>>, A}],
   SignedBlobV1 |->
     [Version : {1, 2}, Purpose : {0, 1, 4, 5}, Payload : {<<>>, A}, Value : {<<>>, A}],
   CommitPayloadV1 |->
     [Version : {0, 1}, ProposalDigest : {<<>>, A, B, <<1, 1>>}, Aux : {<<>>, A}],
   ClientRequestV1 |->
     [Version : {1}, ClientCert : {<<>>, A}, Intermediates : {<<>>, <<Cert(A), Cert(B)>>, <<Cert(B), Cert(<<>>)>>},
      RequestID : {A, <<1, 1>>}, Expiry : {0, 1}, Payload : {<<>>}],
   ReadIndexV1 |->
     [Version : {1, 2}, SignerID : {0, 1}, View : {-1, 0}, Seq : {-1, 0}, Nonce : {<<>>, A}],
   CommitCertificateV1 |->
     [Version : {1}, ProposalDigest : {A, <<>>}, View : {0}, Seq : {-1, 0}, Sigs : SigLists],
   GenesisV1 |->
     Memberships(Short, {-1, 1, 2, 3}, MemberLists)
       \union Memberships(Longer, {1, 2}, {<<Member(Longer, 1, A)>>, <<Member(Short, 11, A)>>})
       \union Memberships(<<>>, {0}, {<<>>})]

(* Beside those, Headers whose PrevSeq needs more octets than an int64 has. *)
MCForeign ==
  [MCValues EXCEPT !.Header = @ \union {[h EXCEPT !.PrevSeq = MaxInt + 1] : h \in @}]
=============================================================================
