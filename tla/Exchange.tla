------------------------------- MODULE Exchange -------------------------------
(***************************************************************************)
(* Structures of one kind travelling between processes that use package    *)
(* canonical.  A producer marshals a value; the wire may reach any number  *)
(* of readers, late, twice or never (net is a set that keeps every wire);  *)
(* it may arrive in another spelling, those that the repository's tests    *)
(* derive from a vector; a producer that checks nothing (encode_struct of  *)
(* ci/verify_vectors.py) and one that runs a later release put wires on    *)
(* the net too.  A reader unmarshals what arrives and may marshal it again *)
(* for the next one.  The package keeps no state, so which process does a  *)
(* step does not matter: accepted and refused are what all of them saw.    *)
(***************************************************************************)
EXTENDS Verifier, FiniteSets

CONSTANTS Values,    \* Values[k]: the values of kind k a producer may hand to Marshal
          Foreign,   \* Foreign[k]: the values of kind k an unchecked producer encodes
          GoCeiling, \* the largest length encoding/asn1 reads
          Travelling,\* the kinds of structure followed
          MaxNet     \* bound: how many wires are on the net

ASSUME ExchangeAssumption ==
  /\ Travelling \subseteq Kinds
  /\ \A k \in Travelling : \A v \in Values[k] : IsValue(k, v)
  /\ \A k \in Travelling : \A v \in Foreign[k] : IsStruct(Schemas[k], v, Int)
  /\ GoCeiling \in Nat
  /\ MaxNet \in Nat

VARIABLES kind,      \* the kind of structure this exchange is about
          net,       \* the wires that exist
          emitted,   \* history: the wires Marshal returned
          newer,     \* history: the wires a later release emitted
          accepted,  \* [value, wire] of every successful Unmarshal
          refused    \* [wire, err] of every Unmarshal that failed

vars == <<kind, net, emitted, newer, accepted, refused>>

-----------------------------------------------------------------------------
(***************************************************************************)
(* Spellings derived from a wire: an octet after it, an element no field   *)
(* list expects at the end of any of its SEQUENCEs, the next Version.      *)
(***************************************************************************)
Surplus == <<"int", 99>>

Trailed(w) == [w EXCEPT !.rest = Append(@, 255)]

AppendTo(t, x) == <<"seq", Append(Content(t), x)>>

(* The trees that differ from t by one of the given changes in one child of t. *)
InOneChild(t, Changes(_)) ==
  LET Swapped(i) == {<<"seq", [Content(t) EXCEPT ![i] = u]>> : u \in Changes(Content(t)[i])}
  IN  UNION {Swapped(i) : i \in {j \in DOMAIN Content(t) : Tag(Content(t)[j]) = "seq"}}

SpliceHere(t)  == {AppendTo(t, Surplus)}
SpliceBelow(t) == SpliceHere(t) \union InOneChild(t, SpliceHere)
Spliced(t)     == SpliceHere(t) \union InOneChild(t, SpliceBelow)

Bumped(w) == LET c == Content(w.tree)
             IN  [w EXCEPT !.tree = <<"seq", [c EXCEPT ![1] = <<"int", Content(c[1]) + 1>>]>>]

Respellings(w) == {Trailed(w)} \union {[w EXCEPT !.tree = t] : t \in Spliced(w.tree)}
                    \union (IF kind \in Versioned THEN {Bumped(w)} ELSE {})

(* A later release: Version 2, the new fields, if any, after the existing ones. *)
NewerWires(v) == LET t == Encode(Schemas[kind], [v EXCEPT !.Version = 2])
                 IN  {[tree |-> u, rest |-> <<>>] : u \in {t, AppendTo(t, <<"oct", <<>>>>)}}

-----------------------------------------------------------------------------
Init == /\ kind \in Travelling
        /\ net = {} /\ emitted = {} /\ newer = {}
        /\ accepted = {} /\ refused = {}

Room == Cardinality(net) < MaxNet

(* A producer calls Marshal; an error leaves it with nothing to send. *)
Emit(v) == /\ Room
           /\ Marshal(kind, v).err = "ok"
           /\ net' = net \union {Marshal(kind, v).wire}
           /\ emitted' = emitted \union {Marshal(kind, v).wire}
           /\ UNCHANGED <<kind, newer, accepted, refused>>

(* encode_struct of ci/verify_vectors.py encodes what it is given. *)
EmitForeign(v) == /\ Room
                  /\ net' = net \union {marshal(Schemas[kind], v)}
                  /\ UNCHANGED <<kind, emitted, newer, accepted, refused>>

EmitNewer(v) == /\ Room
                /\ kind \in Versioned
                /\ Marshal(kind, v).err = "ok"
                /\ \E w \in NewerWires(v) : /\ net' = net \union {w}
                                           /\ newer' = newer \union {w}
                /\ UNCHANGED <<kind, emitted, accepted, refused>>

Respell(w) == /\ Room
              /\ \E u \in Respellings(w) : net' = net \union {u}
              /\ UNCHANGED <<kind, emitted, newer, accepted, refused>>

(* UnmarshalX on the octets of w: encoding/asn1 refuses a length beyond its   *)
(* ceiling before it looks at the value; Marshal has no ceiling.              *)
Read(w) == IF Within(w, GoCeiling) THEN Unmarshal(kind, w) ELSE Refusal("ErrAsn1")

Accept(w) == LET d == Read(w)
             IN  /\ d.err = "ok"
                 /\ accepted' = accepted \union {[value |-> d.value, wire |-> w]}
                 /\ UNCHANGED <<kind, net, emitted, newer, refused>>

Refuse(w) == LET d == Read(w)
             IN  /\ d.err # "ok"
                 /\ refused' = refused \union {[wire |-> w, err |-> d.err]}
                 /\ UNCHANGED <<kind, net, emitted, newer, accepted>>

(* A reader passes on what it accepted, from the value it holds. *)
Relay(a) == /\ Marshal(kind, a.value).err = "ok"
            /\ net' = net \union {Marshal(kind, a.value).wire}
            /\ emitted' = emitted \union {Marshal(kind, a.value).wire}
            /\ UNCHANGED <<kind, newer, accepted, refused>>

Next == \/ \E v \in Values[kind] : Emit(v)
        \/ \E v \in Values[kind] : EmitNewer(v)
        \/ \E v \in Foreign[kind] : EmitForeign(v)
        \/ \E w \in net : Respell(w) \/ Accept(w) \/ Refuse(w)
        \/ \E a \in accepted : Relay(a)

Spec == Init /\ [][Next]_vars

-----------------------------------------------------------------------------
(* Every wire in a history is on the net, every accepted value is a value of *)
(* its Go type, and a refusal names one of the errors of errors.go.          *)
TypeOK == /\ kind \in Travelling
          /\ emitted \subseteq net /\ newer \subseteq net
          /\ \A a \in accepted : a.wire \in net /\ IsValue(kind, a.value)
          /\ \A r \in refused : r.wire \in net /\ r.err \in Errors

(***************************************************************************)
(* doc.go:58: accepted bytes are exactly the bytes this package emits.  So *)
(* no reader holds a value it could not pass on (the checks on decode and  *)
(* on encode agree), and none holds one under another digest than its own. *)
(***************************************************************************)
AcceptedIsEmission ==
  \A a \in accepted : Marshal(kind, a.value) = [err |-> "ok", wire |-> a.wire]

(* The other half: no reader refuses bytes that Marshal returned, unless they *)
(* are longer than encoding/asn1 reads (WIRE-SPEC 2.4.2).                     *)
EmissionIsAccepted == \A r \in refused : r.wire \in emitted => ~Within(r.wire, GoCeiling)

(***************************************************************************)
(* A membership or a certificate is a set of entries, the rest of a value  *)
(* is what it is.  SignatureSetV0 keeps the leader's order: a sequence.    *)
(***************************************************************************)
Meaning(v) ==
  CASE kind = "GenesisV1" ->
         <<v.TrustDomain, v.CARoot, v.MaxNodes, {v.Members[i] : i \in DOMAIN v.Members}>>
    [] kind = "CommitCertificateV1" ->
         <<v.ProposalDigest, v.View, v.Seq, {v.Sigs[i] : i \in DOMAIN v.Sigs}>>
    [] OTHER -> v

(* One meaning has one spelling, so one digest (genesis.go:66, commitcert.go:22): *)
(* two readers that mean the same thing saw the same bytes.                       *)
OneSpelling ==
  \A a, b \in accepted : Meaning(a.value) = Meaning(b.value) => a.wire = b.wire

(* No entry of an accepted certificate or genesis counts twice, so a quorum    *)
(* counted over the signatures is one of signers (commitcert.go:36), and       *)
(* MaxNodes bounds the nodes.                                                  *)
EntriesAreDistinct ==
  \A a \in accepted :
    /\ kind = "CommitCertificateV1" =>
         LET sigs == a.value.Sigs
         IN  \A i, j \in DOMAIN sigs : sigs[i].Signer = sigs[j].Signer => i = j
    /\ kind = "GenesisV1" =>
         LET members == a.value.Members
         IN  \A i, j \in DOMAIN members : members[i].NodeID = members[j].NodeID => i = j

(* genesis.go:84: the SPIFFE ID is derived, so it says which cluster and which *)
(* node; no two nodes of all the memberships read share an identity.           *)
IdentityNamesOneNode ==
  kind = "GenesisV1" =>
    \A a, b \in accepted :
      \A m \in {a.value.Members[i] : i \in DOMAIN a.value.Members},
         n \in {b.value.Members[j] : j \in DOMAIN b.value.Members} :
        m.SpiffeID = n.SpiffeID =>
          /\ m.NodeID = n.NodeID
          /\ a.value.TrustDomain = b.value.TrustDomain

(* doc.go:42, WIRE-SPEC 7.3: nothing a later release emitted is half-read. *)
NewerIsRefused == \A a \in accepted : a.wire \notin newer

(***************************************************************************)
(* WIRE-SPEC 4.2.2: the two implementations accept the same wires, but for  *)
(* the rules that only one of them has.  The verifier alone looks into a    *)
(* certificate's messages: for another proposal (3.13.1, which 3.13.7       *)
(* leaves to the client) and, unintended, for one it cannot decode without  *)
(* another exception than SpecError.  The Go reader alone has a width for   *)
(* INTEGERs (SameInputs).  Each has a ceiling on lengths of its own         *)
(* (2.4.2).                                                                 *)
(***************************************************************************)
MessagesBound(v) ==
  kind = "CommitCertificateV1" => \A i \in DOMAIN v.Sigs : MsgBound(v, v.Sigs[i].Msg)

Agreement ==
  \A w \in net :
    LET d == Read(w)
    IN  d.err = "ok" /\ MessagesBound(d.value) /\ Within(w, PythonCeiling)
          <=> /\ Verifies(kind, w)
              /\ IsValue(kind, StructValue(Schemas[kind], w.tree))
              /\ Within(w, GoCeiling)

(* WIRE-SPEC 4.2.2 as it stands: what the verifier accepts a reader accepts. *)
SameInputs == \A w \in net : Verifies(kind, w) => Read(w).err = "ok"

(* WIRE-SPEC 7.3 and 4.1: a reader refuses a later release's bytes because  *)
(* it does not know their version.                                          *)
NewerIsRefusedByVersion == \A r \in refused : r.wire \in newer => r.err = "ErrVersion"
=============================================================================
