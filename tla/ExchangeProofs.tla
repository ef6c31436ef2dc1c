---------------------------- MODULE ExchangeProofs ----------------------------
(***************************************************************************)
(* The exchange's invariants, for every set of values and every number of  *)
(* wires.                                                                  *)
(***************************************************************************)
EXTENDS Exchange, StructuresProofs

(* A wire of the net spells a SEQUENCE of the profile's depth; a structure with *)
(* a Version has it in front, whatever was done to its other elements.          *)
HasVersion(t) == 1 \in DOMAIN Content(t) /\ Content(t)[1] \in {"int"} \X Int

IsWire(w) == /\ w \in [tree : Node3, rest : Seq(Byte)]
             /\ kind \in Versioned => HasVersion(w.tree)

(* The inductive invariant: the four histories say what the functions return, *)
(* and a newer wire still carries its version.                                *)
Emission(w) == LET v == StructValue(Schemas[kind], w.tree)
               IN  IsValue(kind, v) /\ Marshal(kind, v) = [err |-> "ok", wire |-> w]

IInv == /\ kind \in Travelling
        /\ \A w \in net : IsWire(w)
        /\ emitted \subseteq net /\ \A w \in emitted : Emission(w)
        /\ newer \subseteq net
        /\ \A w \in newer : kind \in Versioned /\ Content(w.tree)[1] = <<"int", 2>>
        /\ \A a \in accepted : a.wire \in net /\ Read(a.wire) = Acceptance(a.value)
        /\ \A r \in refused : /\ r.wire \in net
                              /\ r.err = Read(r.wire).err
                              /\ r.err # "ok"

-----------------------------------------------------------------------------
(* The trees that the producers and the respellings put on the net. *)
LEMMA WiderStruct ==
  ASSUME NEW S, NEW v, IsStruct(S, v, Int64)
  PROVE  IsStruct(S, v, Int)
<1>1. Int64 \subseteq Int
  BY IntAssumption DEF Int64
<1>2. ASSUME NEW T, NEW x, IsRow(T, x, Int64) PROVE IsRow(T, x, Int)
  BY <1>1, <1>2 DEF IsRow, IsScalar
<1>3. ASSUME NEW f, NEW x, IsField(f, x, Int64) PROVE IsField(f, x, Int)
  BY <1>1, <1>2, <1>3 DEF IsField, IsScalar
<1> QED
  BY <1>3 DEF IsStruct

LEMMA VersionLeads ==
  ASSUME NEW k \in Versioned
  PROVE  /\ k \in Kinds
         /\ 1 \in DOMAIN Schemas[k]
         /\ Schemas[k][1].name = "Version" /\ Schemas[k][1].type = "int"
         /\ "Version" \in Names(Schemas[k])
<1>1. k \in Kinds \ {"ProposalV0", "SignatureSetV0"}
  BY DEF Versioned, VersionExempt
<1>2. 1 \in DOMAIN Schemas[k] /\ Schemas[k][1] = IntField("Version")
  BY <1>1, KindList DEF Schemas, HeaderFields, SignedV1Fields, SignedBlobV1Fields, CommitPayloadV1Fields,
     ClientRequestV1Fields, ReadIndexV1Fields, CommitCertificateV1Fields, GenesisV1Fields
<1> QED
  BY <1>1, <1>2 DEF IntField, Names

LEMMA NewerIsStruct ==
  ASSUME NEW k \in Versioned, NEW v, IsStruct(Schemas[k], v, Int)
  PROVE  /\ IsStruct(Schemas[k], [v EXCEPT !.Version = 2], Int)
         /\ [v EXCEPT !.Version = 2].Version = 2
<1> DEFINE S == Schemas[k]
           u == [v EXCEPT !.Version = 2]
<1>1. v = [n \in Names(S) |-> v[n]]
  BY DEF IsStruct
<1>2. "Version" \in DOMAIN v
  BY <1>1, VersionLeads
<1>3. u.Version = 2 /\ DOMAIN u = DOMAIN v /\ \A n \in DOMAIN v : n # "Version" => u[n] = v[n]
  BY <1>2
<1>4. u = [n \in Names(S) |-> u[n]]
  BY <1>1
<1>5. DistinctNames(S)
  BY SchemasAreGood, VersionLeads DEF GoodSchema
<1> HIDE DEF u
<1>6. \A i \in DOMAIN S : IsField(S[i], u[S[i].name], Int)
  <2> TAKE i \in DOMAIN S
  <2>1. CASE S[i].name = "Version"
    <3>1. i = 1
      BY <1>5, <2>1, VersionLeads DEF DistinctNames
    <3> QED
      BY <1>3, <2>1, <3>1, VersionLeads DEF IsField, IsScalar
  <2>2. CASE S[i].name # "Version"
    <3>1. S[i].name \in DOMAIN v
      BY <1>1 DEF Names
    <3> QED
      BY <1>3, <2>2, <3>1 DEF IsStruct
  <2> QED
    BY <2>1, <2>2
<1>7. IsStruct(S, u, Int)
  BY <1>4, <1>6 DEF IsStruct
<1> QED
  BY <1>3, <1>7 DEF u

LEMMA EncodingHasVersion ==
  ASSUME NEW k \in Versioned, NEW v, IsStruct(Schemas[k], v, Int)
  PROVE  /\ HasVersion(Encode(Schemas[k], v))
         /\ Content(Encode(Schemas[k], v))[1] = <<"int", v.Version>>
<1> DEFINE S == Schemas[k]
<1>1. Content(Encode(S, v)) = [i \in DOMAIN S |-> EncodeField(S[i], v[S[i].name])]
  BY DEF Encode, Content
<1>2. 1 \in DOMAIN S /\ S[1].name = "Version" /\ S[1].type = "int"
  BY VersionLeads
<1>3. Content(Encode(S, v))[1] = <<"int", v.Version>>
  BY <1>1, <1>2 DEF EncodeField
<1>4. v.Version \in Int
  BY <1>2 DEF IsStruct, IsField, IsScalar
<1>5. 1 \in DOMAIN Content(Encode(S, v))
  BY <1>1, <1>2
<1>6. <<"int", v.Version>> \in {"int"} \X Int
  BY <1>4
<1> QED
  BY <1>3, <1>5, <1>6 DEF HasVersion

LEMMA AppendIsTree ==
  ASSUME NEW X, NEW t \in Over(X), NEW x \in X
  PROVE  /\ AppendTo(t, x) \in Over(X)
         /\ Content(AppendTo(t, x)) = Append(Content(t), x)
         /\ \A i \in DOMAIN Content(t) : i \in DOMAIN Content(AppendTo(t, x))
                                         /\ Content(AppendTo(t, x))[i] = Content(t)[i]
<1>1. Content(t) \in Seq(X)
  BY DEF Over, Content
<1>2. Content(AppendTo(t, x)) = Append(Content(t), x)
  BY DEF AppendTo, Content
<1>3. Append(Content(t), x) \in Seq(X)
  BY <1>1
<1>4. AppendTo(t, x) \in Over(X)
  BY <1>3 DEF AppendTo, Over
<1> QED
  BY <1>1, <1>2, <1>4

LEMMA SwappedIsTree ==
  ASSUME NEW X, NEW t \in Over(X), NEW i \in DOMAIN Content(t), NEW c \in X,
         NEW u, u = <<"seq", [Content(t) EXCEPT ![i] = c]>>
  PROVE  /\ u \in Over(X)
         /\ DOMAIN Content(u) = DOMAIN Content(t)
         /\ \A j \in DOMAIN Content(t) : j # i => Content(u)[j] = Content(t)[j]
<1>1. Content(t) \in Seq(X)
  BY DEF Over, Content
<1>2. [Content(t) EXCEPT ![i] = c] \in Seq(X)
  BY <1>1
<1>3. Content(u) = [Content(t) EXCEPT ![i] = c]
  BY DEF Content
<1> QED
  BY <1>1, <1>2, <1>3 DEF Over

(* The nodes of a tree that are SEQUENCEs are SEQUENCEs of the next depth. *)
LEMMA InnerNodes ==
  /\ \A c \in Node2 : Tag(c) = "seq" => c \in Over(Node1)
  /\ \A c \in Node1 : Tag(c) = "seq" => c \in Over(Leaf)
  /\ Over(Leaf) \subseteq Node1 /\ Over(Node1) \subseteq Node2
  /\ Leaf \subseteq Node1 /\ Leaf \subseteq Node2
BY DEF Node1, Node2, Leaf, Over, Tag

LEMMA AddedNodes == Surplus \in Leaf /\ <<"oct", <<>>>> \in Leaf
<1>1. Surplus \in {"int"} \X Int
  BY DEF Surplus
<1>2. <<>> \in Seq(Byte)
  OBVIOUS
<1>3. <<"oct", <<>>>> \in {"oct"} \X Seq(Byte)
  BY <1>2
<1> QED
  BY <1>1, <1>3 DEF Leaf

LEMMA SplicedIsTree ==
  ASSUME NEW t \in Node3, NEW u \in Spliced(t)
  PROVE  u \in Node3 /\ (HasVersion(t) => HasVersion(u))
<1>1. ASSUME NEW c \in Node1, Tag(c) = "seq" PROVE SpliceHere(c) \subseteq Node1
  BY <1>1, InnerNodes, AddedNodes, AppendIsTree DEF SpliceHere
<1>2. ASSUME NEW c \in Node2, Tag(c) = "seq" PROVE SpliceBelow(c) \subseteq Node2
  <2>1. c \in Over(Node1)
    BY <1>2, InnerNodes
  <2>2. SpliceHere(c) \subseteq Over(Node1)
    BY <2>1, InnerNodes, AddedNodes, AppendIsTree DEF SpliceHere
  <2>3. ASSUME NEW d \in InOneChild(c, SpliceHere) PROVE d \in Over(Node1)
    <3>1. PICK i \in DOMAIN Content(c) :
            /\ Tag(Content(c)[i]) = "seq"
            /\ \E e \in SpliceHere(Content(c)[i]) : d = <<"seq", [Content(c) EXCEPT ![i] = e]>>
      BY <2>3 DEF InOneChild
    <3>2. Content(c)[i] \in Node1
      BY <2>1 DEF Over, Content
    <3> QED
      BY <1>1, <2>1, <3>1, <3>2, SwappedIsTree
  <2> QED
    BY <2>2, <2>3, InnerNodes DEF SpliceBelow
<1>3. t \in Over(Node2) /\ Surplus \in Node2
  BY InnerNodes, AddedNodes DEF Node3
<1>4. CASE u \in SpliceHere(t)
  BY <1>3, <1>4, AppendIsTree DEF SpliceHere, HasVersion, Node3
<1>5. CASE u \in InOneChild(t, SpliceBelow)
  <2>1. PICK i \in DOMAIN Content(t) :
          /\ Tag(Content(t)[i]) = "seq"
          /\ \E e \in SpliceBelow(Content(t)[i]) : u = <<"seq", [Content(t) EXCEPT ![i] = e]>>
    BY <1>5 DEF InOneChild
  <2>2. Content(t)[i] \in Node2
    BY <1>3 DEF Over, Content
  <2>3. /\ u \in Over(Node2)
        /\ DOMAIN Content(u) = DOMAIN Content(t)
        /\ \A j \in DOMAIN Content(t) : j # i => Content(u)[j] = Content(t)[j]
    BY <1>2, <1>3, <2>1, <2>2, SwappedIsTree
  <2>4. HasVersion(t) => i # 1
    BY <2>1 DEF HasVersion, Tag
  <2> QED
    BY <2>3, <2>4 DEF HasVersion, Node3
<1> QED
  BY <1>4, <1>5 DEF Spliced

LEMMA BumpedIsWire ==
  ASSUME NEW w \in [tree : Node3, rest : Seq(Byte)], HasVersion(w.tree)
  PROVE  Bumped(w) \in [tree : Node3, rest : Seq(Byte)] /\ HasVersion(Bumped(w).tree)
<1> DEFINE c == Content(w.tree)
           v == <<"int", Content(c[1]) + 1>>
           d == [c EXCEPT ![1] = v]
<1>1. c \in Seq(Node2) /\ 1 \in DOMAIN c /\ c[1] \in {"int"} \X Int
  BY DEF HasVersion, Node3, Over, Content
<1>2. v \in {"int"} \X Int
  BY <1>1 DEF Content
<1>3. v \in Node2
  BY <1>2 DEF Node2, Leaf
<1>4. Bumped(w) = [w EXCEPT !.tree = <<"seq", d>>]
  BY DEF Bumped
<1> HIDE DEF c, v
<1>5. d \in Seq(Node2) /\ 1 \in DOMAIN d /\ d[1] = v
  BY <1>1, <1>3
<1> HIDE DEF d
<1>6. <<"seq", d>> \in Node3 /\ Content(<<"seq", d>>) = d
  BY <1>5 DEF Node3, Over, Content
<1> QED
  BY <1>2, <1>4, <1>5, <1>6 DEF HasVersion

LEMMA RespellingIsWire ==
  ASSUME NEW w, IsWire(w), NEW u \in Respellings(w)
  PROVE  IsWire(u)
<1>1. CASE u = Trailed(w)
  <2>1. w.tree \in Node3 /\ w.rest \in Seq(Byte) /\ w = [tree |-> w.tree, rest |-> w.rest]
    BY DEF IsWire
  <2>2. 255 \in Byte
    BY DEF Byte
  <2> HIDE DEF Byte
  <2>3. Append(w.rest, 255) \in Seq(Byte)
    BY <2>1, <2>2
  <2>4. u = [tree |-> w.tree, rest |-> Append(w.rest, 255)]
    BY <1>1, <2>1 DEF Trailed
  <2> QED
    BY <2>1, <2>3, <2>4 DEF IsWire
<1>2. CASE \E t \in Spliced(w.tree) : u = [w EXCEPT !.tree = t]
  BY <1>2, SplicedIsTree DEF IsWire
<1>3. CASE kind \in Versioned /\ u = Bumped(w)
  BY <1>3, BumpedIsWire DEF IsWire
<1> QED
  BY <1>1, <1>2, <1>3 DEF Respellings

LEMMA EncodingIsWire ==
  ASSUME kind \in Kinds, NEW v, IsStruct(Schemas[kind], v, Int)
  PROVE  IsWire(marshal(Schemas[kind], v))
BY EncodingIsTree, EncodingHasVersion, SchemasAreGood DEF IsWire, marshal

LEMMA NewerWireIs ==
  ASSUME kind \in Versioned, NEW v, IsValue(kind, v), NEW w \in NewerWires(v)
  PROVE  IsWire(w) /\ Content(w.tree)[1] = <<"int", 2>>
<1> DEFINE u == [v EXCEPT !.Version = 2]
           t == Encode(Schemas[kind], u)
<1>1. IsStruct(Schemas[kind], u, Int) /\ u.Version = 2 /\ kind \in Kinds
  BY WiderStruct, NewerIsStruct, VersionLeads DEF IsValue
<1> HIDE DEF u
<1>2. t \in Node3 /\ HasVersion(t) /\ Content(t)[1] = <<"int", 2>>
  BY <1>1, EncodingIsTree, EncodingHasVersion, SchemasAreGood
<1>3. w = [tree |-> t, rest |-> <<>>] \/ w = [tree |-> AppendTo(t, <<"oct", <<>>>>), rest |-> <<>>]
  BY DEF NewerWires, u
<1> DEFINE s == AppendTo(t, <<"oct", <<>>>>)
<1>4. s \in Node3 /\ HasVersion(s) /\ Content(s)[1] = <<"int", 2>>
  <2> HIDE DEF t
  <2>1. t \in Over(Node2) /\ <<"oct", <<>>>> \in Node2
    BY <1>2, InnerNodes, AddedNodes DEF Node3
  <2> QED
    BY <1>2, <2>1, AppendIsTree DEF Node3, HasVersion
<1> HIDE DEF s, t
<1>5. PICK x \in {t, s} : w = [tree |-> x, rest |-> <<>>]
  BY <1>3 DEF s
<1>6. x \in Node3 /\ HasVersion(x) /\ Content(x)[1] = <<"int", 2>>
  BY <1>2, <1>4
<1> QED
  BY <1>5, <1>6 DEF IsWire

-----------------------------------------------------------------------------
(* The verdict of Unmarshal on a wire of the net: a value of its Go type that *)
(* passed its checks, or one of the package's errors.                         *)
LEMMA VerdictOfUnmarshal ==
  ASSUME kind \in Kinds, NEW w, IsWire(w)
  PROVE  LET d == Unmarshal(kind, w)
         IN  /\ d.err # "ok" => d.err \in Errors
             /\ d.err = "ok" => /\ d = Acceptance(d.value)
                               /\ IsValue(kind, d.value)
                               /\ Check(kind, d.value) = "ok"
                               /\ w = marshal(Schemas[kind], d.value)
<1> DEFINE S == Schemas[kind]
           r == unmarshal(S, w)
           d == Unmarshal(kind, w)
<1>1. d = IF r.err # "ok" THEN r
          ELSE IF Check(kind, r.value) # "ok" THEN Refusal(Check(kind, r.value)) ELSE r
  BY UnmarshalIs
<1>2. r.err # "ok" => r.err \in Errors
  BY DEF unmarshal, Refusal, Acceptance, Errors
<1>3. r.err = "ok" => /\ r = Acceptance(r.value)
                      /\ IsValue(kind, r.value)
                      /\ w = marshal(S, r.value)
  <2> SUFFICES ASSUME r.err = "ok"
               PROVE  r = Acceptance(r.value) /\ IsValue(kind, r.value) /\ w = marshal(S, r.value)
    OBVIOUS
  <2>1. /\ Parses(S, w.tree)
        /\ r = Acceptance(StructValue(S, w.tree))
        /\ w = marshal(S, StructValue(S, w.tree))
    BY AcceptedIsCanonical
  <2>2. IsStruct(S, StructValue(S, w.tree), Int64)
    BY <2>1, ParsedIsTyped, SchemasAreGood DEF IsWire
  <2> QED
    BY <2>1, <2>2 DEF Acceptance, IsValue
<1> HIDE DEF r, d
<1>4. CASE r.err # "ok"
  BY <1>1, <1>2, <1>4 DEF d
<1>5. CASE r.err = "ok" /\ Check(kind, r.value) # "ok"
  <2>1. d = Refusal(Check(kind, r.value)) /\ Check(kind, r.value) \in Errors
    BY <1>1, <1>3, <1>5, CheckIs
  <2> QED
    BY <1>5, <2>1 DEF d, Refusal
<1>6. CASE r.err = "ok" /\ Check(kind, r.value) = "ok"
  <2>1. d = r
    BY <1>1, <1>6
  <2> QED
    BY <1>3, <1>6, <2>1 DEF d
<1> QED
  BY <1>4, <1>5, <1>6

(* The ceiling on lengths adds refusals, and no other verdict. *)
LEMMA VerdictOfRead ==
  ASSUME kind \in Kinds, NEW w, IsWire(w)
  PROVE  LET d == Read(w)
         IN  /\ d.err # "ok" => d.err \in Errors
             /\ d.err = "ok" => /\ d = Acceptance(d.value)
                               /\ IsValue(kind, d.value)
                               /\ Check(kind, d.value) = "ok"
                               /\ w = marshal(Schemas[kind], d.value)
<1>1. CASE Within(w, GoCeiling)
  BY <1>1, VerdictOfUnmarshal DEF Read
<1>2. CASE ~Within(w, GoCeiling)
  BY <1>2 DEF Read, Refusal, Errors
<1> QED
  BY <1>1, <1>2

(* What Marshal returns for a value is a wire of the net's kind, and an emission. *)
LEMMA EmissionIs ==
  ASSUME kind \in Kinds, NEW v, IsValue(kind, v), Marshal(kind, v).err = "ok"
  PROVE  IsWire(Marshal(kind, v).wire) /\ Emission(Marshal(kind, v).wire)
<1>1. Marshal(kind, v) = [err |-> "ok", wire |-> marshal(Schemas[kind], v)]
  BY MarshalIs DEF Refusal
<1>2. IsStruct(Schemas[kind], v, Int)
  BY WiderStruct DEF IsValue
<1>3. StructValue(Schemas[kind], marshal(Schemas[kind], v).tree) = v
  BY RoundTrip, SchemasAreGood DEF IsValue, marshal
<1> QED
  BY <1>1, <1>2, <1>3, EncodingIsWire DEF Emission

-----------------------------------------------------------------------------
(* Every step keeps the inductive invariant. *)
LEMMA InitHolds == Init => IInv
BY DEF Init, IInv

LEMMA StepHolds == IInv /\ [Next]_vars => IInv'
<1> SUFFICES ASSUME IInv, [Next]_vars PROVE IInv'
  OBVIOUS
<1> USE DEF IInv
<1>1. kind \in Kinds
  BY ExchangeAssumption
<1>2. ASSUME NEW v \in Values[kind], Emit(v) PROVE IInv'
  <2>1. IsValue(kind, v)
    BY ExchangeAssumption
  <2>2. IsWire(Marshal(kind, v).wire) /\ Emission(Marshal(kind, v).wire)
    BY <1>1, <1>2, <2>1, EmissionIs DEF Emit
  <2> QED
    BY <1>2, <2>2 DEF Emit, IsWire, Emission, Read
<1>3. ASSUME NEW v \in Values[kind], EmitNewer(v) PROVE IInv'
  <2>1. IsValue(kind, v) /\ kind \in Versioned
    BY <1>3, ExchangeAssumption DEF EmitNewer
  <2>2. PICK w \in NewerWires(v) : net' = net \union {w} /\ newer' = newer \union {w}
    BY <1>3 DEF EmitNewer
  <2>3. IsWire(w) /\ Content(w.tree)[1] = <<"int", 2>>
    BY <2>1, NewerWireIs
  <2> QED
    BY <1>3, <2>1, <2>2, <2>3 DEF EmitNewer, IsWire, Emission, Read
<1>4. ASSUME NEW v \in Foreign[kind], EmitForeign(v) PROVE IInv'
  <2>1. IsWire(marshal(Schemas[kind], v))
    BY <1>1, EncodingIsWire, ExchangeAssumption
  <2> QED
    BY <1>4, <2>1 DEF EmitForeign, IsWire, Emission, Read
<1>5. ASSUME NEW w \in net, Respell(w) PROVE IInv'
  <2>1. PICK u \in Respellings(w) : net' = net \union {u}
    BY <1>5 DEF Respell
  <2>2. IsWire(u)
    BY <2>1, RespellingIsWire
  <2> QED
    BY <1>5, <2>1, <2>2 DEF Respell, IsWire, Emission, Read
<1>6. ASSUME NEW w \in net, Accept(w) PROVE IInv'
  <2>1. Read(w) = Acceptance(Read(w).value)
    BY <1>1, <1>6, VerdictOfRead DEF Accept
  <2> DEFINE a == [value |-> Read(w).value, wire |-> w]
  <2>2. a.wire \in net /\ Read(a.wire) = Acceptance(a.value)
    BY <2>1
  <2>3. accepted' = accepted \union {a} /\ UNCHANGED <<kind, net, emitted, newer, refused>>
    BY <1>6 DEF Accept
  <2> HIDE DEF a
  <2> QED
    BY <2>2, <2>3 DEF IsWire, Emission, Read
<1>7. ASSUME NEW w \in net, Refuse(w) PROVE IInv'
  <2> DEFINE r == [wire |-> w, err |-> Read(w).err]
  <2>1. r.wire \in net /\ r.err = Read(r.wire).err /\ r.err # "ok"
    BY <1>7 DEF Refuse
  <2>2. refused' = refused \union {r} /\ UNCHANGED <<kind, net, emitted, newer, accepted>>
    BY <1>7 DEF Refuse
  <2> HIDE DEF r
  <2> QED
    BY <2>1, <2>2 DEF IsWire, Emission, Read
<1>8. ASSUME NEW a \in accepted, Relay(a) PROVE IInv'
  <2>1. IsWire(a.wire) /\ Read(a.wire) = Acceptance(a.value)
    OBVIOUS
  <2>2. IsValue(kind, a.value)
    BY <1>1, <2>1, VerdictOfRead DEF Acceptance
  <2>3. IsWire(Marshal(kind, a.value).wire) /\ Emission(Marshal(kind, a.value).wire)
    BY <1>1, <1>8, <2>2, EmissionIs DEF Relay
  <2> QED
    BY <1>8, <2>3 DEF Relay, IsWire, Emission, Read
<1>9. CASE UNCHANGED vars
  BY <1>9 DEF vars, IsWire, Emission, Read
<1> QED
  BY <1>2, <1>3, <1>4, <1>5, <1>6, <1>7, <1>8, <1>9 DEF Next

LEMMA InductiveInvariant == Spec => []IInv
BY InitHolds, StepHolds, PTL DEF Spec

-----------------------------------------------------------------------------
(* What a reader holds is a value that passed the checks of its kind, and its *)
(* wire is the encoding of that value.                                        *)
LEMMA AcceptedIs ==
  ASSUME IInv, NEW a \in accepted
  PROVE  /\ kind \in Kinds
         /\ IsValue(kind, a.value)
         /\ Check(kind, a.value) = "ok"
         /\ a.wire = marshal(Schemas[kind], a.value)
<1>1. kind \in Kinds /\ IsWire(a.wire) /\ Read(a.wire) = Acceptance(a.value)
  BY ExchangeAssumption DEF IInv
<1> QED
  BY <1>1, VerdictOfRead DEF Acceptance

(* Every history holds wires of the net, typed values and errors of the package. *)
THEOREM TypeCorrect == Spec => []TypeOK
<1>1. IInv => TypeOK
  <2> SUFFICES ASSUME IInv PROVE TypeOK
    OBVIOUS
  <2>1. kind \in Kinds
    BY ExchangeAssumption DEF IInv
  <2>2. \A a \in accepted : a.wire \in net /\ IsValue(kind, a.value)
    BY AcceptedIs DEF IInv
  <2>3. \A r \in refused : r.wire \in net /\ r.err \in Errors
    BY <2>1, VerdictOfRead DEF IInv
  <2> QED
    BY <2>2, <2>3 DEF IInv, TypeOK
<1> QED
  BY <1>1, InductiveInvariant, PTL

(* No reader holds a value under bytes that Marshal would not return for it. *)
THEOREM AcceptedIsAlwaysEmission == Spec => []AcceptedIsEmission
<1>1. IInv => AcceptedIsEmission
  BY AcceptedIs, MarshalIs DEF AcceptedIsEmission
<1> QED
  BY <1>1, InductiveInvariant, PTL

(* No reader refuses bytes that Marshal returned and encoding/asn1 can read. *)
THEOREM EmissionIsAlwaysAccepted == Spec => []EmissionIsAccepted
<1>1. IInv => EmissionIsAccepted
  <2> SUFFICES ASSUME IInv, NEW r \in refused, r.wire \in emitted,
                      Within(r.wire, GoCeiling)
               PROVE  FALSE
    BY DEF EmissionIsAccepted
  <2>1. kind \in Kinds /\ Emission(r.wire) /\ Unmarshal(kind, r.wire).err # "ok"
    BY ExchangeAssumption DEF IInv, Read
  <2> DEFINE v == StructValue(Schemas[kind], r.wire.tree)
  <2>2. IsValue(kind, v) /\ Marshal(kind, v).err = "ok" /\ Marshal(kind, v).wire = r.wire
    BY <2>1 DEF Emission
  <2> HIDE DEF v
  <2>3. Unmarshal(kind, r.wire) = Acceptance(v)
    BY <2>1, <2>2, EmittedIsAccepted
  <2> QED
    BY <2>1, <2>3 DEF Acceptance
<1> QED
  BY <1>1, InductiveInvariant, PTL

(* No reader accepts what a later release emitted. *)
THEOREM NewerIsAlwaysRefused == Spec => []NewerIsRefused
<1>1. IInv => NewerIsRefused
  <2> SUFFICES ASSUME IInv, NEW a \in accepted, a.wire \in newer PROVE FALSE
    BY DEF NewerIsRefused
  <2>1. kind \in Versioned /\ Content(a.wire.tree)[1] = <<"int", 2>>
    BY DEF IInv
  <2>2. IsStruct(Schemas[kind], a.value, Int) /\ a.value.Version = 1
    BY <2>1, AcceptedIs, CheckIs, WiderStruct DEF IsValue, VersionV1
  <2>3. a.wire.tree = Encode(Schemas[kind], a.value)
    <3>1. a.wire = marshal(Schemas[kind], a.value)
      BY AcceptedIs
    <3> QED
      BY <3>1 DEF marshal
  <2>4. Content(a.wire.tree)[1] = <<"int", 1>>
    BY <2>1, <2>2, <2>3, EncodingHasVersion
  <2> QED
    BY <2>1, <2>4
<1> QED
  BY <1>1, InductiveInvariant, PTL

-----------------------------------------------------------------------------
(* The lists that passed the checks ascend, each by its own key. *)
LEMMA SigsAscend ==
  ASSUME IInv, NEW a \in accepted, kind = "CommitCertificateV1"
  PROVE  LET sigs == a.value.Sigs
         IN  /\ IsSequence(sigs) /\ \A i \in DOMAIN sigs : sigs[i].Signer \in Int
             /\ \A i, j \in DOMAIN sigs : i < j => sigs[i].Signer < sigs[j].Signer
<1>1. IsSequence(a.value.Sigs) /\ \A i \in DOMAIN a.value.Sigs : a.value.Sigs[i].Signer \in Int
  BY AcceptedIs, SigsAreTyped
<1>2. checkCommitCertificateV1(a.value) = "ok"
  BY AcceptedIs DEF Check
<1> QED
  BY <1>1, <1>2, CertificateAscends

LEMMA MembersAscend ==
  ASSUME IInv, NEW a \in accepted, kind = "GenesisV1"
  PROVE  LET members == a.value.Members
         IN  /\ IsSequence(members) /\ \A i \in DOMAIN members : members[i].NodeID \in Int
             /\ \A i, j \in DOMAIN members : i < j => members[i].NodeID < members[j].NodeID
<1> DEFINE members == a.value.Members
           K == [i \in DOMAIN members |-> members[i].NodeID]
<1>1. IsSequence(members) /\ \A i \in DOMAIN members : members[i].NodeID \in Int
  BY AcceptedIs, MembersAreTyped
<1>2. \A i \in DOMAIN members : MemberErr(a.value, i) = "ok"
  BY <1>1, AcceptedIs, GenesisCheckIs DEF Check
<1>3. \A i \in DOMAIN members : ~(i > 1 /\ members[i].NodeID <= members[i - 1].NodeID)
  BY <1>2, MemberErrIs
<1> HIDE DEF members
<1>4. Len(members) \in Nat /\ DOMAIN members = 1 .. Len(members)
  BY <1>1 DEF IsSequence
<1>5. \A i \in 1 .. Len(members) : ~(i > 1 /\ K[i] <= K[i - 1])
  <2> SUFFICES ASSUME NEW i \in 1 .. Len(members), i > 1 PROVE ~(K[i] <= K[i - 1])
    OBVIOUS
  <2>1. i \in DOMAIN members /\ i - 1 \in DOMAIN members
    BY <1>4
  <2>2. K[i] = members[i].NodeID /\ K[i - 1] = members[i - 1].NodeID
    BY <2>1
  <2> QED
    BY <1>3, <2>1, <2>2
<1>6. \A i \in 1 .. Len(members) : K[i] \in Int
  BY <1>1, <1>4
<1>7. \A i, j \in 1 .. Len(members) : i < j => K[i] < K[j]
  <2> HIDE DEF K
  <2> QED
    BY <1>4, <1>5, <1>6, Ascending
<1> QED
  BY <1>1, <1>4, <1>7 DEF members

(* No signer and no node counts twice in what a reader holds. *)
THEOREM EntriesAreAlwaysDistinct == Spec => []EntriesAreDistinct
<1>1. IInv => EntriesAreDistinct
  <2> SUFFICES ASSUME IInv, NEW a \in accepted
               PROVE  /\ kind = "CommitCertificateV1" =>
                           \A i, j \in DOMAIN a.value.Sigs :
                             a.value.Sigs[i].Signer = a.value.Sigs[j].Signer => i = j
                      /\ kind = "GenesisV1" =>
                           \A i, j \in DOMAIN a.value.Members :
                             a.value.Members[i].NodeID = a.value.Members[j].NodeID => i = j
    BY DEF EntriesAreDistinct
  <2>1. CASE kind = "CommitCertificateV1"
    <3>1. IsSequence(a.value.Sigs)
      BY <2>1, SigsAscend
    <3>2. \A i \in DOMAIN a.value.Sigs : i \in Int
      BY <3>1 DEF IsSequence
    <3> QED
      BY <2>1, <3>2, SigsAscend
  <2>2. CASE kind = "GenesisV1"
    <3>1. IsSequence(a.value.Members)
      BY <2>2, MembersAscend
    <3>2. \A i \in DOMAIN a.value.Members : i \in Int
      BY <3>1 DEF IsSequence
    <3> QED
      BY <2>2, <3>2, MembersAscend
  <2> QED
    BY <2>1, <2>2
<1> QED
  BY <1>1, InductiveInvariant, PTL

(* Two readers that mean the same thing saw the same bytes. *)
THEOREM OneSpellingAlways == Spec => []OneSpelling
<1>1. IInv => OneSpelling
  <2> SUFFICES ASSUME IInv, NEW a \in accepted, NEW b \in accepted,
                      Meaning(a.value) = Meaning(b.value)
               PROVE  a.wire = b.wire
    BY DEF OneSpelling
  <2>1. CASE kind = "CommitCertificateV1"
    <3> DEFINE s == a.value.Sigs
               t == b.value.Sigs
               entries == {s[i] : i \in DOMAIN s}
               key == [e \in entries |-> e.Signer]
    <3>1. /\ a.value.ProposalDigest = b.value.ProposalDigest
          /\ a.value.View = b.value.View /\ a.value.Seq = b.value.Seq
          /\ entries = {t[i] : i \in DOMAIN t}
      BY <2>1 DEF Meaning
    <3>2. /\ IsSequence(s) /\ \A i \in DOMAIN s : s[i].Signer \in Int
          /\ \A i, j \in DOMAIN s : i < j => s[i].Signer < s[j].Signer
      BY <2>1, SigsAscend
    <3>3. /\ IsSequence(t) /\ \A i \in DOMAIN t : t[i].Signer \in Int
          /\ \A i, j \in DOMAIN t : i < j => t[i].Signer < t[j].Signer
      BY <2>1, SigsAscend
    <3> HIDE DEF s, t
    <3>4. /\ \A i \in DOMAIN s : key[s[i]] = s[i].Signer
          /\ \A i \in DOMAIN t : key[t[i]] = t[i].Signer
      BY <3>1
    <3> HIDE DEF key
    <3>5. s = t
      <4>1. {s[i] : i \in DOMAIN s} = {t[i] : i \in DOMAIN t}
        BY <3>1
      <4>2. /\ \A i \in DOMAIN s : key[s[i]] \in Int
            /\ \A i, j \in DOMAIN s : i < j => key[s[i]] < key[s[j]]
        BY <3>2, <3>4
      <4>3. /\ \A i \in DOMAIN t : key[t[i]] \in Int
            /\ \A i, j \in DOMAIN t : i < j => key[t[i]] < key[t[j]]
        BY <3>3, <3>4
      <4> QED
        BY <3>2, <3>3, <4>1, <4>2, <4>3, OneAscendingList
    <3>6. a.value = b.value
      <4>1. /\ IsValue("CommitCertificateV1", a.value) /\ IsValue("CommitCertificateV1", b.value)
            /\ a.value.Version = 1 /\ b.value.Version = 1
        BY <2>1, AcceptedIs, CheckIs DEF VersionV1, Versioned, VersionExempt
      <4>2. Names(CommitCertificateV1Fields) = {"Version", "ProposalDigest", "View", "Seq", "Sigs"}
        BY DEF Names, CommitCertificateV1Fields, IntField, OctField, ListField
      <4> QED
        BY <3>1, <3>5, <4>1, <4>2 DEF s, t, IsValue, IsStruct, Schemas
    <3> QED
      BY <3>6, AcceptedIs
  <2>2. CASE kind = "GenesisV1"
    <3> DEFINE s == a.value.Members
               t == b.value.Members
               entries == {s[i] : i \in DOMAIN s}
               key == [e \in entries |-> e.NodeID]
    <3>1. /\ a.value.TrustDomain = b.value.TrustDomain
          /\ a.value.CARoot = b.value.CARoot /\ a.value.MaxNodes = b.value.MaxNodes
          /\ entries = {t[i] : i \in DOMAIN t}
      BY <2>2 DEF Meaning
    <3>2. /\ IsSequence(s) /\ \A i \in DOMAIN s : s[i].NodeID \in Int
          /\ \A i, j \in DOMAIN s : i < j => s[i].NodeID < s[j].NodeID
      BY <2>2, MembersAscend
    <3>3. /\ IsSequence(t) /\ \A i \in DOMAIN t : t[i].NodeID \in Int
          /\ \A i, j \in DOMAIN t : i < j => t[i].NodeID < t[j].NodeID
      BY <2>2, MembersAscend
    <3> HIDE DEF s, t
    <3>4. /\ \A i \in DOMAIN s : key[s[i]] = s[i].NodeID
          /\ \A i \in DOMAIN t : key[t[i]] = t[i].NodeID
      BY <3>1
    <3> HIDE DEF key
    <3>5. s = t
      <4>1. {s[i] : i \in DOMAIN s} = {t[i] : i \in DOMAIN t}
        BY <3>1
      <4>2. /\ \A i \in DOMAIN s : key[s[i]] \in Int
            /\ \A i, j \in DOMAIN s : i < j => key[s[i]] < key[s[j]]
        BY <3>2, <3>4
      <4>3. /\ \A i \in DOMAIN t : key[t[i]] \in Int
            /\ \A i, j \in DOMAIN t : i < j => key[t[i]] < key[t[j]]
        BY <3>3, <3>4
      <4> QED
        BY <3>2, <3>3, <4>1, <4>2, <4>3, OneAscendingList
    <3>6. a.value = b.value
      <4>1. /\ IsValue("GenesisV1", a.value) /\ IsValue("GenesisV1", b.value)
            /\ a.value.Version = 1 /\ b.value.Version = 1
        BY <2>2, AcceptedIs, CheckIs DEF VersionV1, Versioned, VersionExempt
      <4>2. Names(GenesisV1Fields) = {"Version", "TrustDomain", "CARoot", "MaxNodes", "Members"}
        BY DEF Names, GenesisV1Fields, IntField, OctField, ListField
      <4> QED
        BY <3>1, <3>5, <4>1, <4>2 DEF s, t, IsValue, IsStruct, Schemas
    <3> QED
      BY <3>6, AcceptedIs
  <2>3. CASE kind \notin {"CommitCertificateV1", "GenesisV1"}
    BY <2>3, AcceptedIs DEF Meaning
  <2> QED
    BY <2>1, <2>2, <2>3
<1> QED
  BY <1>1, InductiveInvariant, PTL
-----------------------------------------------------------------------------
(***************************************************************************)
(* Decoding.  A tree with one element of the right type for each field is  *)
(* the encoding of the value read from it: what Python asks of a tree by   *)
(* counting is what Go asks by encoding again.                             *)
(***************************************************************************)
LEMMA Pairs ==
  /\ \A t \in Node2 : t = <<Tag(t), Content(t)>>
  /\ \A t \in Node2 : Tag(t) = "seq" => Content(t) \in Seq(Node1)
  /\ \A t \in Node1 : t = <<Tag(t), Content(t)>>
  /\ \A t \in Node1 : Tag(t) = "seq" => t \in Node2
<1> USE DEF Tag, Content, Leaf, Over
<1>1. \A t \in Node2 : t = <<Tag(t), Content(t)>>
  BY DEF Node2
<1>2. \A t \in Node2 : Tag(t) = "seq" => Content(t) \in Seq(Node1)
  BY DEF Node2
<1>3. \A t \in Node1 : t = <<Tag(t), Content(t)>>
  BY DEF Node1
<1>4. \A t \in Node1 : Tag(t) = "seq" => t \in Node2
  <2> SUFFICES ASSUME NEW t \in Node1, Tag(t) = "seq" PROVE t \in Node2
    OBVIOUS
  <2>1. t \in Over(Leaf)
    BY InnerNodes
  <2>2. Leaf \subseteq Node1
    BY InnerNodes
  <2> QED
    BY <2>1, <2>2 DEF Node2
<1> QED
  BY <1>1, <1>2, <1>3, <1>4

LEMMA RowIsEncoding ==
  ASSUME NEW S, FlatSchema(S), NEW t \in Node2, FitsRow(S, t)
  PROVE  EncodeRow(S, RowValue(S, t)) = t
<1> DEFINE c == Content(t)
           v == RowValue(S, t)
<1>1. t = <<"seq", c>> /\ c \in Seq(Node1) /\ DOMAIN c = DOMAIN S
  BY Pairs DEF FitsRow
<1>2. \A i \in DOMAIN S : c[i] \in Node1 /\ c[i] = <<Tag(c[i]), Content(c[i])>> /\ Tag(c[i]) = S[i].type
  BY <1>1, Pairs DEF FitsRow
<1>3. \A i \in DOMAIN S : v[S[i].name] = Content(c[i])
  <2> TAKE i \in DOMAIN S
  <2>1. S[i].name \in Names(S) /\ Place(S, S[i].name) = i
    BY PlaceOfName DEF FlatSchema, Names
  <2> QED
    BY <2>1 DEF RowValue
<1> HIDE DEF c, v
<1>4. \A i \in DOMAIN S : <<S[i].type, v[S[i].name]>> = c[i]
  BY <1>2, <1>3
<1>5. [i \in DOMAIN S |-> <<S[i].type, v[S[i].name]>>] = c
  <2>1. c = [i \in DOMAIN S |-> c[i]]
    BY <1>1
  <2> QED
    BY <1>4, <2>1
<1> QED
  BY <1>1, <1>5 DEF EncodeRow, v

LEMMA FieldIsEncoding ==
  ASSUME NEW f, f.type \in {"int", "oct"} \/ (f.type = "list" /\ FlatSchema(f.elem)),
         NEW t \in Node2, FitsField(f, t)
  PROVE  EncodeField(f, FieldValue(f, t)) = t
<1>1. CASE f.type = "list"
  <2> DEFINE c == Content(t)
             x == FieldValue(f, t)
  <2>1. t = <<"seq", c>> /\ c \in Seq(Node1) /\ \A j \in DOMAIN c : FitsRow(f.elem, c[j])
    BY <1>1, Pairs DEF FitsField
  <2>2. \A j \in DOMAIN c : c[j] \in Node2
    BY <2>1, Pairs DEF FitsRow
  <2>3. x = [j \in DOMAIN c |-> RowValue(f.elem, c[j])]
    BY <1>1 DEF FieldValue
  <2> HIDE DEF c, x
  <2>4. \A j \in DOMAIN c : EncodeRow(f.elem, RowValue(f.elem, c[j])) = c[j]
    BY <1>1, <2>1, <2>2, RowIsEncoding
  <2>5. [j \in DOMAIN x |-> EncodeRow(f.elem, x[j])] = c
    <3>1. DOMAIN x = DOMAIN c /\ \A j \in DOMAIN c : EncodeRow(f.elem, x[j]) = c[j]
      BY <2>3, <2>4
    <3>2. c = [j \in DOMAIN c |-> c[j]]
      BY <2>1
    <3> QED
      BY <3>1, <3>2
  <2> QED
    BY <1>1, <2>1, <2>5 DEF EncodeField, x
<1>2. CASE f.type \in {"int", "oct"}
  BY <1>2, Pairs DEF FitsField, EncodeField, FieldValue
<1> QED
  BY <1>1, <1>2

LEMMA TreeIsEncoding ==
  ASSUME NEW S, GoodSchema(S), NEW t \in Node3, Fits(S, t)
  PROVE  Encode(S, StructValue(S, t)) = t
<1> DEFINE c == Content(t)
           v == StructValue(S, t)
<1>1. t = <<"seq", c>> /\ c \in Seq(Node2) /\ DOMAIN c = DOMAIN S
  BY DEF Fits, Node3, Over, Tag, Content
<1>2. \A i \in DOMAIN S : c[i] \in Node2 /\ FitsField(S[i], c[i])
  BY <1>1 DEF Fits
<1>3. \A i \in DOMAIN S : v[S[i].name] = FieldValue(S[i], c[i])
  <2> TAKE i \in DOMAIN S
  <2>1. S[i].name \in Names(S) /\ Place(S, S[i].name) = i
    BY PlaceOfName DEF GoodSchema, Names
  <2> QED
    BY <2>1 DEF StructValue
<1> HIDE DEF c, v
<1>4. \A i \in DOMAIN S : EncodeField(S[i], v[S[i].name]) = c[i]
  <2> TAKE i \in DOMAIN S
  <2>1. S[i].type \in {"int", "oct"} \/ (S[i].type = "list" /\ FlatSchema(S[i].elem))
    BY DEF GoodSchema
  <2> QED
    BY <1>2, <1>3, <2>1, FieldIsEncoding
<1>5. [i \in DOMAIN S |-> EncodeField(S[i], v[S[i].name])] = c
  <2>1. c = [i \in DOMAIN S |-> c[i]]
    BY <1>1
  <2> QED
    BY <1>4, <2>1
<1> QED
  BY <1>1, <1>5 DEF Encode, v

(* And an encoding has one element of the right type for each field. *)
LEMMA EncodingFits ==
  ASSUME NEW S, NEW v
  PROVE  Fits(S, Encode(S, v))
<1>1. ASSUME NEW T, NEW x PROVE FitsRow(T, EncodeRow(T, x))
  <2> DEFINE e(i) == <<T[i].type, x[T[i].name]>>
             c == [i \in DOMAIN T |-> e(i)]
  <2>1. \A i \in DOMAIN T : Tag(e(i)) = T[i].type
    BY DEF Tag
  <2> HIDE DEF e
  <2>2. Tag(<<"seq", c>>) = "seq" /\ Content(<<"seq", c>>) = c
    BY DEF Tag, Content
  <2>3. DOMAIN c = DOMAIN T /\ \A i \in DOMAIN T : Tag(c[i]) = T[i].type
    BY <2>1
  <2> HIDE DEF c
  <2>4. FitsRow(T, <<"seq", c>>)
    BY <2>2, <2>3 DEF FitsRow
  <2> QED
    BY <2>4 DEF EncodeRow, c, e
<1>2. ASSUME NEW f, NEW x PROVE FitsField(f, EncodeField(f, x))
  <2>1. CASE f.type = "list"
    <3> DEFINE e(j) == EncodeRow(f.elem, x[j])
               c == [j \in DOMAIN x |-> e(j)]
    <3>1. \A j \in DOMAIN x : FitsRow(f.elem, e(j))
      BY <1>1
    <3> HIDE DEF e
    <3>2. Tag(<<"seq", c>>) = "seq" /\ Content(<<"seq", c>>) = c
      BY DEF Tag, Content
    <3>3. \A j \in DOMAIN c : FitsRow(f.elem, c[j])
      BY <3>1
    <3> HIDE DEF c
    <3>4. FitsField(f, <<"seq", c>>)
      BY <2>1, <3>2, <3>3 DEF FitsField
    <3> QED
      BY <2>1, <3>4 DEF EncodeField, c, e
  <2>2. CASE f.type # "list"
    BY <2>2 DEF FitsField, EncodeField, Tag
  <2> QED
    BY <2>1, <2>2
<1> DEFINE e(i) == EncodeField(S[i], v[S[i].name])
           c == [i \in DOMAIN S |-> e(i)]
<1>3. \A i \in DOMAIN S : FitsField(S[i], e(i))
  BY <1>2
<1> HIDE DEF e
<1>4. Tag(<<"seq", c>>) = "seq" /\ Content(<<"seq", c>>) = c
  BY DEF Tag, Content
<1>5. DOMAIN c = DOMAIN S /\ \A i \in DOMAIN S : FitsField(S[i], c[i])
  BY <1>3
<1> HIDE DEF c
<1>6. Fits(S, <<"seq", c>>)
  BY <1>4, <1>5 DEF Fits
<1> QED
  BY <1>6 DEF Encode, c, e

(* unmarshal of asn1.go and decode_struct of verify_vectors.py read the same *)
(* wires, as the same values, but for INTEGERs that int64 does not hold.     *)
THEOREM DecodersAgree ==
  ASSUME NEW S, GoodSchema(S), NEW w \in [tree : Node3, rest : Seq(Byte)]
  PROVE  unmarshal(S, w).err = "ok"
           <=> /\ w.rest = <<>> /\ Fits(S, w.tree)
               /\ IsStruct(S, StructValue(S, w.tree), Int64)
<1> DEFINE v == StructValue(S, w.tree)
<1>1. ASSUME unmarshal(S, w).err = "ok"
      PROVE  w.rest = <<>> /\ Fits(S, w.tree) /\ IsStruct(S, v, Int64)
  <2>1. Parses(S, w.tree) /\ w = marshal(S, v)
    BY <1>1, AcceptedIsCanonical
  <2>2. w.rest = <<>> /\ w.tree = Encode(S, v)
    BY <2>1 DEF marshal
  <2> QED
    BY <2>1, <2>2, EncodingFits, ParsedIsTyped
<1>2. ASSUME w.rest = <<>>, Fits(S, w.tree), IsStruct(S, v, Int64)
      PROVE  unmarshal(S, w).err = "ok"
  <2>1. w = marshal(S, v)
    BY <1>2, TreeIsEncoding DEF marshal
  <2> HIDE DEF v
  <2>2. unmarshal(S, w) = Acceptance(v)
    BY <1>2, <2>1, UnmarshalOfMarshal
  <2> QED
    BY <2>2 DEF Acceptance
<1> QED
  BY <1>1, <1>2

-----------------------------------------------------------------------------
(***************************************************************************)
(* Constraints.  The checks of each structure and what holds of it in      *)
(* verify_vectors.py, on values of the Go types.                           *)
(***************************************************************************)
LEMMA FieldIsTyped ==
  ASSUME NEW k \in Kinds, NEW v, IsValue(k, v), NEW i \in DOMAIN Schemas[k]
  PROVE  IsField(Schemas[k][i], v[Schemas[k][i].name], Int64)
BY DEF IsValue, IsStruct

LEMMA Int64IsInt == Int64 \subseteq Int
BY IntAssumption DEF Int64

LEMMA NoOctets == ASSUME NEW s \in Seq(Byte) PROVE Len(s) = 0 <=> s = <<>>
<1> HIDE DEF Byte
<1> QED
  BY EmptySeq

LEMMA HeaderAgrees ==
  ASSUME NEW v
  PROVE  UnmarshalHeaderCheck(v) = "ok" <=> v.Version = VersionV1 /\ HeaderHolds(v)
BY HeaderCheckIs DEF HeaderHolds

LEMMA SignedAgrees ==
  ASSUME NEW v
  PROVE  checkSignedV1(v) = "ok" <=> v.Version = VersionV1 /\ SignedHolds(v)
BY SignedCheckIs DEF SignedHolds, ValidPurpose

LEMMA CommitPayloadAgrees ==
  ASSUME NEW v
  PROVE  checkCommitPayloadV1(v) = "ok" <=> v.Version = VersionV1 /\ CommitPayloadHolds(v)
BY CommitPayloadCheckIs DEF CommitPayloadHolds

LEMMA BlobAgrees ==
  ASSUME NEW v, IsValue("SignedBlobV1", v)
  PROVE  checkSignedBlobV1(v) = "ok" <=> v.Version = VersionV1 /\ BlobHolds(v)
<1>1. "SignedBlobV1" \in Kinds /\ 3 \in DOMAIN Schemas["SignedBlobV1"]
        /\ Schemas["SignedBlobV1"][3] = OctField("Payload")
  BY KindList DEF Schemas, SignedBlobV1Fields
<1>2. IsField(OctField("Payload"), v["Payload"], Int64)
  <2>1. OctField("Payload").name = "Payload"
    BY DEF OctField
  <2> QED
    BY <1>1, <2>1, FieldIsTyped
<1>3. v.Payload \in Seq(Byte)
  BY <1>2 DEF IsField, IsScalar, OctField
<1> QED
  BY <1>3, BlobCheckIs, NoOctets DEF BlobHolds, ValidPurpose

LEMMA ReadIndexAgrees ==
  ASSUME NEW v, IsValue("ReadIndexV1", v)
  PROVE  checkReadIndexV1(v) = "ok" <=> v.Version = VersionV1 /\ ReadIndexHolds(v)
<1> DEFINE S == ReadIndexV1Fields
<1>1. {2, 3, 4} \subseteq DOMAIN S
      /\ S[2] = IntField("SignerID") /\ S[3] = IntField("View") /\ S[4] = IntField("Seq")
  BY DEF ReadIndexV1Fields
<1>2. \A i \in DOMAIN S : IsField(S[i], v[S[i].name], Int64)
  BY DEF IsValue, IsStruct, Schemas
<1> HIDE DEF S
<1>3. /\ IsField(IntField("SignerID"), v["SignerID"], Int64)
      /\ IsField(IntField("View"), v["View"], Int64)
      /\ IsField(IntField("Seq"), v["Seq"], Int64)
  BY <1>1, <1>2 DEF IntField
<1>4. v.SignerID \in Int /\ v.View \in Int /\ v.Seq \in Int
  BY <1>3, Int64IsInt DEF IsField, IsScalar, IntField
<1>5. /\ ~(v.SignerID <= 0) <=> v.SignerID > 0
      /\ ~(v.View < 0 \/ v.Seq < 0) <=> v.View >= 0 /\ v.Seq >= 0
  BY <1>4
<1> QED
  BY <1>5, ReadIndexCheckIs DEF ReadIndexHolds

LEMMA ClientRequestAgrees ==
  ASSUME NEW v, IsValue("ClientRequestV1", v)
  PROVE  checkClientRequestV1(v) = "ok" <=> v.Version = VersionV1 /\ ClientRequestHolds(v)
<1> DEFINE S == ClientRequestV1Fields
<1>1. {2, 3, 5} \subseteq DOMAIN S
      /\ S[2] = OctField("ClientCert") /\ S[3] = ListField("Intermediates", CertificateV1Fields)
      /\ S[5] = IntField("Expiry")
  BY DEF ClientRequestV1Fields
<1>2. \A i \in DOMAIN S : IsField(S[i], v[S[i].name], Int64)
  BY DEF IsValue, IsStruct, Schemas
<1> HIDE DEF S
<1>3. /\ IsField(OctField("ClientCert"), v["ClientCert"], Int64)
      /\ IsField(ListField("Intermediates", CertificateV1Fields), v["Intermediates"], Int64)
      /\ IsField(IntField("Expiry"), v["Expiry"], Int64)
  BY <1>1, <1>2 DEF IntField, OctField, ListField
<1>4. v.ClientCert \in Seq(Byte) /\ v.Expiry \in Int
  BY <1>3, Int64IsInt DEF IsField, IsScalar, IntField, OctField
<1>5. \A i \in DOMAIN v.Intermediates : IsRow(CertificateV1Fields, v.Intermediates[i], Int64)
  BY <1>3 DEF IsField, ListField
<1>6. ASSUME NEW i \in DOMAIN v.Intermediates PROVE v.Intermediates[i].DER \in Seq(Byte)
  <2>1. 1 \in DOMAIN CertificateV1Fields /\ CertificateV1Fields[1] = OctField("DER")
    BY DEF CertificateV1Fields
  <2>2. OctField("DER").type = "oct" /\ OctField("DER").name = "DER"
    BY DEF OctField
  <2> QED
    BY <1>5, <2>1, <2>2 DEF IsRow, IsScalar
<1>7. ~(v.Expiry <= 0) <=> v.Expiry > 0
  BY <1>4
<1>8. /\ Len(v.ClientCert) # 0 <=> v.ClientCert # <<>>
      /\ \A i \in DOMAIN v.Intermediates :
           Len(v.Intermediates[i].DER) # 0 <=> v.Intermediates[i].DER # <<>>
  BY <1>4, <1>6, NoOctets
<1> QED
  BY <1>7, <1>8, IntermediatesAreTyped, ClientRequestCheckIs DEF ClientRequestHolds

(* What a certificate is made of, and a genesis. *)
LEMMA CertificateIsTyped ==
  ASSUME NEW v, IsValue("CommitCertificateV1", v)
  PROVE  /\ v.View \in Int /\ v.Seq \in Int
         /\ \A i \in DOMAIN v.Sigs : v.Sigs[i].Msg \in Seq(Byte)
<1> DEFINE S == CommitCertificateV1Fields
<1>1. {3, 4, 5} \subseteq DOMAIN S
      /\ S[3] = IntField("View") /\ S[4] = IntField("Seq")
      /\ S[5] = ListField("Sigs", SignerSigV0Fields)
  BY DEF CommitCertificateV1Fields
<1>2. \A i \in DOMAIN S : IsField(S[i], v[S[i].name], Int64)
  BY DEF IsValue, IsStruct, Schemas
<1> HIDE DEF S
<1>3. /\ IsField(IntField("View"), v["View"], Int64)
      /\ IsField(IntField("Seq"), v["Seq"], Int64)
      /\ IsField(ListField("Sigs", SignerSigV0Fields), v["Sigs"], Int64)
  BY <1>1, <1>2 DEF IntField, ListField
<1>4. v.View \in Int /\ v.Seq \in Int
  BY <1>3, Int64IsInt DEF IsField, IsScalar, IntField
<1>5. \A i \in DOMAIN v.Sigs : IsRow(SignerSigV0Fields, v.Sigs[i], Int64)
  BY <1>3 DEF IsField, ListField
<1>6. ASSUME NEW i \in DOMAIN v.Sigs PROVE v.Sigs[i].Msg \in Seq(Byte)
  <2>1. 3 \in DOMAIN SignerSigV0Fields /\ SignerSigV0Fields[3] = OctField("Msg")
    BY DEF SignerSigV0Fields
  <2>2. OctField("Msg").type = "oct" /\ OctField("Msg").name = "Msg"
    BY DEF OctField
  <2> QED
    BY <1>5, <2>1, <2>2 DEF IsRow, IsScalar
<1> QED
  BY <1>4, <1>6

LEMMA GenesisIsTyped ==
  ASSUME NEW v, IsValue("GenesisV1", v)
  PROVE  v.TrustDomain \in Seq(Byte) /\ v.MaxNodes \in Int
<1> DEFINE S == GenesisV1Fields
<1>1. {2, 4} \subseteq DOMAIN S /\ S[2] = OctField("TrustDomain") /\ S[4] = IntField("MaxNodes")
  BY DEF GenesisV1Fields
<1>2. \A i \in DOMAIN S : IsField(S[i], v[S[i].name], Int64)
  BY DEF IsValue, IsStruct, Schemas
<1> HIDE DEF S
<1>3. /\ IsField(OctField("TrustDomain"), v["TrustDomain"], Int64)
      /\ IsField(IntField("MaxNodes"), v["MaxNodes"], Int64)
  BY <1>1, <1>2 DEF IntField, OctField
<1> QED
  BY <1>3, Int64IsInt DEF IsField, IsScalar, IntField, OctField

(* A turn of Go's loop compares an element with the one before, and so does *)
(* StrictlyAscending.                                                       *)
LEMMA CertificateAgrees ==
  ASSUME NEW v, IsValue("CommitCertificateV1", v)
  PROVE  checkCommitCertificateV1(v) = "ok" /\ (\A i \in DOMAIN v.Sigs : MsgBound(v, v.Sigs[i].Msg))
           <=> v.Version = VersionV1 /\ CommitCertHolds(v)
<1>1. /\ IsSequence(v.Sigs) /\ \A i \in DOMAIN v.Sigs : v.Sigs[i].Signer \in Int
      /\ v.View \in Int /\ v.Seq \in Int
      /\ \A i \in DOMAIN v.Sigs : v.Sigs[i].Msg \in Seq(Byte)
  BY SigsAreTyped, CertificateIsTyped
<1>2. ~(v.View < 0 \/ v.Seq < 0) <=> v.View >= 0 /\ v.Seq >= 0
  BY <1>1
<1>3. Len(v.Sigs) # 0 <=> v.Sigs # <<>>
  BY <1>1, EmptySeq DEF IsSequence
<1>4. ASSUME NEW i \in DOMAIN v.Sigs
      PROVE  ~(i > 1 /\ v.Sigs[i].Signer <= v.Sigs[i - 1].Signer)
               <=> (i > 1 => v.Sigs[i - 1].Signer < v.Sigs[i].Signer)
  <2>1. i \in Int /\ (i > 1 => i - 1 \in DOMAIN v.Sigs)
    BY <1>1 DEF IsSequence
  <2> QED
    BY <1>1, <2>1
<1>5. StrictlyAscending(v.Sigs, LAMBDA s : s.Signer)
        <=> \A i \in DOMAIN v.Sigs : ~(i > 1 /\ v.Sigs[i].Signer <= v.Sigs[i - 1].Signer)
  BY <1>4 DEF StrictlyAscending
<1>6. \A i \in DOMAIN v.Sigs : Len(v.Sigs[i].Msg) # 0 <=> v.Sigs[i].Msg # <<>>
  BY <1>1, NoOctets
<1>7. \A i \in DOMAIN v.Sigs :
        SigErr(v, i) = "ok" <=> /\ ~(i > 1 /\ v.Sigs[i].Signer <= v.Sigs[i - 1].Signer)
                                /\ Len(v.Sigs[i].Value) = SignatureLen
                                /\ Len(v.Sigs[i].Msg) # 0
  BY SigErrIs
<1>8. checkCommitCertificateV1(v) = "ok" <=>
        /\ v.Version = VersionV1
        /\ Len(v.ProposalDigest) = DigestLen
        /\ v.View >= 0 /\ v.Seq >= 0
        /\ v.Sigs # <<>>
        /\ StrictlyAscending(v.Sigs, LAMBDA s : s.Signer)
        /\ \A i \in DOMAIN v.Sigs : Len(v.Sigs[i].Value) = SignatureLen /\ v.Sigs[i].Msg # <<>>
  <2>1. (\A i \in DOMAIN v.Sigs : SigErr(v, i) = "ok")
          <=> /\ StrictlyAscending(v.Sigs, LAMBDA s : s.Signer)
              /\ \A i \in DOMAIN v.Sigs : Len(v.Sigs[i].Value) = SignatureLen /\ v.Sigs[i].Msg # <<>>
    BY <1>5, <1>6, <1>7
  <2> QED
    BY <1>1, <1>2, <1>3, <2>1, CommitCertificateCheckIs
<1> QED
  BY <1>8 DEF CommitCertHolds

LEMMA GenesisAgrees ==
  ASSUME NEW v, IsValue("GenesisV1", v)
  PROVE  checkGenesisV1(v) = "ok" <=> v.Version = VersionV1 /\ GenesisHolds(v)
<1>1. /\ IsSequence(v.Members) /\ \A i \in DOMAIN v.Members : v.Members[i].NodeID \in Int
      /\ v.TrustDomain \in Seq(Byte) /\ v.MaxNodes \in Int /\ Len(v.Members) \in Nat
  <2>1. IsSequence(v.Members) /\ \A i \in DOMAIN v.Members : v.Members[i].NodeID \in Int
    BY MembersAreTyped
  <2>2. v.TrustDomain \in Seq(Byte) /\ v.MaxNodes \in Int
    BY GenesisIsTyped
  <2>3. Len(v.Members) \in Nat
    BY <2>1 DEF IsSequence
  <2> QED
    BY <2>1, <2>2, <2>3
<1>2. ~(v.MaxNodes < 0 \/ Len(v.Members) > v.MaxNodes)
        <=> v.MaxNodes >= 0 /\ v.MaxNodes >= Len(v.Members)
  BY <1>1
<1>3. Len(v.TrustDomain) # 0 <=> v.TrustDomain # <<>>
  BY <1>1, NoOctets
<1>4. ASSUME NEW i \in DOMAIN v.Members
      PROVE  ~(i > 1 /\ v.Members[i].NodeID <= v.Members[i - 1].NodeID)
               <=> (i > 1 => v.Members[i - 1].NodeID < v.Members[i].NodeID)
  <2>1. i \in Int /\ (i > 1 => i - 1 \in DOMAIN v.Members)
    BY <1>1 DEF IsSequence
  <2> QED
    BY <1>1, <2>1
<1>5. StrictlyAscending(v.Members, LAMBDA m : m.NodeID)
        <=> \A i \in DOMAIN v.Members : ~(i > 1 /\ v.Members[i].NodeID <= v.Members[i - 1].NodeID)
  BY <1>4 DEF StrictlyAscending
<1> DEFINE m(i) == v.Members[i]
           Good(i) == /\ m(i).NodeID >= 0
                      /\ Len(m(i).LeafPubKey) = LeafPubKeyLen
                      /\ m(i).SpiffeID = spiffeIDV1(v.TrustDomain, m(i).NodeID)
<1>6. ASSUME NEW i \in DOMAIN v.Members
      PROVE  MemberErr(v, i) = "ok"
               <=> /\ ~(i > 1 /\ v.Members[i].NodeID <= v.Members[i - 1].NodeID)
                   /\ Good(i)
  <2>1. m(i).NodeID \in Int
    BY <1>1
  <2>2. m(i).NodeID >= 0 => Len(spiffeIDV1(v.TrustDomain, m(i).NodeID)) # 0
    BY <1>1, <2>1, SpiffeIDIsSome
  <2>3. ~(m(i).NodeID < 0) <=> m(i).NodeID >= 0
    BY <2>1
  <2> QED
    BY <2>2, <2>3, MemberErrIs
<1>7. (\A i \in DOMAIN v.Members : MemberErr(v, i) = "ok")
        <=> /\ StrictlyAscending(v.Members, LAMBDA x : x.NodeID)
            /\ \A i \in DOMAIN v.Members : Good(i)
  <2> HIDE DEF Good
  <2> QED
    BY <1>5, <1>6
<1>8. checkGenesisV1(v) = "ok" <=>
        /\ v.Version = VersionV1
        /\ v.TrustDomain # <<>>
        /\ v.MaxNodes >= 0 /\ v.MaxNodes >= Len(v.Members)
        /\ StrictlyAscending(v.Members, LAMBDA x : x.NodeID)
        /\ \A i \in DOMAIN v.Members : Good(i)
  <2> HIDE DEF Good
  <2> QED
    BY <1>1, <1>2, <1>3, <1>7, GenesisCheckIs
<1> QED
  BY <1>8 DEF GenesisHolds

(* Every constraint is the same in both, whatever the structure, but for the *)
(* client's check of a certificate's messages, which Go leaves to the client *)
(* (commitcert.go, genesis.go, request.go, signed.go and the rest against    *)
(* validate of verify_vectors.py).                                           *)
THEOREM ConstraintsAgree ==
  ASSUME NEW k \in Kinds, NEW v, IsValue(k, v)
  PROVE  Check(k, v) = "ok"
           /\ (k = "CommitCertificateV1" => \A i \in DOMAIN v.Sigs : MsgBound(v, v.Sigs[i].Msg))
         <=> validate(k, v)
<1>1. Versioned = Kinds \ {"ProposalV0", "SignatureSetV0"}
  BY DEF Versioned, VersionExempt
<1> USE DEF Check, validate, Holds
<1>2. CASE k \in {"ProposalV0", "SignatureSetV0"}
  BY <1>1, <1>2 DEF NoCheck
<1>3. CASE k = "Header"
  BY <1>1, <1>3, HeaderAgrees
<1>4. CASE k = "SignedV1"
  BY <1>1, <1>4, SignedAgrees
<1>5. CASE k = "SignedBlobV1"
  BY <1>1, <1>5, BlobAgrees
<1>6. CASE k = "CommitPayloadV1"
  BY <1>1, <1>6, CommitPayloadAgrees
<1>7. CASE k = "ClientRequestV1"
  BY <1>1, <1>7, ClientRequestAgrees
<1>8. CASE k = "ReadIndexV1"
  BY <1>1, <1>8, ReadIndexAgrees
<1>9. CASE k = "CommitCertificateV1"
  BY <1>1, <1>9, CertificateAgrees
<1>10. CASE k = "GenesisV1"
  BY <1>1, <1>10, GenesisAgrees
<1> HIDE DEF Check, validate, Holds
<1> QED
  BY <1>2, <1>3, <1>4, <1>5, <1>6, <1>7, <1>8, <1>9, <1>10, KindList

(* WIRE-SPEC 4.2.2: the Go package and verify_vectors.py accept the same     *)
(* wires, up to the rules that Agreement names as one side's own, whatever   *)
(* the ceilings are and whatever Msg the verifier cannot decode.             *)
THEOREM AlwaysAgree == Spec => []Agreement
<1>1. IInv => Agreement
  <2> SUFFICES ASSUME IInv, NEW w \in net
               PROVE  LET d == Read(w)
                      IN  d.err = "ok" /\ MessagesBound(d.value) /\ Within(w, PythonCeiling)
                            <=> /\ Verifies(kind, w)
                                /\ IsValue(kind, StructValue(Schemas[kind], w.tree))
                                /\ Within(w, GoCeiling)
    BY DEF Agreement
  <2> DEFINE S == Schemas[kind]
             v == StructValue(S, w.tree)
             r == unmarshal(S, w)
             d == Unmarshal(kind, w)
             G == Within(w, GoCeiling)
             P == Within(w, PythonCeiling)
  <2>1. kind \in Kinds /\ w \in [tree : Node3, rest : Seq(Byte)]
    BY ExchangeAssumption DEF IInv, IsWire
  <2>2. r.err = "ok" <=> w.rest = <<>> /\ Fits(S, w.tree) /\ IsStruct(S, v, Int64)
    BY <2>1, SchemasAreGood, DecodersAgree
  <2>3. r.err = "ok" => r = Acceptance(v) /\ r.value = v
    BY AcceptedIsCanonical DEF Acceptance
  <2>4. d = IF r.err # "ok" THEN r
            ELSE IF Check(kind, r.value) # "ok" THEN Refusal(Check(kind, r.value)) ELSE r
    BY <2>1, UnmarshalIs
  <2>5. IsValue(kind, v) <=> IsStruct(S, v, Int64)
    BY DEF IsValue
  <2>6. Read(w) = IF G THEN d ELSE Refusal("ErrAsn1")
    BY DEF Read
  <2> HIDE DEF S, v, r, d, G, P
  <2>7. d.err = "ok" <=> r.err = "ok" /\ Check(kind, v) = "ok"
    BY <2>3, <2>4 DEF Refusal
  <2>8. d.err = "ok" => d.value = v
    BY <2>3, <2>4, <2>7
  <2>9. IsValue(kind, v) => (Check(kind, v) = "ok" /\ MessagesBound(v) <=> validate(kind, v))
    BY <2>1, ConstraintsAgree DEF MessagesBound
  <2>10. Verifies(kind, w) <=> w.rest = <<>> /\ P /\ Fits(S, w.tree) /\ validate(kind, v)
    BY DEF Verifies, Decodes, S, v, P
  <2>11. d.err = "ok" /\ MessagesBound(d.value) /\ P <=> Verifies(kind, w) /\ IsValue(kind, v)
    <3>1. ASSUME d.err = "ok", MessagesBound(d.value), P PROVE Verifies(kind, w) /\ IsValue(kind, v)
      BY <2>2, <2>5, <2>7, <2>8, <2>9, <2>10, <3>1
    <3>2. ASSUME Verifies(kind, w), IsValue(kind, v)
          PROVE  d.err = "ok" /\ MessagesBound(d.value) /\ P
      BY <2>2, <2>5, <2>7, <2>8, <2>9, <2>10, <3>2
    <3> QED
      BY <3>1, <3>2
  <2>12. Read(w).err = "ok" /\ MessagesBound(Read(w).value) /\ P
           <=> Verifies(kind, w) /\ IsValue(kind, v) /\ G
    <3>1. CASE G
      BY <2>6, <2>11, <3>1
    <3>2. CASE ~G
      BY <2>6, <3>2 DEF Refusal
    <3> QED
      BY <3>1, <3>2
  <2> QED
    BY <2>12 DEF v, S, G, P
<1> QED
  BY <1>1, InductiveInvariant, PTL

-----------------------------------------------------------------------------
(* Over all memberships that readers accepted, an identity is of one node of *)
(* one trust domain (genesis.go:84).                                         *)
THEOREM IdentityAlwaysNamesOneNode == Spec => []IdentityNamesOneNode
<1>1. ASSUME IInv, kind = "GenesisV1", NEW a \in accepted,
             NEW m \in {a.value.Members[i] : i \in DOMAIN a.value.Members}
      PROVE  /\ a.value.TrustDomain \in Seq(Byte) /\ m.NodeID \in Nat
             /\ m.SpiffeID = spiffeIDV1(a.value.TrustDomain, m.NodeID)
  <2>1. PICK i \in DOMAIN a.value.Members : m = a.value.Members[i]
    OBVIOUS
  <2>2. IsValue("GenesisV1", a.value) /\ checkGenesisV1(a.value) = "ok"
    BY <1>1, AcceptedIs DEF Check
  <2>3. GenesisHolds(a.value) /\ a.value.TrustDomain \in Seq(Byte) /\ m.NodeID \in Int
    BY <2>1, <2>2, GenesisAgrees, GenesisIsTyped, MembersAreTyped
  <2> QED
    BY <2>1, <2>3 DEF GenesisHolds
<1>2. IInv => IdentityNamesOneNode
  <2> SUFFICES ASSUME IInv, kind = "GenesisV1", NEW a \in accepted, NEW b \in accepted,
                      NEW m \in {a.value.Members[i] : i \in DOMAIN a.value.Members},
                      NEW n \in {b.value.Members[j] : j \in DOMAIN b.value.Members},
                      m.SpiffeID = n.SpiffeID
               PROVE  m.NodeID = n.NodeID /\ a.value.TrustDomain = b.value.TrustDomain
    BY DEF IdentityNamesOneNode
  <2>1. /\ a.value.TrustDomain \in Seq(Byte) /\ m.NodeID \in Nat
        /\ m.SpiffeID = spiffeIDV1(a.value.TrustDomain, m.NodeID)
    BY <1>1
  <2>2. /\ b.value.TrustDomain \in Seq(Byte) /\ n.NodeID \in Nat
        /\ n.SpiffeID = spiffeIDV1(b.value.TrustDomain, n.NodeID)
    BY <1>1
  <2> DEFINE td == a.value.TrustDomain
             ud == b.value.TrustDomain
             x == m.NodeID
             y == n.NodeID
  <2>3. td \in Seq(Byte) /\ ud \in Seq(Byte) /\ x \in Nat /\ y \in Nat
    BY <2>1, <2>2
  <2>4. spiffeIDV1(td, x) = spiffeIDV1(ud, y)
    BY <2>1, <2>2
  <2>5. td = ud /\ x = y
    <3> HIDE DEF td, ud, x, y
    <3> QED
      BY <2>3, <2>4, SpiffeIDNamesNode
  <2> QED
    BY <2>5
<1> QED
  BY <1>2, InductiveInvariant, PTL
=============================================================================
