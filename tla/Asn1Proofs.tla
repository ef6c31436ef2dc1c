----------------------------- MODULE Asn1Proofs -----------------------------
(***************************************************************************)
(* What encoding and decoding do to every value of every schema of the     *)
(* type profile.                                                           *)
(***************************************************************************)
EXTENDS Asn1, TLAPS

(* The schemas of the type profile: no field name twice, no list in a list. *)
DistinctNames(S) == \A i, j \in DOMAIN S : S[i].name = S[j].name => i = j

FlatSchema(S) == /\ IsSequence(S)
                 /\ DistinctNames(S)
                 /\ \A i \in DOMAIN S : S[i].type \in {"int", "oct"}

GoodSchema(S) == /\ IsSequence(S)
                 /\ DistinctNames(S)
                 /\ \A i \in DOMAIN S : \/ S[i].type \in {"int", "oct"}
                                        \/ S[i].type = "list" /\ FlatSchema(S[i].elem)

(* A field is found at its own place. *)
LEMMA PlaceOfName ==
  ASSUME NEW S, DistinctNames(S), NEW i \in DOMAIN S
  PROVE  Place(S, S[i].name) = i
BY DEF Place, DistinctNames

LEMMA PlaceInDomain ==
  ASSUME NEW S, NEW n \in Names(S)
  PROVE  Place(S, n) \in DOMAIN S /\ S[Place(S, n)].name = n
BY DEF Place, Names

(* A list element survives encoding and decoding. *)
LEMMA RowRoundTrip ==
  ASSUME NEW S, FlatSchema(S), NEW v, IsRow(S, v, Int64)
  PROVE  /\ ParsesRow(S, EncodeRow(S, v))
         /\ RowValue(S, EncodeRow(S, v)) = v
<1> DEFINE t == EncodeRow(S, v)
<1>1. /\ Tag(t) = "seq"
      /\ Content(t) = [i \in DOMAIN S |-> <<S[i].type, v[S[i].name]>>]
  BY DEF EncodeRow, Tag, Content
<1>2. \A i \in DOMAIN S : /\ Tag(Content(t)[i]) = S[i].type
                          /\ Content(Content(t)[i]) = v[S[i].name]
  <2> TAKE i \in DOMAIN S
  <2>1. Content(t)[i] = <<S[i].type, v[S[i].name]>>
    BY <1>1
  <2> HIDE DEF t
  <2> QED
    BY <2>1 DEF Tag, Content
<1>3. ParsesRow(S, t)
  <2> HIDE DEF t
  <2>1. DOMAIN S \subseteq DOMAIN Content(t)
    BY <1>1
  <2>2. \A i \in DOMAIN S : ParsesScalar(S[i].type, Content(t)[i])
    BY <1>2 DEF ParsesScalar, IsRow, IsScalar
  <2> QED
    BY <1>1, <2>1, <2>2 DEF ParsesRow
<1>4. RowValue(S, t) = v
  <2> HIDE DEF t
  <2>1. \A n \in Names(S) : Content(Content(t)[Place(S, n)]) = v[n]
    BY <1>2, PlaceInDomain
  <2>2. v = [n \in Names(S) |-> v[n]]
    BY DEF IsRow
  <2> QED
    BY <2>1, <2>2 DEF RowValue
<1> QED
  BY <1>3, <1>4

(* A field survives encoding and decoding. *)
LEMMA FieldRoundTrip ==
  ASSUME NEW f, NEW x, IsField(f, x, Int64),
         f.type \in {"int", "oct"} \/ (f.type = "list" /\ FlatSchema(f.elem))
  PROVE  /\ ParsesField(f, EncodeField(f, x))
         /\ FieldValue(f, EncodeField(f, x)) = x
<1>1. CASE f.type = "list"
  <2> DEFINE t == EncodeField(f, x)
  <2>1. /\ Tag(t) = "seq"
        /\ Content(t) = [j \in DOMAIN x |-> EncodeRow(f.elem, x[j])]
    BY <1>1 DEF EncodeField, Tag, Content
  <2>2. \A j \in DOMAIN x : /\ ParsesRow(f.elem, EncodeRow(f.elem, x[j]))
                            /\ RowValue(f.elem, EncodeRow(f.elem, x[j])) = x[j]
    BY <1>1, RowRoundTrip DEF IsField
  <2>3. x = [j \in DOMAIN x |-> x[j]]
    BY <1>1 DEF IsField, IsSequence
  <2> HIDE DEF t
  <2>4. ParsesField(f, t)
    BY <1>1, <2>1, <2>2 DEF ParsesField
  <2>5. FieldValue(f, t) = [j \in DOMAIN x |-> RowValue(f.elem, EncodeRow(f.elem, x[j]))]
    BY <1>1, <2>1 DEF FieldValue
  <2> QED
    BY <2>2, <2>3, <2>4, <2>5 DEF t
<1>2. CASE f.type \in {"int", "oct"}
  BY <1>2 DEF IsField, IsScalar, EncodeField, ParsesField, FieldValue, ParsesScalar, Tag, Content
<1> QED
  BY <1>1, <1>2

(* A structure survives encoding and decoding: Unmarshal reads what Marshal wrote. *)
THEOREM RoundTrip ==
  ASSUME NEW S, GoodSchema(S), NEW v, IsStruct(S, v, Int64)
  PROVE  /\ Parses(S, Encode(S, v))
         /\ StructValue(S, Encode(S, v)) = v
<1> DEFINE t == Encode(S, v)
<1>1. /\ Tag(t) = "seq"
      /\ Content(t) = [i \in DOMAIN S |-> EncodeField(S[i], v[S[i].name])]
  BY DEF Encode, Tag, Content
<1> HIDE DEF t
<1>2. \A i \in DOMAIN S : /\ ParsesField(S[i], Content(t)[i])
                          /\ FieldValue(S[i], Content(t)[i]) = v[S[i].name]
  <2> TAKE i \in DOMAIN S
  <2>1. IsField(S[i], v[S[i].name], Int64)
    BY DEF IsStruct
  <2>2. S[i].type \in {"int", "oct"} \/ (S[i].type = "list" /\ FlatSchema(S[i].elem))
    BY DEF GoodSchema
  <2>3. Content(t)[i] = EncodeField(S[i], v[S[i].name])
    BY <1>1
  <2> QED
    BY <2>1, <2>2, <2>3, FieldRoundTrip
<1>3. Parses(S, t)
  BY <1>1, <1>2 DEF Parses
<1>4. \A n \in Names(S) : FieldValue(S[Place(S, n)], Content(t)[Place(S, n)]) = v[n]
  BY <1>2, PlaceInDomain
<1>5. StructValue(S, t) = v
  BY <1>4 DEF StructValue, IsStruct
<1> QED
  BY <1>3, <1>5 DEF t

(* unmarshal accepts what marshal wrote, and returns the value written. *)
LEMMA UnmarshalOfMarshal ==
  ASSUME NEW S, GoodSchema(S), NEW v, IsStruct(S, v, Int64)
  PROVE  unmarshal(S, marshal(S, v)) = Acceptance(v)
BY RoundTrip DEF unmarshal, marshal

(* What unmarshal accepts is what marshal writes for the value it returns. *)
LEMMA AcceptedIsCanonical ==
  ASSUME NEW S, NEW w, unmarshal(S, w).err = "ok"
  PROVE  /\ Parses(S, w.tree)
         /\ unmarshal(S, w) = Acceptance(StructValue(S, w.tree))
         /\ w = marshal(S, StructValue(S, w.tree))
BY DEF unmarshal, Refusal, Acceptance

-----------------------------------------------------------------------------
(***************************************************************************)
(* The trees that the type profile's values and their respellings spell:   *)
(* SEQUENCEs at most three deep over INTEGERs and OCTET STRINGs.           *)
(***************************************************************************)
Leaf    == ({"int"} \X Int) \union ({"oct"} \X Seq(Byte))
Over(X) == {"seq"} \X Seq(X)
Node1   == Leaf \union Over(Leaf)
Node2   == Leaf \union Over(Node1)
Node3   == Over(Node2)

(* A sequence indexed by the places of another is a sequence. *)
LEMMA MappedSequence ==
  ASSUME NEW T, NEW s \in Seq(T), NEW U, NEW f(_), \A i \in DOMAIN s : f(i) \in U
  PROVE  [i \in DOMAIN s |-> f(i)] \in Seq(U)
<1>1. DOMAIN s = 1 .. Len(s) /\ Len(s) \in Nat
  OBVIOUS
<1>2. [i \in 1 .. Len(s) |-> f(i)] \in [1 .. Len(s) -> U]
  BY <1>1
<1> QED
  BY <1>1, <1>2

LEMMA RowIsTree ==
  ASSUME NEW S, FlatSchema(S), NEW v, IsRow(S, v, Int)
  PROVE  EncodeRow(S, v) \in Over(Leaf)
<1> DEFINE f(i) == <<S[i].type, v[S[i].name]>>
<1>1. \A i \in DOMAIN S : f(i) \in Leaf
  BY DEF FlatSchema, IsRow, IsScalar, Leaf
<1> HIDE DEF f
<1>2. [i \in DOMAIN S |-> f(i)] \in Seq(Leaf)
  BY <1>1, MappedSequence DEF FlatSchema, IsSequence
<1> QED
  BY <1>2 DEF EncodeRow, Over, f

LEMMA FieldIsTree ==
  ASSUME NEW f, NEW x, IsField(f, x, Int),
         f.type \in {"int", "oct"} \/ (f.type = "list" /\ FlatSchema(f.elem))
  PROVE  EncodeField(f, x) \in Node2
<1>1. CASE f.type = "list"
  <2> DEFINE row(j) == EncodeRow(f.elem, x[j])
  <2>1. \A j \in DOMAIN x : row(j) \in Node1
    BY <1>1, RowIsTree DEF IsField, Node1
  <2> HIDE DEF row
  <2>2. [j \in DOMAIN x |-> row(j)] \in Seq(Node1)
    BY <1>1, <2>1, MappedSequence DEF IsField, IsSequence
  <2> QED
    BY <1>1, <2>2 DEF EncodeField, Over, Node2, row
<1>2. CASE f.type \in {"int", "oct"}
  BY <1>2 DEF IsField, IsScalar, EncodeField, Node2, Leaf
<1> QED
  BY <1>1, <1>2

(* What an unchecked producer encodes is such a tree. *)
LEMMA EncodingIsTree ==
  ASSUME NEW S, GoodSchema(S), NEW v, IsStruct(S, v, Int)
  PROVE  Encode(S, v) \in Node3
<1> DEFINE f(i) == EncodeField(S[i], v[S[i].name])
<1>1. \A i \in DOMAIN S : f(i) \in Node2
  <2> TAKE i \in DOMAIN S
  <2>1. IsField(S[i], v[S[i].name], Int)
    BY DEF IsStruct
  <2>2. S[i].type \in {"int", "oct"} \/ (S[i].type = "list" /\ FlatSchema(S[i].elem))
    BY DEF GoodSchema
  <2> QED
    BY <2>1, <2>2, FieldIsTree
<1> HIDE DEF f
<1>2. [i \in DOMAIN S |-> f(i)] \in Seq(Node2)
  BY <1>1, MappedSequence DEF GoodSchema, IsSequence
<1> QED
  BY <1>2 DEF Encode, Over, Node3, f

-----------------------------------------------------------------------------
(* What asn1.Unmarshal parses is a value of the Go type it parses into. *)
LEMMA ParsedScalarIsTyped ==
  ASSUME NEW type \in {"int", "oct"}, NEW X, NEW t \in Leaf \union Over(X), ParsesScalar(type, t)
  PROVE  IsScalar(type, Content(t), Int64)
BY DEF ParsesScalar, IsScalar, Leaf, Over, Tag, Content

LEMMA ParsedRowIsTyped ==
  ASSUME NEW S, FlatSchema(S), NEW t \in Node2, ParsesRow(S, t)
  PROVE  IsRow(S, RowValue(S, t), Int64)
<1> DEFINE v == RowValue(S, t)
<1>1. v = [n \in Names(S) |-> v[n]]
  BY DEF RowValue
<1>2. \A i \in DOMAIN S : v[S[i].name] = Content(Content(t)[i])
  <2> TAKE i \in DOMAIN S
  <2>1. S[i].name \in Names(S) /\ Place(S, S[i].name) = i
    BY PlaceOfName DEF FlatSchema, Names
  <2> QED
    BY <2>1 DEF RowValue
<1>3. \A i \in DOMAIN S : Content(t)[i] \in Node1 /\ ParsesScalar(S[i].type, Content(t)[i])
  <2>1. Content(t) \in Seq(Node1)
    BY DEF Node2, Leaf, Over, ParsesRow, Tag, Content
  <2> QED
    BY <2>1 DEF ParsesRow
<1> HIDE DEF v
<1>4. \A i \in DOMAIN S : IsScalar(S[i].type, v[S[i].name], Int64)
  BY <1>2, <1>3, ParsedScalarIsTyped DEF FlatSchema, Node1
<1>5. IsRow(S, v, Int64)
  BY <1>1, <1>4 DEF IsRow
<1> QED
  BY <1>5 DEF v

LEMMA ParsedFieldIsTyped ==
  ASSUME NEW f, f.type \in {"int", "oct"} \/ (f.type = "list" /\ FlatSchema(f.elem)),
         NEW t \in Node2, ParsesField(f, t)
  PROVE  IsField(f, FieldValue(f, t), Int64)
<1>1. CASE f.type = "list"
  <2> DEFINE row(j) == RowValue(f.elem, Content(t)[j])
  <2>1. Content(t) \in Seq(Node1)
    BY <1>1 DEF Node2, Leaf, Over, ParsesField, Tag, Content
  <2>2. \A j \in DOMAIN Content(t) : Content(t)[j] \in Node2 /\ ParsesRow(f.elem, Content(t)[j])
    <3>1. \A j \in DOMAIN Content(t) : Content(t)[j] \in Node1 /\ ParsesRow(f.elem, Content(t)[j])
      BY <1>1, <2>1 DEF ParsesField
    <3>2. \A u \in Node1 : Tag(u) = "seq" => u \in Over(Leaf)
      BY DEF Node1, Leaf, Over, Tag
    <3>3. Over(Leaf) \subseteq Over(Node1)
      BY DEF Over, Node1
    <3> QED
      BY <3>1, <3>2, <3>3 DEF ParsesRow, Node2
  <2>3. \A j \in DOMAIN Content(t) : IsRow(f.elem, row(j), Int64)
    BY <1>1, <2>2, ParsedRowIsTyped
  <2> HIDE DEF row
  <2>4. FieldValue(f, t) = [j \in DOMAIN Content(t) |-> row(j)]
    BY <1>1 DEF FieldValue, row
  <2>5. [j \in DOMAIN Content(t) |-> row(j)] \in Seq({row(j) : j \in DOMAIN Content(t)})
    BY <2>1, MappedSequence
  <2> QED
    BY <1>1, <2>3, <2>4, <2>5 DEF IsField, IsSequence
<1>2. CASE f.type \in {"int", "oct"}
  BY <1>2, ParsedScalarIsTyped DEF IsField, FieldValue, ParsesField, Node2
<1> QED
  BY <1>1, <1>2

LEMMA ParsedIsTyped ==
  ASSUME NEW S, GoodSchema(S), NEW t \in Node3, Parses(S, t)
  PROVE  IsStruct(S, StructValue(S, t), Int64)
<1> DEFINE v == StructValue(S, t)
<1>1. v = [n \in Names(S) |-> v[n]]
  BY DEF StructValue
<1>2. \A i \in DOMAIN S : v[S[i].name] = FieldValue(S[i], Content(t)[i])
  <2> TAKE i \in DOMAIN S
  <2>1. S[i].name \in Names(S) /\ Place(S, S[i].name) = i
    BY PlaceOfName DEF GoodSchema, Names
  <2> QED
    BY <2>1 DEF StructValue
<1>3. \A i \in DOMAIN S : Content(t)[i] \in Node2 /\ ParsesField(S[i], Content(t)[i])
  <2>1. Content(t) \in Seq(Node2)
    BY DEF Node3, Over, Content
  <2> QED
    BY <2>1 DEF Parses
<1> HIDE DEF v
<1>4. \A i \in DOMAIN S : IsField(S[i], v[S[i].name], Int64)
  <2> TAKE i \in DOMAIN S
  <2>1. S[i].type \in {"int", "oct"} \/ (S[i].type = "list" /\ FlatSchema(S[i].elem))
    BY DEF GoodSchema
  <2> QED
    BY <1>2, <1>3, <2>1, ParsedFieldIsTyped
<1>5. IsStruct(S, v, Int64)
  BY <1>1, <1>4 DEF IsStruct
<1> QED
  BY <1>5 DEF v
=============================================================================
