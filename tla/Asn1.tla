-------------------------------- MODULE Asn1 --------------------------------
(***************************************************************************)
(* The encoding layer of package canonical (asn1.go) over encoding/asn1.   *)
(*                                                                         *)
(* A byte string is modelled as the TLV tree it spells and the octets left *)
(* after that tree.  DER tags, lengths and INTEGER contents are minimal    *)
(* and definite, so a well-formed octet string spells exactly one tree and *)
(* a tree is spelled by exactly one octet string; octets that spell no     *)
(* tree (truncated, non-minimal, a tag outside the profile) are a node     *)
(* with the tag "bad" at the place where the reader meets them.            *)
(***************************************************************************)
EXTENDS Integers, Sequences

CONSTANTS MinInt, MaxInt   \* the range of int64

ASSUME IntAssumption == MinInt \in Int /\ MaxInt \in Int /\ MinInt <= 0 /\ 1 <= MaxInt

Int64 == MinInt .. MaxInt
Byte  == 0 .. 255

(***************************************************************************)
(* Trees.  A node is <<tag, content>>: the tag of an INTEGER is "int", of  *)
(* an OCTET STRING "oct", of a SEQUENCE or SEQUENCE OF "seq".              *)
(***************************************************************************)
Tag(t)     == t[1]
Content(t) == t[2]

(***************************************************************************)
(* Go struct types.  A schema is the fields of a struct in declaration     *)
(* order; a field has a name and a type, "int" for int64, "oct" for        *)
(* []byte, "list" for []T, where elem is the schema of T.  The type        *)
(* profile of doc.go nests no list in a list's element.                    *)
(***************************************************************************)
IntField(n)     == [name |-> n, type |-> "int"]
OctField(n)     == [name |-> n, type |-> "oct"]
ListField(n, S) == [name |-> n, type |-> "list", elem |-> S]

Names(S)    == {S[i].name : i \in DOMAIN S}
Place(S, n) == CHOOSE i \in DOMAIN S : S[i].name = n

IsSequence(x) == x \in Seq({x[j] : j \in DOMAIN x})

(* The values of a struct whose INTEGER fields range over ints (int64 for a Go *)
(* struct): a nil and an empty slice are one value.                            *)
IsScalar(type, x, ints) == IF type = "int" THEN x \in ints ELSE x \in Seq(Byte)

IsRow(S, v, ints) == /\ v = [n \in Names(S) |-> v[n]]
                     /\ \A i \in DOMAIN S : IsScalar(S[i].type, v[S[i].name], ints)

IsField(f, x, ints) == IF f.type = "list"
                         THEN /\ IsSequence(x)
                              /\ \A j \in DOMAIN x : IsRow(f.elem, x[j], ints)
                         ELSE IsScalar(f.type, x, ints)

IsStruct(S, v, ints) == /\ v = [n \in Names(S) |-> v[n]]
                        /\ \A i \in DOMAIN S : IsField(S[i], v[S[i].name], ints)

-----------------------------------------------------------------------------
(***************************************************************************)
(* asn1.Marshal: the fields in declaration order.  It cannot fail on the   *)
(* types of the profile.                                                   *)
(***************************************************************************)
EncodeRow(S, v) == <<"seq", [i \in DOMAIN S |-> <<S[i].type, v[S[i].name]>>]>>

EncodeField(f, x) == IF f.type = "list"
                       THEN <<"seq", [j \in DOMAIN x |-> EncodeRow(f.elem, x[j])]>>
                       ELSE <<f.type, x>>

Encode(S, v) == <<"seq", [i \in DOMAIN S |-> EncodeField(S[i], v[S[i].name])]>>

(* What marshal hands its caller: one TLV and nothing after it. *)
marshal(S, v) == [tree |-> Encode(S, v), rest |-> <<>>]

(***************************************************************************)
(* asn1.Unmarshal.  A SEQUENCE is mapped onto the field list: an element   *)
(* of another type or a missing one is an error, the elements after the    *)
(* last field are dropped unread, at every depth.  Every element of a      *)
(* SEQUENCE OF must parse.  An INTEGER must fit int64.                     *)
(***************************************************************************)
\* Mutant: an INTEGER of any width is taken.
ParsesScalarAnyWidth(type, t) == Tag(t) = type

ParsesScalar(type, t) == Tag(t) = type /\ (type = "int" => Content(t) \in Int64)

ParsesRow(S, t) == /\ Tag(t) = "seq"
                   /\ DOMAIN S \subseteq DOMAIN Content(t)
                   /\ \A i \in DOMAIN S : ParsesScalar(S[i].type, Content(t)[i])

ParsesField(f, t) == IF f.type = "list"
                       THEN /\ Tag(t) = "seq"
                            /\ \A j \in DOMAIN Content(t) : ParsesRow(f.elem, Content(t)[j])
                       ELSE ParsesScalar(f.type, t)

Parses(S, t) == /\ Tag(t) = "seq"
                /\ DOMAIN S \subseteq DOMAIN Content(t)
                /\ \A i \in DOMAIN S : ParsesField(S[i], Content(t)[i])

RowValue(S, t) == [n \in Names(S) |-> Content(Content(t)[Place(S, n)])]

FieldValue(f, t) == IF f.type = "list"
                      THEN [j \in DOMAIN Content(t) |-> RowValue(f.elem, Content(t)[j])]
                      ELSE Content(t)

StructValue(S, t) == [n \in Names(S) |-> FieldValue(S[Place(S, n)], Content(t)[Place(S, n)])]

(***************************************************************************)
(* unmarshal of asn1.go: the R-RULE, then the re-encoding that proves the  *)
(* input canonical.  A verdict is an error name, or "ok" and the value.    *)
(***************************************************************************)
Refusal(e)    == [err |-> e]
Acceptance(v) == [err |-> "ok", value |-> v]

\* Mutant: what was decoded is not encoded again.
unmarshalTrusting(S, w) ==
  IF ~Parses(S, w.tree) THEN Refusal("ErrAsn1")
  ELSE IF w.rest # <<>> THEN Refusal("ErrTrailing") ELSE Acceptance(StructValue(S, w.tree))

unmarshal(S, w) ==
  IF ~Parses(S, w.tree) THEN Refusal("ErrAsn1")
  ELSE IF w.rest # <<>> THEN Refusal("ErrTrailing")
  ELSE LET v == StructValue(S, w.tree)
       IN  IF marshal(S, v) # w THEN Refusal("ErrNonCanonical") ELSE Acceptance(v)
=============================================================================
