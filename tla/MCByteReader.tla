----------------------------- MODULE MCByteReader -----------------------------
(***************************************************************************)
(* Octets of four bits: the short form of a length ends at 7, one octet of *)
(* length at 15. Inputs are all short octet strings and, for longer ones,  *)
(* the encodings of values at these limits with one octet changed, left    *)
(* out or put in, or with their length spelled another way.                *)
(***************************************************************************)
EXTENDS ByteReader

Int1(n)  == [kind |-> "int", of |-> n]
Bytes(s) == [kind |-> "bytes", of |-> s]
Bool(b)  == [kind |-> "bool", of |-> b]
Seq1(s)  == [kind |-> "seq", of |-> s]
Zeros(n) == [i \in 1 .. n |-> 0]

(* Values with encodings of at most four octets. *)
ShortScalars == {Int1(n) : n \in -128 .. 127} \union {Bool(TRUE), Bool(FALSE)}
                  \union {Bytes(s) : s \in BoundedSeq(Octet, 2)}
Short == ShortScalars \union {Seq1(<<>>), Seq1(<<Bytes(<<>>)>>), Seq1(<<Seq1(<<>>)>>)}

(* Values whose lengths stand on both sides of each limit. *)
Long == {Bytes(Zeros(n)) : n \in {3, 7, 8, 15, 16}}
          \union {Int1(n) : n \in {128, -129, 2047, 2048}}
          \union {Seq1(<<Int1(8), Bool(TRUE)>>), Seq1(<<Seq1(<<Int1(-9)>>), Seq1(<<>>)>>),
                  Seq1(<<Seq1(<<Seq1(<<>>)>>)>>), Seq1(<<Bytes(Zeros(5)), Seq1(<<Bytes(<<>>)>>)>>), Seq1(<<Bytes(Zeros(8))>>)}

MCValues == Short \union Long

Some == {0, 1, 2, 3, 4, 5, 7, High, High + 1, High + 2, High + 3, Base - 1}

(* TLC's numbers are too small for longer INTEGERs. *)
Put(s) == IF Len(s) > (IF Base = 256 THEN 5 ELSE 9) THEN Some \ {TAG_INTEGER} ELSE Some

Changed(s) == {[s EXCEPT ![i] = o] : i \in DOMAIN s, o \in Put(s)}
Without(s) == {RemoveAt(s, i) : i \in DOMAIN s}
With(s)    == {InsertAt(s, i, o) : i \in 1 .. Len(s) + 1, o \in Put(s)}

Damaged(V) == UNION {LET s == encode_value(v)
                     IN  {s} \union Changed(s) \union Without(s) \union With(s) : v \in V}

(* Octets under a length in the long form, with leading zeros or not. *)
Padded(N, w) == {<<TAG_OCTET_STRING, High + w>> \o Zeros(w - Len(LengthOctets(n)))
                   \o LengthOctets(n) \o Zeros(n) : n \in N}

(* A call too many: SEQUENCEs in SEQUENCEs, and an INTEGER in them. *)
TooDeep == {<<3, 6, 3, 4, 3, 2, 3, 0>>, <<3, 7, 3, 5, 3, 3, 2, 1, 0>>}

MCInputs == BoundedSeq(Some, 4) \union Damaged(Long) \union TooDeep
              \union UNION {Padded({0, 3, 7, 8, 15, 16}, w) : w \in 1 .. 3}

(* The same with octets of eight bits, at the limits of the real code. *)
Lengths   == {0, 127, 128, 255, 256}
RealInts  == {0, 127, 128, 255, 256, 32767, 32768, -1, -128, -129, -32768, -32769}
RealShort == {Int1(n) : n \in RealInts} \union {Bool(TRUE), Seq1(<<Bool(FALSE), Int1(128)>>)}

RealValues == {Bytes(Zeros(n)) : n \in Lengths} \union RealShort

Cut(s) == {SubSeq(s, 1, Len(s) - 1), Append(s, 0)}

RealInputs == Damaged(RealShort)
                \union UNION {Cut(encode_value(v)) \union {encode_value(v)} : v \in RealValues}
                \union UNION {Padded(Lengths, w) : w \in 1 .. 3}
=============================================================================
