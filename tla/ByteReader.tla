------------------------------ MODULE ByteReader ------------------------------
(***************************************************************************)
(* The byte reader of ci/verify_vectors.py: parse_der, with the recursion  *)
(* of _read_value as a machine and a stack of the SEQUENCEs it is inside.  *)
(* It is shown to accept the octets that encode_value spells and no other, *)
(* so that the other modules may take octets for the tree they spell.      *)
(*                                                                         *)
(* The size of an octet is a constant: nothing depends on its being 256,   *)
(* and with a smaller one lengths and integers soon need a second octet.   *)
(***************************************************************************)
EXTENDS Integers, SequencesExt

CONSTANTS Base,               \* how many values an octet has
          TAG_BOOLEAN, TAG_INTEGER, TAG_OCTET_STRING, TAG_SEQUENCE,
          MAX_LENGTH_OCTETS,
          MaxDepth,           \* how many calls of _read_value Python lets be under way
          Inputs,             \* the octet strings read
          Values              \* values whose encodings must be read

Octet == 0 .. Base - 1
High  == Base \div 2          \* 0x80: the long form of a length, the sign of an INTEGER

VARIABLES data,     \* what parse_der is called with
          off,      \* how many octets have been read
          stack,    \* the calls not yet returned: [start, end, items], that of parse_der first
          verdict   \* "reading", or what parse_der returned

vars == <<data, off, stack, verdict>>

Reading == [err |-> "reading"]
Refused == [err |-> "refused"]
Read(v) == [err |-> "ok", value |-> v]

(* int.from_bytes, big-endian; in front of a negative number's octets is the sign, -1. *)
FromBytes(sign, octets) ==
  LET value[k \in 0 .. Len(octets)] == IF k = 0 THEN sign ELSE value[k - 1] * Base + octets[k]
  IN  value[Len(octets)]

(* int.to_bytes in as few octets as can be, of which the first tells sizes below half. *)
ToBytes(n, half) ==
  LET bytes[m \in Int] == IF m \in -half .. half - 1 THEN <<m % Base>>
                          ELSE bytes[m \div Base] \o <<m % Base>>
  IN  bytes[n]

-----------------------------------------------------------------------------
(* The encoder. A length needs no sign, so its first octet is all size. *)
LengthOctets(n) == ToBytes(n, Base)

EncodeLength(n) ==
  IF n < High THEN <<n>> ELSE <<High + Len(LengthOctets(n))>> \o LengthOctets(n)

MinimalSigned(n) == ToBytes(n, High)

Scalars == [kind : {"int"}, of : Int] \union [kind : {"bytes"}, of : Seq(Octet)]
             \union [kind : {"bool"}, of : BOOLEAN]

TagOf(v) == CASE v.kind = "int"   -> TAG_INTEGER
              [] v.kind = "bytes" -> TAG_OCTET_STRING
              [] v.kind = "seq"   -> TAG_SEQUENCE
              [] v.kind = "bool"  -> TAG_BOOLEAN

Content(v) == CASE v.kind = "int"   -> MinimalSigned(v.of)
                [] v.kind = "bytes" -> v.of
                [] v.kind = "bool"  -> <<IF v.of THEN Base - 1 ELSE 0>>

Spell(tag, body) == <<tag>> \o EncodeLength(Len(body)) \o body

(* The values whose reading takes no more than depth calls one in another, *)
(* and what encode_value makes of each.                                    *)
Encode[depth \in Nat] ==
  [v \in IF depth = 0 THEN {}
         ELSE Scalars \union [kind : {"seq"}, of : Seq(DOMAIN Encode[depth - 1])] |->
     Spell(TagOf(v), IF v.kind # "seq" THEN Content(v)
                     ELSE FlattenSeq([i \in DOMAIN v.of |-> Encode[depth - 1][v.of[i]]]))]

encode_value(v) == Encode[MaxDepth][v]

(* Within the reader's caps are the values it is given to read. *)
ASSUME ByteReaderAssumption ==
  /\ Base \in Nat \ {0} /\ Base = High + High
  /\ {TAG_BOOLEAN, TAG_INTEGER, TAG_OCTET_STRING, TAG_SEQUENCE} \subseteq Octet
  /\ TAG_BOOLEAN \notin {TAG_INTEGER, TAG_OCTET_STRING, TAG_SEQUENCE}
  /\ TAG_INTEGER \notin {TAG_OCTET_STRING, TAG_SEQUENCE} /\ TAG_OCTET_STRING # TAG_SEQUENCE
  /\ MAX_LENGTH_OCTETS \in Nat /\ MAX_LENGTH_OCTETS < High - 1
  /\ MaxDepth \in Nat
  /\ Inputs \subseteq Seq(Octet)
  /\ Values \subseteq DOMAIN Encode[MaxDepth]
  /\ \A v \in Values : LET n == Len(encode_value(v))
                       IN  n < High \/ Len(LengthOctets(n)) <= MAX_LENGTH_OCTETS

-----------------------------------------------------------------------------
(* The reader. What there is at o before limit, or that there is no such thing. *)
None == [none |-> TRUE]

\* Mutant: a length in the long form may have leading zero octets.
ReadLengthPadded(o, limit) ==
  LET first == data[o + 1]
      count == first - High
      raw   == SubSeq(data, o + 2, o + 1 + count)
  IN  IF \/ o >= limit
         \/ first \in {High, Base - 1}
         \/ /\ first > High
            /\ \/ count > MAX_LENGTH_OCTETS \/ o + 1 + count > limit
               \/ FromBytes(0, raw) < High
        THEN None
        ELSE IF first < High THEN [length |-> first, off |-> o + 1]
                             ELSE [length |-> FromBytes(0, raw), off |-> o + 1 + count]

(* The indefinite form, the reserved octet, lengths that are cut off, too long *)
(* for this reader, or not minimal.                                            *)
ReadLength(o, limit) ==
  LET first == data[o + 1]
      count == first - High
      raw   == SubSeq(data, o + 2, o + 1 + count)
  IN  IF \/ o >= limit
         \/ first \in {High, Base - 1}
         \/ /\ first > High
            /\ \/ count > MAX_LENGTH_OCTETS \/ o + 1 + count > limit
               \/ raw[1] = 0 \/ FromBytes(0, raw) < High
        THEN None
        ELSE IF first < High THEN [length |-> first, off |-> o + 1]
                             ELSE [length |-> FromBytes(0, raw), off |-> o + 1 + count]

\* Mutant: of negative numbers, other spellings are accepted too.
IsMinimalPositive(content) ==
  /\ content # <<>>
  /\ Len(content) > 1 => ~(content[1] = 0 /\ content[2] < High)

(* A number has one spelling: no octet that only repeats the sign. *)
IsMinimal(content) ==
  /\ content # <<>>
  /\ Len(content) > 1 => /\ ~(content[1] = 0 /\ content[2] < High)
                         /\ ~(content[1] = Base - 1 /\ content[2] >= High)

ReadInteger(content) == FromBytes(IF content[1] >= High THEN -1 ELSE 0, content)

(* What _read_value makes of a tag and a content that is not a SEQUENCE's. *)
ReadScalar(tag, content) ==
  CASE tag = TAG_INTEGER /\ IsMinimal(content) -> [kind |-> "int", of |-> ReadInteger(content)]
    [] tag = TAG_OCTET_STRING                  -> [kind |-> "bytes", of |-> content]
    [] tag = TAG_BOOLEAN /\ content \in {<<0>>, <<Base - 1>>}
                                               -> [kind |-> "bool", of |-> content # <<0>>]
    [] OTHER                                   -> None

\* Mutant: a content may run past the SEQUENCE it is in.
HeaderInData(limit) ==
  LET l == ReadLength(off + 1, limit)
  IN  IF off >= limit \/ l = None \/ l.off + l.length > Len(data)
        THEN None
        ELSE [tag |-> data[off + 1], start |-> l.off, end |-> l.off + l.length]

(* Tag and length of the element at off, whose content must fit its container. *)
Header(limit) ==
  LET l == ReadLength(off + 1, limit)
  IN  IF off >= limit \/ l = None \/ l.off + l.length > limit
        THEN None
        ELSE [tag |-> data[off + 1], start |-> l.off, end |-> l.off + l.length]

-----------------------------------------------------------------------------
Top == Last(stack)

(* An item has been read into the call on top of s. *)
WithItem(s, item) == Front(s) \o <<[Last(s) EXCEPT !.items = Append(@, item)]>>

(* parse_der reads one value, a SEQUENCE reads values up to its end. *)
IsCalling == /\ verdict = Reading
             /\ IF Len(stack) = 1 THEN Top.items = <<>> ELSE off < Top.end

(* Python raises a RecursionError for a call too many. *)
Element == IF Len(stack) > MaxDepth THEN None ELSE Header(Top.end)
Scalar  == IF Element = None THEN None
           ELSE ReadScalar(Element.tag, SubSeq(data, Element.start + 1, Element.end))

OpensSequence == Element # None /\ Element.tag = TAG_SEQUENCE

Init == /\ data \in Inputs
        /\ off = 0
        /\ stack = <<[start |-> 0, end |-> Len(data), items |-> <<>>]>>
        /\ verdict = Reading

OpenSequence == /\ IsCalling /\ OpensSequence
                /\ stack' = Append(stack, [start |-> Element.start, end |-> Element.end, items |-> <<>>])
                /\ off' = Element.start
                /\ UNCHANGED <<data, verdict>>

ReadOne == /\ IsCalling /\ Scalar # None
           /\ stack' = WithItem(stack, Scalar)
           /\ off' = Element.end
           /\ UNCHANGED <<data, verdict>>

Raise == /\ IsCalling /\ ~OpensSequence /\ Scalar = None
         /\ verdict' = Refused
         /\ UNCHANGED <<data, off, stack>>

CloseSequence == /\ verdict = Reading /\ Len(stack) > 1 /\ ~IsCalling
                 /\ stack' = WithItem(Front(stack), [kind |-> "seq", of |-> Top.items])
                 /\ off' = Top.end
                 /\ UNCHANGED <<data, verdict>>

\* Mutant: octets after the value go unanswered.
ReturnAtEnd == /\ verdict = Reading /\ Len(stack) = 1 /\ ~IsCalling
               /\ off = Len(data)
               /\ verdict' = Read(Top.items[1])
               /\ UNCHANGED <<data, off, stack>>

(* parse_der: nothing may be left after the value. *)
Return == /\ verdict = Reading /\ Len(stack) = 1 /\ ~IsCalling
          /\ verdict' = IF off # Len(data) THEN Refused ELSE Read(Top.items[1])
          /\ UNCHANGED <<data, off, stack>>

Next == OpenSequence \/ ReadOne \/ Raise \/ CloseSequence \/ Return

(* parse_der is called and runs: it waits for nobody. *)
Spec == Init /\ [][Next]_vars /\ WF_vars(Next)

-----------------------------------------------------------------------------
(* No content is taken from beyond the SEQUENCE it stands in, at any depth:  *)
(* what a container holds is what its length says (verify_vectors.py:89).    *)
InsideContainers == /\ off <= Top.end
                    /\ \A i, j \in DOMAIN stack : i < j => stack[j].end <= stack[i].end

(* Every read ends, whatever the octets: no element makes the loop over a    *)
(* SEQUENCE stand still (verify_vectors.py:94).                              *)
Terminates == <>(verdict # Reading)

(* A value is read from its one encoding and from nothing else, and no       *)
(* encoding is refused (WIRE-SPEC 2.4, 2.5, 4.2.1).                          *)
Answer == INSTANCE Codec WITH Encoding <- encode_value, Values <- Values,
                              input <- data, verdict <- verdict

AnswerKept == Answer!Spec
=============================================================================
