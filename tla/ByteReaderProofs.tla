--------------------------- MODULE ByteReaderProofs ---------------------------
(***************************************************************************)
(* What the reader of ci/verify_vectors.py promises, for octets of any     *)
(* size, any caps on lengths and depth, and any octets read: it implements *)
(* Codec.  A value is read from the octets that encode_value spells it     *)
(* with, and from no others; within the caps, what is spelled is read.     *)
(*                                                                         *)
(* The invariant (IInv) says of each call under way that the octets from   *)
(* its start to where it is spell the items it has read, and of each call  *)
(* but the first that tag and length stand before it where its caller is.  *)
(* While an encoding is read (Complete), the items that each call will     *)
(* return are known, and the octets to its end spell them.                 *)
(*                                                                         *)
(* First the arithmetic: lengths and numbers in two's complement are read  *)
(* as they are spelled, and spelled as they were read.  Sets take the      *)
(* place of predicates in the inductions.                                  *)
(***************************************************************************)
EXTENDS ByteReader, SequenceTheorems, WellFoundedInduction, TLAPS

(* Induction on the natural numbers, for a set of them. *)
NatLess == {pair \in Nat \X Nat : pair[1] < pair[2]}

LEMMA NatLessWellFounded == IsWellFoundedOn(NatLess, Nat)
BY NatLessThanWellFounded DEF OpToRel, NatLess

LEMMA NatInduct ==
  ASSUME NEW I, 0 \in I, \A n \in Nat : n \in I => n + 1 \in I
  PROVE  \A n \in Nat : n \in I
<1> DEFINE bad == {n \in Nat : n \notin I}
<1> SUFFICES ASSUME bad # {} PROVE FALSE
  OBVIOUS
<1>1. PICK m \in bad : \A j \in bad : ~(<<j, m>> \in NatLess)
  <2>1. bad \subseteq Nat
    OBVIOUS
  <2> QED
    BY <2>1, WFMin, NatLessWellFounded
<1>2. m \in Nat /\ m \notin I /\ m # 0
  OBVIOUS
<1>3. m - 1 \in Nat /\ (m - 1) + 1 = m
  BY <1>2
<1>4. m - 1 \in bad
  BY <1>2, <1>3
<1>5. <<m - 1, m>> \in NatLess
  BY <1>2, <1>3 DEF NatLess
<1> QED
  BY <1>1, <1>4, <1>5

(* A function defined by its first value and by each value from the last. *)
Recurs(f, a, step) == f[0] = a /\ \A n \in Nat : f[n + 1] = step[<<f[n], n>>]

LEMMA Recursion ==
  ASSUME NEW S, NEW a \in S, NEW step \in [S \X Nat -> S]
  PROVE  \E f \in [Nat -> S] : Recurs(f, a, step)
<1> DEFINE Up(n) == {g \in [0 .. n -> S] :
                       g[0] = a /\ \A k \in 0 .. n - 1 : g[k + 1] = step[<<g[k], k>>]}
           F(n)  == CHOOSE g : g \in Up(n)
<1>1. \A n \in Nat : \E g : g \in Up(n)
  <2> DEFINE I == {n \in Nat : \E g : g \in Up(n)}
  <2>1. 0 \in I
    <3>1. [k \in 0 .. 0 |-> a] \in Up(0)
      OBVIOUS
    <3> HIDE DEF Up
    <3> QED
      BY <3>1
  <2>2. ASSUME NEW n \in Nat, n \in I PROVE n + 1 \in I
    <3>1. PICK g : g \in Up(n)
      BY <2>2
    <3> DEFINE h == [k \in 0 .. n + 1 |-> IF k = n + 1 THEN step[<<g[n], n>>] ELSE g[k]]
    <3>2. n \in 0 .. n /\ 0 \in 0 .. n /\ g[n] \in S
      BY <3>1
    <3>3. step[<<g[n], n>>] \in S
      BY <3>2
    <3>4. h \in [0 .. n + 1 -> S] /\ h[0] = a
      BY <3>1, <3>2, <3>3
    <3>5. ASSUME NEW k \in 0 .. (n + 1) - 1 PROVE h[k + 1] = step[<<h[k], k>>]
      <4>1. k \in 0 .. n /\ h[k] = g[k]
        OBVIOUS
      <4>2. CASE k = n
        <5>1. k + 1 = n + 1 /\ n + 1 \in 0 .. n + 1
          BY <4>2
        <5>2. h[n + 1] = step[<<g[n], n>>]
          BY <5>1
        <5> QED
          BY <4>1, <4>2, <5>1, <5>2
      <4>3. CASE k # n
        <5>1. k \in 0 .. n - 1 /\ k + 1 \in 0 .. n
          BY <4>1, <4>3
        <5> QED
          BY <3>1, <4>1, <5>1
      <4> QED
        BY <4>2, <4>3
    <3>6. h \in Up(n + 1)
      BY <3>4, <3>5
    <3> HIDE DEF Up, h
    <3> QED
      BY <3>6
  <2> HIDE DEF I
  <2>3. \A n \in Nat : n \in I
    BY <2>1, <2>2, NatInduct
  <2> QED
    BY <2>3 DEF I
<1>2. \A n \in Nat : F(n) \in Up(n)
  <2> HIDE DEF Up
  <2> QED
    BY <1>1
<1>3. \A k \in Nat : \A n, m \in Nat : k <= n /\ k <= m => F(n)[k] = F(m)[k]
  <2> DEFINE I == {k \in Nat : \A n, m \in Nat : k <= n /\ k <= m => F(n)[k] = F(m)[k]}
  <2>1. 0 \in I
    <3>1. \A n \in Nat : F(n)[0] = a
      <4> HIDE DEF F
      <4> QED
        BY <1>2
    <3> HIDE DEF F
    <3> QED
      BY <3>1
  <2>2. ASSUME NEW k \in Nat, k \in I PROVE k + 1 \in I
    <3>1. ASSUME NEW n \in Nat, NEW m \in Nat, k + 1 <= n, k + 1 <= m
          PROVE  F(n)[k + 1] = F(m)[k + 1]
      <4> HIDE DEF F
      <4>1. F(n)[k] = F(m)[k]
        <5>1. k <= n /\ k <= m
          BY <3>1
        <5> QED
          BY <2>2, <5>1
      <4>2. k \in 0 .. n - 1 /\ k \in 0 .. m - 1
        BY <3>1
      <4>3. F(n) \in Up(n) /\ F(m) \in Up(m)
        BY <1>2
      <4> QED
        BY <4>1, <4>2, <4>3
    <3> HIDE DEF F
    <3> QED
      BY <3>1
  <2> HIDE DEF I
  <2>3. \A k \in Nat : k \in I
    BY <2>1, <2>2, NatInduct
  <2> QED
    BY <2>3 DEF I
<1> HIDE DEF F
<1> DEFINE f == [n \in Nat |-> F(n)[n]]
<1>4. f \in [Nat -> S] /\ f[0] = a
  <2>1. ASSUME NEW n \in Nat PROVE F(n)[n] \in S /\ F(n)[0] = a
    <3>1. n \in 0 .. n /\ F(n) \in Up(n)
      BY <1>2
    <3> QED
      BY <3>1
  <2> QED
    BY <2>1
<1>5. ASSUME NEW n \in Nat PROVE f[n + 1] = step[<<f[n], n>>]
  <2>1. F(n + 1)[n] = F(n)[n]
    BY <1>3
  <2>2. F(n + 1) \in Up(n + 1) /\ n \in 0 .. (n + 1) - 1
    BY <1>2
  <2>3. F(n + 1)[n + 1] = step[<<F(n + 1)[n], n>>]
    BY <2>2
  <2> QED
    BY <2>1, <2>3
<1>6. Recurs(f, a, step)
  BY <1>4, <1>5 DEF Recurs
<1> HIDE DEF f
<1> QED
  BY <1>4, <1>6

-----------------------------------------------------------------------------
(* What from_bytes makes of no octets, and of one more than it had. *)
Accumulates(value, sign, c) ==
  value[0] = sign /\ \A k \in 1 .. Len(c) : value[k] = value[k - 1] * Base + c[k]

LEMMA FromBytesIs ==
  ASSUME NEW sign \in Int, NEW c \in Seq(Octet)
  PROVE  \E value \in [0 .. Len(c) -> Int] :
           Accumulates(value, sign, c) /\ FromBytes(sign, c) = value[Len(c)]
<1> DEFINE V(v) == [k \in 0 .. Len(c) |-> IF k = 0 THEN sign ELSE v[k - 1] * Base + c[k]]
           value == CHOOSE v : v = V(v)
           step  == [p \in Int \X Nat |-> IF p[2] + 1 \in 1 .. Len(c)
                                          THEN p[1] * Base + c[p[2] + 1] ELSE p[1]]
<1>1. Base \in Int /\ \A k \in 1 .. Len(c) : c[k] \in Int
  <2>1. Base \in Nat
    BY ByteReaderAssumption
  <2>2. Octet \subseteq Int
    BY <2>1 DEF Octet
  <2>3. \A k \in 1 .. Len(c) : c[k] \in Octet
    BY ElementOfSeq
  <2>4. ASSUME NEW k \in 1 .. Len(c) PROVE c[k] \in Int
    BY <2>2, <2>3, Zenon
  <2> QED
    BY <2>1, <2>4
<1>2. step \in [Int \X Nat -> Int]
  <2>1. ASSUME NEW pair \in Int \X Nat, pair[2] + 1 \in 1 .. Len(c)
        PROVE  pair[1] * Base + c[pair[2] + 1] \in Int
    <3>1. c[pair[2] + 1] \in Int /\ pair[1] \in Int
      BY <1>1, <2>1
    <3> QED
      BY <1>1, <3>1
  <2> QED
    BY <2>1
<1>3. PICK f \in [Nat -> Int] : Recurs(f, sign, step)
  <2> HIDE DEF step
  <2> QED
    BY <1>2, Recursion
<1> DEFINE g == [k \in 0 .. Len(c) |-> f[k]]
<1>4. ASSUME NEW k \in 1 .. Len(c) PROVE f[k] = f[k - 1] * Base + c[k]
  <2>1. k - 1 \in Nat /\ (k - 1) + 1 = k
    OBVIOUS
  <2>2. f[k] = step[<<f[k - 1], k - 1>>]
    <3> HIDE DEF step
    <3> QED
      BY <1>3, <2>1 DEF Recurs
  <2> QED
    BY <2>1, <2>2
<1>5. g = V(g)
  <2>1. ASSUME NEW k \in 0 .. Len(c)
        PROVE  f[k] = IF k = 0 THEN sign ELSE g[k - 1] * Base + c[k]
    BY <1>3, <1>4 DEF Recurs
  <2> QED
    BY <2>1
<1>6. value = V(value)
  <2> HIDE DEF V, g
  <2> QED
    BY <1>5
<1>7. value[0] = sign /\ \A k \in 1 .. Len(c) : value[k] = value[k - 1] * Base + c[k]
  <2>1. Len(c) \in Nat
    OBVIOUS
  <2>2. \A k \in 0 .. Len(c) : value[k] = V(value)[k]
    BY <1>6
  <2> HIDE DEF value
  <2> QED
    BY <2>1, <2>2
<1>8. \A k \in 0 .. Len(c) : value[k] \in Int
  <2> HIDE DEF value
  <2> DEFINE I == {k \in Nat : k <= Len(c) => value[k] \in Int}
  <2>1. 0 \in I
    BY <1>7
  <2>2. ASSUME NEW k \in Nat, k \in I PROVE k + 1 \in I
    <3>1. ASSUME k + 1 <= Len(c) PROVE value[k + 1] \in Int
      <4>1. k + 1 \in 1 .. Len(c) /\ (k + 1) - 1 = k /\ value[k] \in Int
        BY <2>2, <3>1
      <4> QED
        <5>1. value[k + 1] = value[k] * Base + c[k + 1]
          BY <1>7, <4>1
        <5>2. c[k + 1] \in Int /\ Base \in Int /\ value[k] \in Int
          BY <1>1, <4>1
        <5> QED
          BY <5>1, <5>2
    <3> QED
      BY <3>1
  <2> HIDE DEF I
  <2>3. \A k \in Nat : k \in I
    BY <2>1, <2>2, NatInduct
  <2> QED
    BY <2>3 DEF I
<1>9. value \in [0 .. Len(c) -> Int]
  BY <1>6, <1>8
<1>10. FromBytes(sign, c) = value[Len(c)]
  BY DEF FromBytes
<1>11. Accumulates(value, sign, c)
  BY <1>7 DEF Accumulates
<1> HIDE DEF value
<1> QED
  BY <1>9, <1>10, <1>11

LEMMA FromBytesOfNone == ASSUME NEW sign \in Int PROVE FromBytes(sign, <<>>) = sign
<1>1. <<>> \in Seq(Octet) /\ Len(<<>>) = 0
  OBVIOUS
<1>2. PICK value : Accumulates(value, sign, <<>>) /\ FromBytes(sign, <<>>) = value[0]
  BY <1>1, FromBytesIs
<1> QED
  BY <1>2 DEF Accumulates

LEMMA FromBytesOfMore ==
  ASSUME NEW sign \in Int, NEW c \in Seq(Octet), NEW o \in Octet
  PROVE  /\ FromBytes(sign, c) \in Int
         /\ FromBytes(sign, c \o <<o>>) = FromBytes(sign, c) * Base + o
<1> DEFINE d == c \o <<o>>
<1>1. /\ d \in Seq(Octet) /\ Len(d) = Len(c) + 1 /\ Len(c) \in Nat
      /\ d[Len(c) + 1] = o
      /\ \A k \in 1 .. Len(c) : d[k] = c[k]
  OBVIOUS
<1> HIDE DEF d
<1>2. PICK v \in [0 .. Len(c) -> Int] : Accumulates(v, sign, c) /\ FromBytes(sign, c) = v[Len(c)]
  BY FromBytesIs
<1>3. PICK w \in [0 .. Len(d) -> Int] : Accumulates(w, sign, d) /\ FromBytes(sign, d) = w[Len(d)]
  BY <1>1, FromBytesIs
<1>4. \A k \in Nat : k <= Len(c) => w[k] = v[k]
  <2> DEFINE I == {k \in Nat : k <= Len(c) => w[k] = v[k]}
  <2>1. 0 \in I
    BY <1>2, <1>3 DEF Accumulates
  <2>2. ASSUME NEW k \in Nat, k \in I PROVE k + 1 \in I
    <3>1. ASSUME k + 1 <= Len(c) PROVE w[k + 1] = v[k + 1]
      <4>1. k + 1 \in 1 .. Len(c) /\ k + 1 \in 1 .. Len(d) /\ (k + 1) - 1 = k
        BY <1>1, <3>1
      <4>2. w[k + 1] = w[k] * Base + d[k + 1] /\ v[k + 1] = v[k] * Base + c[k + 1]
        BY <1>2, <1>3, <4>1 DEF Accumulates
      <4>3. w[k] = v[k] /\ d[k + 1] = c[k + 1]
        BY <1>1, <2>2, <3>1, <4>1
      <4> QED
        BY <4>2, <4>3
    <3> QED
      BY <3>1
  <2> HIDE DEF I
  <2>3. \A k \in Nat : k \in I
    BY <2>1, <2>2, NatInduct
  <2> QED
    BY <2>3 DEF I
<1>5. w[Len(c) + 1] = w[Len(c)] * Base + d[Len(c) + 1]
  <2>1. Len(c) + 1 \in 1 .. Len(d) /\ (Len(c) + 1) - 1 = Len(c)
    BY <1>1
  <2> QED
    BY <1>3, <2>1 DEF Accumulates
<1>6. w[Len(c)] = v[Len(c)] /\ v[Len(c)] \in Int
  BY <1>1, <1>2, <1>4
<1> QED
  BY <1>1, <1>2, <1>3, <1>5, <1>6 DEF d

-----------------------------------------------------------------------------
(* What is left of a number without its last octet, and that octet. *)
LEMMA Halves ==
  /\ Base \in Nat /\ High \in Nat /\ High > 1 /\ Base = High + High
  /\ Octet \subseteq Nat
BY ByteReaderAssumption DEF Octet, High

LEMMA DivMod ==
  ASSUME NEW m \in Int, NEW b \in Nat, b > 1
  PROVE  \E q \in Int, r \in 0 .. b - 1 : q = m \div b /\ r = m % b /\ m = q * b + r
<1>1. m \div b \in Int /\ m % b \in 0 .. b - 1
  OBVIOUS
<1>2. PICK q \in Int, r \in 0 .. b - 1 : q = m \div b /\ r = m % b
  BY <1>1
<1>3. m = b * q + r
  BY <1>2
<1>4. b * q = q * b
  OBVIOUS
<1> QED
  BY <1>2, <1>3, <1>4

LEMMA LastOctet ==
  ASSUME NEW m \in Int
  PROVE  \E q \in Int, o \in Octet : q = m \div Base /\ o = m % Base /\ m = q * Base + o
BY DivMod, Halves DEF Octet

LEMMA LastOctetIs ==
  ASSUME NEW q \in Int, NEW o \in Octet
  PROVE  (q * Base + o) \div Base = q /\ (q * Base + o) % Base = o
BY Halves DEF Octet

Size(m) == IF m < 0 THEN -m ELSE m

LEMMA FewerOctets ==
  ASSUME NEW half \in {High, Base}, NEW m \in Int, m \notin -half .. half - 1
  PROVE  Size(m \div Base) < Size(m)
<1>1. PICK q \in Int, o \in Octet : m \div Base = q /\ m = q * Base + o
  BY LastOctet
<1>2. o \in 0 .. Base - 1 /\ Base \in Nat /\ Base > 1 /\ (m > 0 \/ m < -1)
  BY Halves DEF Octet
<1>3. CASE m > 0
  <2>1. q < m /\ q >= 0
    BY <1>1, <1>2, <1>3
  <2> QED
    BY <1>1, <1>3, <2>1 DEF Size
<1>4. CASE m < -1
  <2>1. q < 0 /\ q > m
    BY <1>1, <1>2, <1>4
  <2> QED
    BY <1>1, <1>4, <2>1 DEF Size
<1> QED
  BY <1>2, <1>3, <1>4

(* Induction on the octets of a number. *)
LEMMA SizeInduct ==
  ASSUME NEW I,
         \A m \in Int : (\A j \in Int : Size(j) < Size(m) => j \in I) => m \in I
  PROVE  \A m \in Int : m \in I
<1> DEFINE K == {k \in Nat : \A m \in Int : Size(m) <= k => m \in I}
<1>1. \A m \in Int : Size(m) \in Nat
  BY DEF Size
<1>2. 0 \in K
  <2>1. ASSUME NEW m \in Int, Size(m) <= 0 PROVE m \in I
    <3>1. \A j \in Int : ~(Size(j) < Size(m))
      BY <1>1, <2>1
    <3> QED
      BY <3>1
  <2> QED
    BY <2>1
<1>3. ASSUME NEW k \in Nat, k \in K PROVE k + 1 \in K
  <2>1. ASSUME NEW m \in Int, Size(m) <= k + 1 PROVE m \in I
    <3>1. ASSUME NEW j \in Int, Size(j) < Size(m) PROVE j \in I
      <4>1. Size(j) <= k
        BY <1>1, <2>1, <3>1
      <4> QED
        BY <1>3, <4>1
    <3> QED
      BY <3>1
  <2> QED
    BY <2>1
<1> HIDE DEF K
<1>4. \A k \in Nat : k \in K
  BY <1>2, <1>3, NatInduct
<1> QED
  BY <1>1, <1>4 DEF K

LEMMA DigitInduct ==
  ASSUME NEW half \in {High, Base}, NEW I,
         \A m \in Int : m \in -half .. half - 1 \/ m \div Base \in I => m \in I
  PROVE  \A m \in Int : m \in I
<1>1. ASSUME NEW m \in Int, \A j \in Int : Size(j) < Size(m) => j \in I
      PROVE  m \in I
  <2>1. m \div Base \in Int
    BY LastOctet
  <2> QED
    BY <1>1, <2>1, FewerOctets
<1> QED
  BY <1>1, SizeInduct

(* What to_bytes spells, octet by octet. *)
Bytes(b, half) ==
  [m \in Int |-> IF m \in -half .. half - 1 THEN <<m % Base>>
                 ELSE b[m \div Base] \o <<m % Base>>]

LEMMA BytesExist == ASSUME NEW half \in {High, Base} PROVE \E b : b = Bytes(b, half)
<1> DEFINE S     == [Int -> Seq(Octet)]
           one   == [m \in Int |-> <<m % Base>>]
           step  == [p \in S \X Nat |-> Bytes(p[1], half)]
<1>1. \A m \in Int : m \div Base \in Int /\ m % Base \in Octet
  BY LastOctet
<1>2. ASSUME NEW b \in S PROVE Bytes(b, half) \in S
  <2>1. ASSUME NEW m \in Int
        PROVE  (IF m \in -half .. half - 1 THEN <<m % Base>> ELSE b[m \div Base] \o <<m % Base>>)
                  \in Seq(Octet)
    <3>1. <<m % Base>> \in Seq(Octet) /\ b[m \div Base] \in Seq(Octet)
      BY <1>1
    <3> QED
      BY <3>1
  <2> QED
    BY <2>1 DEF Bytes
<1>3. one \in S /\ step \in [S \X Nat -> S]
  <2>1. one \in S
    BY <1>1
  <2> HIDE DEF S
  <2>2. ASSUME NEW p \in S \X Nat PROVE Bytes(p[1], half) \in S
    BY <1>2
  <2> QED
    BY <2>1, <2>2
<1>4. PICK f \in [Nat -> S] : Recurs(f, one, step)
  <2> HIDE DEF S, one, step
  <2> QED
    BY <1>3, Recursion
<1>5. ASSUME NEW k \in Nat PROVE f[k + 1] = Bytes(f[k], half)
  <2>1. f[k + 1] = step[<<f[k], k>>]
    <3> HIDE DEF step
    <3> QED
      BY <1>4 DEF Recurs
  <2>2. <<f[k], k>> \in S \X Nat
    BY <1>4
  <2> HIDE DEF S
  <2> QED
    BY <2>1, <2>2
<1>6. f[0] = one
  BY <1>4 DEF Recurs
<1> HIDE DEF S, one, step
<1>7. \A k \in Nat : \A m \in Int : Size(m) <= k => f[k + 1][m] = f[k][m]
  <2> DEFINE I == {k \in Nat : \A m \in Int : Size(m) <= k => f[k + 1][m] = f[k][m]}
  <2>1. 0 \in I
    <3>1. ASSUME NEW m \in Int, Size(m) <= 0 PROVE f[0 + 1][m] = f[0][m]
      <4>1. m = 0 /\ m \in -half .. half - 1
        BY <3>1, Halves DEF Size
      <4>2. f[0 + 1] = Bytes(f[0], half)
        BY <1>5
      <4> QED
        BY <1>6, <4>1, <4>2 DEF Bytes, one
    <3> QED
      BY <3>1
  <2>2. ASSUME NEW k \in Nat, k \in I PROVE k + 1 \in I
    <3>1. ASSUME NEW m \in Int, Size(m) <= k + 1 PROVE f[(k + 1) + 1][m] = f[k + 1][m]
      <4>1. f[(k + 1) + 1] = Bytes(f[k + 1], half) /\ f[k + 1] = Bytes(f[k], half)
        BY <1>5
      <4>2. CASE m \in -half .. half - 1
        BY <4>1, <4>2 DEF Bytes
      <4>3. CASE m \notin -half .. half - 1
        <5>1. m \div Base \in Int /\ Size(m \div Base) <= k
          <6>1. Size(m \div Base) < Size(m) /\ Size(m \div Base) \in Int /\ Size(m) \in Int
            BY <1>1, <4>3, FewerOctets DEF Size
          <6> QED
            BY <1>1, <3>1, <6>1
        <5>2. f[k + 1][m \div Base] = f[k][m \div Base]
          BY <2>2, <5>1
        <5> QED
          BY <4>1, <4>3, <5>2 DEF Bytes
      <4> QED
        BY <4>2, <4>3
    <3> QED
      BY <3>1
  <2> HIDE DEF I
  <2>3. \A k \in Nat : k \in I
    BY <2>1, <2>2, NatInduct
  <2> QED
    BY <2>3 DEF I
<1>8. \A j \in Nat : \A m \in Int : f[Size(m) + j][m] = f[Size(m)][m]
  <2> DEFINE I == {j \in Nat : \A m \in Int : f[Size(m) + j][m] = f[Size(m)][m]}
  <2>1. 0 \in I
    BY DEF Size
  <2>2. ASSUME NEW j \in Nat, j \in I PROVE j + 1 \in I
    <3>1. ASSUME NEW m \in Int PROVE f[Size(m) + (j + 1)][m] = f[Size(m)][m]
      <4>1. Size(m) \in Nat
        BY DEF Size
      <4>2. Size(m) + j \in Nat /\ Size(m) <= Size(m) + j /\ Size(m) + (j + 1) = (Size(m) + j) + 1
        BY <4>1
      <4>3. f[(Size(m) + j) + 1][m] = f[Size(m) + j][m]
        BY <1>7, <4>2
      <4> QED
        BY <2>2, <4>2, <4>3
    <3> QED
      BY <3>1
  <2> HIDE DEF I
  <2>3. \A k \in Nat : k \in I
    BY <2>1, <2>2, NatInduct
  <2> QED
    BY <2>3 DEF I
<1> DEFINE b == [m \in Int |-> f[Size(m)][m]]
<1>9. ASSUME NEW m \in Int
      PROVE  b[m] = IF m \in -half .. half - 1 THEN <<m % Base>> ELSE b[m \div Base] \o <<m % Base>>
  <2>1. Size(m) \in Nat
    BY DEF Size
  <2>2. b[m] = Bytes(f[Size(m)], half)[m]
    BY <1>5, <1>7, <2>1
  <2>3. CASE m \in -half .. half - 1
    BY <2>2, <2>3 DEF Bytes
  <2>4. CASE m \notin -half .. half - 1
    <3>1. m \div Base \in Int /\ Size(m \div Base) \in Nat /\ Size(m \div Base) < Size(m)
      BY <1>1, <2>4, FewerOctets DEF Size
    <3> DEFINE j == Size(m) - Size(m \div Base)
    <3>2. j \in Nat /\ Size(m) = Size(m \div Base) + j
      BY <2>1, <3>1
    <3>3. f[Size(m)][m \div Base] = b[m \div Base]
      BY <1>8, <3>1, <3>2
    <3> QED
      BY <2>2, <2>4, <3>3 DEF Bytes
  <2> QED
    BY <2>3, <2>4
<1>10. b = Bytes(b, half)
  <2> DEFINE e(m) == IF m \in -half .. half - 1 THEN <<m % Base>> ELSE b[m \div Base] \o <<m % Base>>
  <2>1. Bytes(b, half) = [m \in Int |-> e(m)]
    BY DEF Bytes
  <2>2. \A m \in Int : f[Size(m)][m] = e(m)
    BY <1>9
  <2> HIDE DEF e
  <2> QED
    BY <2>1, <2>2
<1> HIDE DEF b
<1> QED
  BY <1>10

LEMMA ToBytesIs ==
  ASSUME NEW half \in {High, Base}, NEW n \in Int
  PROVE  /\ ToBytes(n, half) \in Seq(Octet) /\ Len(ToBytes(n, half)) > 0
         /\ n \in -half .. half - 1 => ToBytes(n, half) = <<n % Base>>
         /\ n \notin -half .. half - 1 =>
              ToBytes(n, half) = ToBytes(n \div Base, half) \o <<n % Base>>
<1> DEFINE bytes == CHOOSE b : b = Bytes(b, half)
<1>1. \A m : ToBytes(m, half) = bytes[m]
  BY DEF ToBytes, Bytes
<1>2. bytes = Bytes(bytes, half)
  BY BytesExist
<1> HIDE DEF bytes
<1>3. \A m \in Int : bytes[m] = IF m \in -half .. half - 1 THEN <<m % Base>>
                                ELSE bytes[m \div Base] \o <<m % Base>>
  <2>1. \A m \in Int : bytes[m] = Bytes(bytes, half)[m]
    BY <1>2
  <2> QED
    BY <2>1 DEF Bytes
<1> DEFINE I == {m \in Int : bytes[m] \in Seq(Octet) /\ Len(bytes[m]) > 0}
<1>4. ASSUME NEW m \in Int, m \in -half .. half - 1 \/ m \div Base \in I PROVE m \in I
  <2>1. m % Base \in Octet /\ <<m % Base>> \in Seq(Octet)
    BY LastOctet
  <2>2. CASE m \in -half .. half - 1
    <3>1. bytes[m] = <<m % Base>> /\ Len(<<m % Base>>) = 1
      BY <1>3, <2>2
    <3> HIDE DEF I
    <3>2. bytes[m] \in Seq(Octet) /\ Len(bytes[m]) > 0
      BY <2>1, <3>1
    <3> QED
      BY <3>2 DEF I
  <2>3. CASE m \notin -half .. half - 1
    <3>1. bytes[m] = bytes[m \div Base] \o <<m % Base>>
      BY <1>3, <2>3
    <3>2. bytes[m \div Base] \in Seq(Octet)
      BY <1>4, <2>3
    <3> HIDE DEF I
    <3>3. bytes[m] \in Seq(Octet) /\ Len(bytes[m]) > 0
      BY <2>1, <3>1, <3>2
    <3> QED
      BY <3>3 DEF I
  <2> QED
    BY <2>2, <2>3
<1> HIDE DEF I
<1>5. \A m \in Int : m \in I
  BY <1>4, DigitInduct
<1> QED
  BY <1>1, <1>3, <1>5 DEF I

-----------------------------------------------------------------------------
LEMMA SplitLast ==
  ASSUME NEW S, NEW c \in Seq(S), NEW k \in Nat, Len(c) = k + 1
  PROVE  \E d \in Seq(S), o \in S :
           /\ c = d \o <<o>> /\ Len(d) = k
           /\ c[k + 1] = o /\ \A i \in 1 .. k : c[i] = d[i]
<1>1. PICK d \in Seq(S), o \in S : c = Append(d, o)
  BY SequenceEmptyOrAppend
<1>2. c = d \o <<o>> /\ Len(d) = k
  BY <1>1
<1>3. c[k + 1] = o /\ \A i \in 1 .. k : c[i] = d[i]
  BY <1>1, <1>2
<1> QED
  BY <1>2, <1>3

LEMMA FromBytesOfOne ==
  ASSUME NEW sign \in Int, NEW o \in Octet
  PROVE  FromBytes(sign, <<o>>) = sign * Base + o
<1>1. <<>> \in Seq(Octet) /\ <<>> \o <<o>> = <<o>>
  OBVIOUS
<1> QED
  BY <1>1, FromBytesOfNone, FromBytesOfMore

LEMMA OneElement ==
  ASSUME NEW S, NEW c \in Seq(S), Len(c) = 1
  PROVE  c[1] \in S /\ c = <<c[1]>>
OBVIOUS

LEMMA OneOctet ==
  ASSUME NEW o \in Octet
  PROVE  o \in Nat /\ o < Base /\ o \div Base = 0 /\ o % Base = o
<1>1. o \in Nat /\ o < Base /\ o = 0 * Base + o
  BY Halves DEF Octet
<1> QED
  BY <1>1, LastOctetIs

LEMMA LengthOctetsIs ==
  ASSUME NEW n \in Nat
  PROVE  /\ LengthOctets(n) \in Seq(Octet)
         /\ Len(LengthOctets(n)) \in Nat /\ Len(LengthOctets(n)) > 0
         /\ n < Base => LengthOctets(n) = <<n>>
         /\ n >= Base => /\ n \div Base \in Nat
                         /\ LengthOctets(n) = LengthOctets(n \div Base) \o <<n % Base>>
<1> DEFINE b == ToBytes(n, Base)
           rest == ToBytes(n \div Base, Base) \o <<n % Base>>
<1>1. /\ b \in Seq(Octet) /\ Len(b) > 0
      /\ n \in -Base .. Base - 1 => b = <<n % Base>>
      /\ n \notin -Base .. Base - 1 => b = rest
  BY ToBytesIs
<1>2. n < Base => n \in -Base .. Base - 1 /\ n % Base = n
  BY OneOctet, Halves DEF Octet
<1>3. n >= Base => n \notin -Base .. Base - 1
  BY Halves
<1>4. n \div Base \in Nat
  <2>1. PICK q \in Int, o \in Octet : q = n \div Base /\ n = q * Base + o
    BY LastOctet
  <2>2. o < Base /\ n >= 0
    BY OneOctet
  <2>3. q >= 0
    BY <2>1, <2>2, Halves
  <2> QED
    BY <2>1, <2>3
<1> HIDE DEF b, rest
<1>5. Len(b) \in Nat
  BY <1>1
<1> QED
  BY <1>1, <1>2, <1>3, <1>4, <1>5 DEF b, rest, LengthOctets

LEMMA LengthInduct ==
  ASSUME NEW I, \A n \in Nat : n < Base \/ n \div Base \in I => n \in I
  PROVE  \A n \in Nat : n \in I
<1> DEFINE J == {m \in Int : m >= 0 => m \in I}
<1>1. ASSUME NEW m \in Int, m \in -Base .. Base - 1 \/ m \div Base \in J PROVE m \in J
  <2>1. ASSUME m >= 0 PROVE m \in I
    <3>1. m < Base => m \in I
      BY <2>1
    <3>2. m >= Base => m \div Base \in Nat /\ m \notin -Base .. Base - 1
      BY <2>1, LengthOctetsIs, Halves
    <3> QED
      BY <1>1, <2>1, <3>1, <3>2, Halves
  <2> QED
    BY <2>1
<1> HIDE DEF J
<1>2. \A m \in Int : m \in J
  BY <1>1, DigitInduct
<1> QED
  BY <1>2 DEF J

(* The octets of a length: what is read of them is spelled as they are. *)
LEMMA LengthSpelledAsRead ==
  ASSUME NEW c \in Seq(Octet), Len(c) > 0, c[1] # 0
  PROVE  FromBytes(0, c) \in Nat /\ FromBytes(0, c) > 0 /\ LengthOctets(FromBytes(0, c)) = c
<1> DEFINE Good(e) == /\ FromBytes(0, e) \in Nat /\ FromBytes(0, e) > 0
                      /\ LengthOctets(FromBytes(0, e)) = e
           I == {k \in Nat : \A e \in Seq(Octet) : Len(e) = k + 1 /\ e[1] # 0 => Good(e)}
<1>1. ASSUME NEW e \in Seq(Octet), Len(e) = 1, e[1] # 0 PROVE Good(e)
  <2>1. PICK o \in Octet : e = <<o>> /\ o # 0
    BY <1>1, OneElement
  <2>2. FromBytes(0, <<o>>) = o
    BY FromBytesOfOne, OneOctet, Halves
  <2>3. LengthOctets(o) = <<o>>
    BY OneOctet, LengthOctetsIs
  <2> QED
    BY <2>1, <2>2, <2>3, OneOctet
<1>2. 0 \in I
  <2> HIDE DEF Good
  <2> QED
    BY <1>1
<1>3. ASSUME NEW k \in Nat, k \in I PROVE k + 1 \in I
  <2>1. ASSUME NEW e \in Seq(Octet), Len(e) = (k + 1) + 1, e[1] # 0 PROVE Good(e)
    <3>0. k + 1 \in Nat
      OBVIOUS
    <3>1. PICK d \in Seq(Octet), o \in Octet :
            /\ e = d \o <<o>> /\ Len(d) = k + 1
            /\ e[(k + 1) + 1] = o /\ \A i \in 1 .. k + 1 : e[i] = d[i]
      BY <2>1, <3>0, SplitLast, Zenon
    <3>2. Good(d)
      <4>1. d[1] # 0
        BY <2>1, <3>1
      <4> HIDE DEF Good
      <4> QED
        BY <1>3, <3>1, <4>1
    <3> DEFINE m == FromBytes(0, d)
    <3>3. FromBytes(0, e) = m * Base + o
      BY <3>1, FromBytesOfMore
    <3>4. m \in Nat /\ m > 0 /\ LengthOctets(m) = d
      BY <3>2
    <3> HIDE DEF m
    <3> DEFINE n == m * Base + o
    <3>5. n \in Nat /\ n >= Base
      BY <3>4, Halves
    <3>6. n \div Base = m /\ n % Base = o
      BY <3>4, LastOctetIs
    <3> HIDE DEF n
    <3>8. LengthOctets(n) = LengthOctets(n \div Base) \o <<n % Base>>
      BY <3>5, LengthOctetsIs
    <3>9. LengthOctets(n) = e
      BY <3>1, <3>4, <3>6, <3>8
    <3>10. n > 0 /\ FromBytes(0, e) = n
      BY <3>3, <3>5, Halves DEF n
    <3> QED
      BY <3>5, <3>9, <3>10
  <2> HIDE DEF Good
  <2> QED
    BY <2>1
<1> HIDE DEF I, Good
<1>4. \A k \in Nat : k \in I
  BY <1>2, <1>3, NatInduct
<1>5. Len(c) - 1 \in Nat /\ Len(c) = (Len(c) - 1) + 1
  OBVIOUS
<1>6. Good(c)
  BY <1>4, <1>5 DEF I
<1> QED
  BY <1>6 DEF Good

(* And what is spelled is read. *)
LEMMA LengthReadAsSpelled ==
  ASSUME NEW n \in Nat, n > 0
  PROVE  LengthOctets(n)[1] # 0 /\ FromBytes(0, LengthOctets(n)) = n
<1> DEFINE b(m) == LengthOctets(m)
           I == {m \in Nat : m > 0 => b(m)[1] # 0 /\ FromBytes(0, b(m)) = m}
<1>1. ASSUME NEW m \in Nat, m < Base \/ m \div Base \in I PROVE m \in I
  <2>1. ASSUME m > 0 PROVE b(m)[1] # 0 /\ FromBytes(0, b(m)) = m
    <3>1. CASE m < Base
      <4>0. m \in Octet
        BY <3>1, Halves DEF Octet
      <4>1. b(m) = <<m>> /\ m \in Octet
        BY <3>1, <4>0, LengthOctetsIs
      <4>2. FromBytes(0, <<m>>) = m
        BY <4>1, FromBytesOfOne, Halves
      <4> QED
        BY <2>1, <4>1, <4>2
    <3>2. CASE m >= Base
      <4>1. PICK q \in Int, o \in Octet : q = m \div Base /\ o = m % Base /\ m = q * Base + o
        BY LastOctet
      <4>2. q \in Nat /\ b(m) = b(q) \o <<o>>
        BY <3>2, <4>1, LengthOctetsIs
      <4>3. b(q) \in Seq(Octet) /\ Len(b(q)) > 0
        BY <4>2, LengthOctetsIs
      <4>4. q > 0
        BY <3>2, <4>1, <4>2, OneOctet, Halves
      <4>5. b(q)[1] # 0 /\ FromBytes(0, b(q)) = q
        BY <1>1, <3>2, <4>1, <4>4, Halves
      <4> HIDE DEF b
      <4>6. (b(q) \o <<o>>)[1] = b(q)[1]
        BY <4>3
      <4>7. FromBytes(0, b(q) \o <<o>>) = q * Base + o
        BY <4>3, <4>5, FromBytesOfMore
      <4> QED
        BY <4>1, <4>2, <4>5, <4>6, <4>7
    <3> QED
      BY <3>1, <3>2, Halves
  <2> QED
    BY <2>1
<1> HIDE DEF I
<1>2. \A m \in Nat : m \in I
  BY <1>1, LengthInduct
<1> QED
  BY <1>2 DEF I

(* So have lengths: octets of which the first is not zero are read as a length *)
(* when they are what encode_value makes of it (_read_length).                 *)
THEOREM LengthsHaveOneSpelling ==
  ASSUME NEW c \in Seq(Octet), NEW n \in Nat, n > 0
  PROVE  c # <<>> /\ c[1] # 0 /\ FromBytes(0, c) = n <=> c = LengthOctets(n)
<1>1. c # <<>> /\ c[1] # 0 => LengthOctets(FromBytes(0, c)) = c
  <2>1. c # <<>> => Len(c) > 0
    BY EmptySeq
  <2> QED
    BY <2>1, LengthSpelledAsRead
<1>2. LengthOctets(n)[1] # 0 /\ FromBytes(0, LengthOctets(n)) = n
  BY LengthReadAsSpelled
<1>3. LengthOctets(n) # <<>>
  <2>1. Len(LengthOctets(n)) > 0
    BY LengthOctetsIs
  <2>2. Len(<<>>) = 0
    OBVIOUS
  <2> QED
    BY <2>1, <2>2
<1> QED
  BY <1>1, <1>2, <1>3

(* A smaller length takes no more octets. *)
LEMMA LengthsGrow ==
  ASSUME NEW m \in Nat, NEW n \in Nat, m <= n
  PROVE  Len(LengthOctets(m)) <= Len(LengthOctets(n))
<1> DEFINE b(j) == LengthOctets(j)
           I == {k \in Nat : \A j \in Nat : j <= k => Len(b(j)) <= Len(b(k))}
<1>1. ASSUME NEW k \in Nat, k < Base \/ k \div Base \in I PROVE k \in I
  <2>1. ASSUME NEW j \in Nat, j <= k PROVE Len(b(j)) <= Len(b(k))
    <3>1. Len(b(k)) > 0 /\ Len(b(k)) \in Nat
      BY LengthOctetsIs
    <3>2. CASE j < Base
      <4>1. b(j) = <<j>>
        BY <3>2, LengthOctetsIs
      <4> HIDE DEF b
      <4>2. Len(b(j)) = 1
        BY <4>1
      <4> QED
        BY <3>1, <4>2
    <3>3. CASE j >= Base
      <4>1. k >= Base
        BY <2>1, <3>3, Halves
      <4>2. PICK q \in Int, o \in Octet : q = k \div Base /\ o = k % Base /\ k = q * Base + o
        BY LastOctet
      <4>3. PICK p \in Int, r \in Octet : p = j \div Base /\ r = j % Base /\ j = p * Base + r
        BY LastOctet
      <4>4. p \in Nat /\ q \in Nat /\ b(j) = b(p) \o <<r>> /\ b(k) = b(q) \o <<o>>
        BY <3>3, <4>1, <4>2, <4>3, LengthOctetsIs
      <4>5. p <= q
        <5>1. SUFFICES ASSUME p >= q + 1 PROVE FALSE
          BY <4>4
        <5>2. p * Base >= (q + 1) * Base
          BY <5>1, <4>4, Halves
        <5>3. (q + 1) * Base = q * Base + Base
          BY <4>4, Halves
        <5>4. p * Base \in Int /\ q * Base \in Int /\ o < Base /\ o \in Nat /\ r \in Nat
          BY Halves, OneOctet
        <5> DEFINE pb == p * Base
                   qb == q * Base
        <5>5. /\ pb \in Int /\ qb \in Int /\ pb >= qb + Base
              /\ k = qb + o /\ j = pb + r /\ j <= k
          BY <2>1, <4>2, <4>3, <5>2, <5>3, <5>4
        <5> HIDE DEF pb, qb
        <5> QED
          BY <5>4, <5>5, Halves
      <4>6. Len(b(p)) <= Len(b(q))
        <5>1. ~(k < Base)
          BY <4>1, Halves
        <5>2. q \in I
          BY <1>1, <4>2, <5>1
        <5> HIDE DEF b
        <5> QED
          BY <4>4, <4>5, <5>2
      <4>7. b(p) \in Seq(Octet) /\ b(q) \in Seq(Octet)
        BY <4>4, LengthOctetsIs
      <4> HIDE DEF b
      <4>8. Len(b(j)) = Len(b(p)) + 1 /\ Len(b(k)) = Len(b(q)) + 1
        BY <4>4, <4>7
      <4> QED
        BY <4>6, <4>7, <4>8
    <3> QED
      BY <3>2, <3>3, Halves
  <2> QED
    BY <2>1
<1> HIDE DEF I
<1>2. \A k \in Nat : k \in I
  BY <1>1, LengthInduct
<1> QED
  BY <1>2 DEF I

-----------------------------------------------------------------------------
LEMMA MinimalSignedIs ==
  ASSUME NEW n \in Int
  PROVE  /\ MinimalSigned(n) \in Seq(Octet)
         /\ Len(MinimalSigned(n)) \in Nat /\ Len(MinimalSigned(n)) > 0
         /\ n \in -High .. High - 1 => MinimalSigned(n) = <<n % Base>>
         /\ n \notin -High .. High - 1 =>
              MinimalSigned(n) = MinimalSigned(n \div Base) \o <<n % Base>>
<1> DEFINE b == ToBytes(n, High)
           rest == ToBytes(n \div Base, High) \o <<n % Base>>
<1>1. /\ b \in Seq(Octet) /\ Len(b) > 0
      /\ n \in -High .. High - 1 => b = <<n % Base>>
      /\ n \notin -High .. High - 1 => b = rest
  BY ToBytesIs
<1> HIDE DEF b, rest
<1>2. Len(b) \in Nat
  BY <1>1
<1> QED
  BY <1>1, <1>2 DEF b, rest, MinimalSigned

(* The octet of a number of one octet. *)
LEMMA OneSignedOctet ==
  ASSUME NEW n \in -High .. High - 1
  PROVE  /\ n \in Int /\ n % Base \in Octet
         /\ n >= 0 => n % Base = n /\ n % Base < High
         /\ n < 0 => n % Base = n + Base /\ n % Base >= High
<1>1. n \in Int /\ High \in Nat /\ Base \in Nat /\ Base = High + High
  BY Halves
<1>2. CASE n >= 0
  <2>1. n \in Octet
    BY <1>1, <1>2 DEF Octet
  <2> QED
    BY <1>1, <1>2, <2>1, OneOctet
<1>3. CASE n < 0
  <2>1. PICK p \in Octet : p = n + Base
    BY <1>1, <1>3 DEF Octet
  <2>2. (-1) * Base + p = n /\ -1 \in Int
    BY <1>1, <2>1, OneOctet
  <2>3. ((-1) * Base + p) % Base = p
    BY <2>2, LastOctetIs
  <2> QED
    BY <1>1, <1>3, <2>1, <2>2, <2>3
<1> QED
  BY <1>1, <1>2, <1>3

SignOf(c) == IF c[1] >= High THEN -1 ELSE 0

LEMMA ReadIntegerIs ==
  ASSUME NEW c
  PROVE  SignOf(c) \in Int /\ ReadInteger(c) = FromBytes(SignOf(c), c)
BY DEF SignOf, ReadInteger

(* A number and one octet more, whether it could have done without it. *)
LEMMA OctetTooMany ==
  ASSUME NEW m \in Int, NEW o \in Octet
  PROVE  /\ (m * Base + o) \in Int
         /\ (m * Base + o) \in -High .. High - 1 <=> \/ m = 0 /\ o < High
                                                     \/ m = -1 /\ o >= High
<1>1. o \in Nat /\ o < Base /\ Base \in Nat /\ High \in Nat /\ Base = High + High /\ High > 1
  BY OneOctet, Halves
<1>2. m >= 1 => m * Base >= Base
  BY <1>1
<1>3. m <= -2 => m * Base <= -2 * Base
  BY <1>1
<1>4. m = 0 => m * Base = 0
  BY <1>1
<1>5. m = -1 => m * Base = -Base
  BY <1>1
<1>6. m * Base \in Int
  BY <1>1
<1> QED
  BY <1>1, <1>2, <1>3, <1>4, <1>5, <1>6

(* The octets of an INTEGER: what is read of them is spelled as they are. *)
LEMMA IntegerSpelledAsRead ==
  ASSUME NEW c \in Seq(Octet), IsMinimal(c)
  PROVE  ReadInteger(c) \in Int /\ MinimalSigned(ReadInteger(c)) = c
<1> DEFINE Good(e) == ReadInteger(e) \in Int /\ MinimalSigned(ReadInteger(e)) = e
           I == {k \in Nat : \A e \in Seq(Octet) : Len(e) = k + 1 /\ IsMinimal(e) => Good(e)}
<1>1. ASSUME NEW e \in Seq(Octet), Len(e) = 1 PROVE Good(e)
  <2>1. PICK o \in Octet : e = <<o>> /\ e[1] = o
    BY <1>1, OneElement
  <2> DEFINE n == SignOf(e) * Base + o
  <2>2. ReadInteger(e) = n
    BY <2>1, ReadIntegerIs, FromBytesOfOne
  <2>3. n \in -High .. High - 1
    BY <2>1, ReadIntegerIs, OctetTooMany, OneOctet, Halves DEF SignOf
  <2>4. n % Base = o
    BY ReadIntegerIs, LastOctetIs
  <2> HIDE DEF n
  <2>5. MinimalSigned(n) = <<n % Base>> /\ n \in Int
    BY <2>3, MinimalSignedIs, OneSignedOctet
  <2> QED
    BY <2>1, <2>2, <2>4, <2>5
<1>2. 0 \in I
  <2> HIDE DEF Good
  <2> QED
    BY <1>1
<1>3. ASSUME NEW k \in Nat, k \in I PROVE k + 1 \in I
  <2>1. ASSUME NEW e \in Seq(Octet), Len(e) = (k + 1) + 1, IsMinimal(e) PROVE Good(e)
    <3>1. k + 1 \in Nat
      OBVIOUS
    <3>2. PICK d \in Seq(Octet), o \in Octet :
            /\ e = d \o <<o>> /\ Len(d) = k + 1
            /\ e[(k + 1) + 1] = o /\ \A i \in 1 .. k + 1 : e[i] = d[i]
      BY <2>1, <3>1, SplitLast
    <3>3. d[1] = e[1] /\ SignOf(d) = SignOf(e) /\ d[1] \in Octet
      BY <3>2 DEF SignOf
    <3>4. IsMinimal(d)
      <4>1. Len(d) > 1 => d[2] = e[2]
        BY <3>2
      <4>2. Len(e) > 1 /\ d # <<>>
        BY <2>1, <3>2
      <4>3. /\ ~(e[1] = 0 /\ e[2] < High)
            /\ ~(e[1] = Base - 1 /\ e[2] >= High)
        BY <2>1, <4>2 DEF IsMinimal
      <4> QED
        BY <3>3, <4>1, <4>2, <4>3 DEF IsMinimal
    <3>5. Good(d)
      <4> HIDE DEF Good
      <4> QED
        BY <1>3, <3>2, <3>4
    <3> DEFINE m == ReadInteger(d)
               n == m * Base + o
    <3>6. ReadInteger(e) = n /\ m \in Int
      <4>1. ReadInteger(e) = FromBytes(SignOf(e), e)
        BY <2>1, ReadIntegerIs
      <4>2. m = FromBytes(SignOf(e), d) /\ SignOf(e) \in Int
        BY <3>2, <3>3, ReadIntegerIs
      <4>3. FromBytes(SignOf(e), d \o <<o>>) = FromBytes(SignOf(e), d) * Base + o
        BY <4>2, FromBytesOfMore
      <4>4. m \in Int
        BY <3>5
      <4> HIDE DEF m
      <4> QED
        BY <3>2, <4>1, <4>2, <4>3, <4>4
    <3>7. MinimalSigned(m) = d
      BY <3>5
    <3>8. ~(m = 0 /\ o < High) /\ ~(m = -1 /\ o >= High)
      <4>1. CASE k = 0
        <5>1. d = <<d[1]>> /\ e[2] = o /\ Len(e) > 1
          BY <2>1, <3>2, <4>1, OneElement
        <5>2. m = SignOf(e) * Base + e[1]
          BY <3>3, <5>1, ReadIntegerIs, FromBytesOfOne
        <5>3. e[1] \in Nat /\ e[1] < Base
          BY <3>3, OneOctet
        <5>4. (e[1] < High => SignOf(e) = 0) /\ (e[1] >= High => SignOf(e) = -1)
          BY <5>3, Halves DEF SignOf
        <5> HIDE DEF m
        <5>5. (m = 0 => e[1] = 0) /\ (m = -1 => e[1] = Base - 1)
          <6>1. CASE e[1] < High
            BY <5>2, <5>3, <5>4, <6>1, Halves
          <6>2. CASE e[1] >= High
            <7>0. (-1) * Base = -Base /\ SignOf(e) = -1
              BY <5>4, <6>2, Halves
            <7>1. m = (-1) * Base + e[1]
              BY <5>2, <7>0
            <7>2. m = e[1] - Base
              BY <5>3, <7>0, <7>1, Halves
            <7> DEFINE octet == e[1]
            <7>3. m = octet - Base /\ octet \in Nat /\ octet < Base
              BY <5>3, <7>2
            <7> HIDE DEF n, octet
            <7>4. (m = 0 => octet = 0) /\ (m = -1 => octet = Base - 1)
              BY <7>3, Halves
            <7> QED
              BY <7>4 DEF octet
          <6> QED
            BY <5>3, <6>1, <6>2, Halves
        <5>6. /\ ~(e[1] = 0 /\ e[2] < High)
              /\ ~(e[1] = Base - 1 /\ e[2] >= High)
          BY <2>1, <5>1 DEF IsMinimal
        <5> QED
          BY <5>1, <5>5, <5>6
      <4>2. CASE k > 0
        <5>1. m \in -High .. High - 1 => d = <<m % Base>>
          BY <3>6, <3>7, MinimalSignedIs
        <5>2. d # <<m % Base>>
          <6>1. Len(d) # 1
            BY <3>2, <4>2
          <6> HIDE DEF m
          <6>2. Len(<<m % Base>>) = 1
            OBVIOUS
          <6> QED
            BY <6>1, <6>2
        <5> HIDE DEF m
        <5> QED
          BY <5>1, <5>2, Halves
      <4> QED
        BY <4>1, <4>2
    <3> HIDE DEF m
    <3>9. n \in Int /\ n \notin -High .. High - 1
      BY <3>6, <3>8, OctetTooMany, OneOctet
    <3>10. n \div Base = m /\ n % Base = o
      BY <3>6, LastOctetIs
    <3> HIDE DEF n
    <3>11. MinimalSigned(n) = MinimalSigned(n \div Base) \o <<n % Base>>
      BY <3>9, MinimalSignedIs
    <3> QED
      BY <3>2, <3>6, <3>7, <3>9, <3>10, <3>11
  <2> HIDE DEF Good
  <2> QED
    BY <2>1
<1> HIDE DEF I, Good
<1>4. \A k \in Nat : k \in I
  BY <1>2, <1>3, NatInduct
<1>5. Len(c) - 1 \in Nat /\ Len(c) = (Len(c) - 1) + 1
  BY DEF IsMinimal
<1>6. Good(c)
  BY <1>4, <1>5 DEF I
<1> QED
  BY <1>6 DEF Good

(* And what is spelled is read. *)
LEMMA IntegerReadAsSpelled ==
  ASSUME NEW n \in Int
  PROVE  IsMinimal(MinimalSigned(n)) /\ ReadInteger(MinimalSigned(n)) = n
<1> DEFINE b(m) == MinimalSigned(m)
           I == {m \in Int : IsMinimal(b(m)) /\ ReadInteger(b(m)) = m}
<1>1. ASSUME NEW m \in Int, m \in -High .. High - 1 PROVE m \in I
  <2> DEFINE o == m % Base
  <2>1. /\ o \in Octet
        /\ m >= 0 => o = m /\ o < High
        /\ m < 0 => o = m + Base /\ o >= High
    BY <1>1, OneSignedOctet
  <2>2. b(m) = <<o>>
    BY <1>1, MinimalSignedIs
  <2> HIDE DEF o
  <2>3. IsMinimal(<<o>>)
    BY DEF IsMinimal
  <2>4. ReadInteger(<<o>>) = SignOf(<<o>>) * Base + o
    BY <2>1, ReadIntegerIs, FromBytesOfOne
  <2>5. SignOf(<<o>>) = IF o >= High THEN -1 ELSE 0
    BY DEF SignOf
  <2>6. m = SignOf(<<o>>) * Base + o
    BY <2>1, <2>5, OneOctet, Halves
  <2> HIDE DEF b
  <2> QED
    BY <2>2, <2>3, <2>4, <2>6
<1>2. ASSUME NEW m \in Int, m \notin -High .. High - 1, m \div Base \in I PROVE m \in I
  <2>1. PICK q \in Int, o \in Octet : q = m \div Base /\ o = m % Base /\ m = q * Base + o
    BY LastOctet
  <2> DEFINE d == b(q)
  <2>2. b(m) = d \o <<o>> /\ d \in Seq(Octet) /\ Len(d) > 0 /\ Len(d) \in Nat
    BY <1>2, <2>1, MinimalSignedIs
  <2>3. IsMinimal(d) /\ ReadInteger(d) = q
    BY <1>2, <2>1
  <2>4. q \in -High .. High - 1 => d = <<q % Base>>
    BY MinimalSignedIs
  <2>5. ~(q = 0 /\ o < High) /\ ~(q = -1 /\ o >= High)
    BY <1>2, <2>1, OctetTooMany
  <2>5a. q \notin -High .. High - 1 => Len(d) > 1
    <3>1. ASSUME q \notin -High .. High - 1 PROVE Len(d) > 1
      <4> DEFINE p == b(q \div Base)
                 o2 == q % Base
      <4>1. d = p \o <<o2>> /\ p \in Seq(Octet) /\ Len(p) > 0 /\ o2 \in Octet
        BY <3>1, LastOctet, MinimalSignedIs
      <4> HIDE DEF p, o2, d
      <4> QED
        BY <4>1
    <3> QED
      BY <3>1
  <2> HIDE DEF d
  <2>6. /\ (d \o <<o>>)[1] = d[1] /\ d[1] \in Octet
        /\ Len(d) = 1 => (d \o <<o>>)[2] = o
        /\ Len(d) > 1 => (d \o <<o>>)[2] = d[2]
        /\ d \o <<o>> # <<>>
    BY <2>2
  <2>7. IsMinimal(d \o <<o>>)
    <3>1. CASE Len(d) > 1
      BY <2>3, <2>6, <3>1 DEF IsMinimal
    <3>2. CASE Len(d) = 1
      <4>1. q \in -High .. High - 1
        BY <2>5a, <3>2
      <4>2. d[1] = q % Base
        BY <2>4, <4>1
      <4>3. /\ q >= 0 => d[1] = q /\ d[1] < High
            /\ q < 0 => d[1] = q + Base /\ d[1] >= High
        BY <4>1, <4>2, OneSignedOctet
      <4>4. (d[1] = 0 => q = 0) /\ (d[1] = Base - 1 => q = -1)
        BY <2>6, <4>3, OneOctet, Halves
      <4> QED
        BY <2>5, <2>6, <3>2, <4>4, OneOctet DEF IsMinimal
    <3> QED
      BY <2>2, <3>1, <3>2
  <2>8. ReadInteger(d \o <<o>>) = m
    <3>1. SignOf(d \o <<o>>) = SignOf(d)
      BY <2>6 DEF SignOf
    <3> QED
      BY <2>1, <2>2, <2>3, <3>1, ReadIntegerIs, FromBytesOfMore
  <2> HIDE DEF b
  <2> QED
    BY <2>2, <2>7, <2>8
<1> HIDE DEF I
<1>3. \A m \in Int : m \in I
  BY <1>1, <1>2, DigitInduct
<1> QED
  BY <1>3 DEF I

(* INTEGERs have one spelling: of all octets, minimal ones that are read as a  *)
(* number are those that encode_value makes of it (_read_integer).             *)
THEOREM IntegersHaveOneSpelling ==
  ASSUME NEW c \in Seq(Octet), NEW n \in Int
  PROVE  IsMinimal(c) /\ ReadInteger(c) = n <=> c = MinimalSigned(n)
<1>1. IsMinimal(c) => MinimalSigned(ReadInteger(c)) = c
  BY IntegerSpelledAsRead
<1>2. IsMinimal(MinimalSigned(n)) /\ ReadInteger(MinimalSigned(n)) = n
  BY IntegerReadAsSpelled
<1> QED
  BY <1>1, <1>2

-----------------------------------------------------------------------------
(* What encode_value makes of the values of one depth, given the last. *)
Deeper(e, depth) ==
  [v \in IF depth = 0 THEN {} ELSE Scalars \union [kind : {"seq"}, of : Seq(DOMAIN e)] |->
     Spell(TagOf(v), IF v.kind # "seq" THEN Content(v)
                     ELSE FlattenSeq([i \in DOMAIN v.of |-> e[v.of[i]]]))]

Deepens(g, n) == \A k \in 0 .. n : g[k] = Deeper(g[k - 1], k)

LEMMA FirstDepth == ASSUME NEW e, NEW d PROVE Deeper(e, 0) = Deeper(d, 0)
BY DEF Deeper

LEMMA DeepeningExists == ASSUME NEW n \in Nat PROVE \E g : Deepens(g, n)
<1> DEFINE I == {k \in Nat : \E g : Deepens(g, k)}
<1>1. 0 \in I
  <2> DEFINE g == [k \in 0 .. 0 |-> Deeper({}, 0)]
  <2>1. \A k \in 0 .. 0 : g[k] = Deeper(g[k - 1], k)
    <3>1. g[0] = Deeper({}, 0)
      OBVIOUS
    <3> HIDE DEF g
    <3> QED
      BY <3>1, FirstDepth
  <2> HIDE DEF g
  <2>2. Deepens(g, 0)
    BY <2>1 DEF Deepens
  <2> QED
    BY <2>2
<1>2. ASSUME NEW k \in Nat, k \in I PROVE k + 1 \in I
  <2>1. PICK g : Deepens(g, k)
    BY <1>2
  <2> DEFINE h == [j \in 0 .. k + 1 |-> IF j = k + 1 THEN Deeper(g[k], k + 1) ELSE g[j]]
  <2>2. h[k + 1] = Deeper(g[k], k + 1) /\ \A j \in 0 .. k : h[j] = g[j]
    OBVIOUS
  <2> HIDE DEF h
  <2>3. ASSUME NEW j \in 0 .. k + 1 PROVE h[j] = Deeper(h[j - 1], j)
    <3>1. CASE j = k + 1
      <4>1. j - 1 = k /\ h[k] = g[k]
        BY <2>2, <3>1
      <4> QED
        BY <2>2, <3>1, <4>1
    <3>2. CASE j = 0
      BY <2>1, <2>2, <3>2, FirstDepth DEF Deepens
    <3>3. CASE j \in 1 .. k
      <4>1. j \in 0 .. k /\ j - 1 \in 0 .. k
        BY <3>3
      <4> QED
        BY <2>1, <2>2, <4>1 DEF Deepens
    <3> QED
      BY <3>1, <3>2, <3>3
  <2>4. Deepens(h, k + 1)
    BY <2>3 DEF Deepens
  <2> QED
    BY <2>4
<1> HIDE DEF I
<1>3. \A k \in Nat : k \in I
  BY <1>1, <1>2, NatInduct
<1> QED
  BY <1>3 DEF I

LEMMA DeepeningsAgree ==
  ASSUME NEW n \in Nat, NEW g, Deepens(g, n), NEW m \in Nat, NEW h, Deepens(h, m),
         NEW x \in Nat, x <= n, x <= m
  PROVE  g[x] = h[x]
<1> DEFINE I == {k \in Nat : k <= n /\ k <= m => g[k] = h[k]}
<1>1. 0 \in I
  BY FirstDepth DEF Deepens
<1>2. ASSUME NEW k \in Nat, k \in I PROVE k + 1 \in I
  <2>1. ASSUME k + 1 <= n, k + 1 <= m PROVE g[k + 1] = h[k + 1]
    <3>1. k + 1 \in 0 .. n /\ k + 1 \in 0 .. m /\ (k + 1) - 1 = k /\ g[k] = h[k]
      BY <1>2, <2>1
    <3>2. g[k + 1] = Deeper(g[k], k + 1) /\ h[k + 1] = Deeper(h[k], k + 1)
      BY <3>1 DEF Deepens
    <3> QED
      BY <3>1, <3>2
  <2> QED
    BY <2>1
<1> HIDE DEF I
<1>3. \A k \in Nat : k \in I
  BY <1>1, <1>2, NatInduct
<1> QED
  BY <1>3 DEF I

LEMMA EncodeIs == ASSUME NEW d \in Nat PROVE Encode[d] = Deeper(Encode[d - 1], d)
<1> DEFINE F(n) == CHOOSE g : Deepens(g, n)
           f    == [n \in Nat |-> F(n)[n]]
           B(e) == [depth \in Nat |-> Deeper(e[depth - 1], depth)]
<1>1. \A n \in Nat : Deepens(F(n), n)
  BY DeepeningExists
<1> HIDE DEF F
<1>2. ASSUME NEW n \in Nat PROVE f[n] = Deeper(f[n - 1], n)
  <2>1. F(n)[n] = Deeper(F(n)[n - 1], n)
    <3>1. n \in 0 .. n
      OBVIOUS
    <3> QED
      BY <1>1, <3>1 DEF Deepens
  <2>2. CASE n = 0
    BY <2>1, <2>2, FirstDepth
  <2>3. CASE n > 0
    <3>1. n - 1 \in Nat /\ n - 1 <= n
      BY <2>3
    <3>2. F(n)[n - 1] = F(n - 1)[n - 1]
      BY <1>1, <3>1, DeepeningsAgree
    <3> QED
      BY <2>1, <3>1, <3>2
  <2> QED
    BY <2>2, <2>3
<1>3. f = B(f)
  <2>1. DOMAIN f = Nat /\ f = [n \in Nat |-> f[n]]
    OBVIOUS
  <2> HIDE DEF f
  <2>2. B(f) = [n \in Nat |-> f[n]]
    BY <1>2
  <2> QED
    BY <2>1, <2>2
<1>4. Encode = CHOOSE e : e = B(e)
  BY DEF Encode, Deeper
<1>5. Encode = B(Encode)
  <2> HIDE DEF B, f
  <2> QED
    BY <1>3, <1>4
<1> QED
  BY <1>5

-----------------------------------------------------------------------------
(* Joining strings of octets. *)
Wire == Seq(Nat)

Adds(f, ss) == f[1] = ss[1] /\ \A i \in 2 .. Len(ss) : f[i] = f[i - 1] \o ss[i]

LEMMA FlattenIs ==
  ASSUME NEW ss \in Seq(Wire), Len(ss) > 0
  PROVE  \E f \in [1 .. Len(ss) -> Wire] : Adds(f, ss) /\ FlattenSeq(ss) = f[Len(ss)]
<1> DEFINE B(g) == [i \in 1 .. Len(ss) |-> IF i = 1 THEN ss[i] ELSE g[i - 1] \o ss[i]]
           flatten == CHOOSE g : g = B(g)
           step == [p \in Wire \X Nat |-> IF p[2] + 2 \in 1 .. Len(ss)
                                           THEN p[1] \o ss[p[2] + 2] ELSE p[1]]
<1>1. ss[1] \in Wire /\ \A i \in 1 .. Len(ss) : ss[i] \in Wire
  OBVIOUS
<1>2. step \in [Wire \X Nat -> Wire]
  <2>1. ASSUME NEW s \in Wire, NEW w \in Wire PROVE s \o w \in Wire
    BY DEF Wire
  <2> HIDE DEF Wire
  <2> QED
    BY <1>1, <2>1
<1>3. PICK f \in [Nat -> Wire] : Recurs(f, ss[1], step)
  <2> HIDE DEF step
  <2> QED
    BY <1>1, <1>2, Recursion
<1>4. ASSUME NEW i \in 2 .. Len(ss) PROVE f[i - 1] = f[i - 2] \o ss[i]
  <2>1. i - 2 \in Nat /\ (i - 2) + 1 = i - 1 /\ (i - 2) + 2 = i /\ i \in 1 .. Len(ss)
    OBVIOUS
  <2>2. f[i - 1] = step[<<f[i - 2], i - 2>>]
    <3> HIDE DEF step
    <3> QED
      BY <1>3, <2>1 DEF Recurs
  <2>3. f[i - 2] \in Wire
    BY <2>1
  <2> QED
    BY <2>1, <2>2, <2>3
<1> DEFINE g == [i \in 1 .. Len(ss) |-> f[i - 1]]
<1>5. ASSUME NEW i \in 1 .. Len(ss)
      PROVE  g[i] = IF i = 1 THEN ss[i] ELSE g[i - 1] \o ss[i]
  <2>1. CASE i = 1
    BY <1>3, <2>1 DEF Recurs
  <2>2. CASE i # 1
    <3>1. i \in 2 .. Len(ss) /\ i - 1 \in 1 .. Len(ss) /\ (i - 1) - 1 = i - 2
      BY <2>2
    <3>2. g[i - 1] = f[i - 2] /\ g[i] = f[i - 1]
      BY <3>1
    <3> HIDE DEF g
    <3> QED
      BY <1>4, <2>2, <3>1, <3>2
  <2> QED
    BY <2>1, <2>2
<1>6. g = B(g)
  <2>1. g = [i \in 1 .. Len(ss) |-> g[i]]
    OBVIOUS
  <2> HIDE DEF g
  <2>2. B(g) = [i \in 1 .. Len(ss) |-> g[i]]
    BY <1>5
  <2> QED
    BY <2>1, <2>2
<1>7. flatten = B(flatten)
  <2> HIDE DEF B, g
  <2> QED
    BY <1>6
<1>8. FlattenSeq(ss) = flatten[Len(ss)]
  BY DEF FlattenSeq
<1> HIDE DEF flatten
<1>9. \A i \in 1 .. Len(ss) : flatten[i] = IF i = 1 THEN ss[i] ELSE flatten[i - 1] \o ss[i]
  <2>1. \A i \in 1 .. Len(ss) : flatten[i] = B(flatten)[i]
    BY <1>7
  <2> QED
    BY <2>1
<1>10. Adds(flatten, ss)
  <2>1. 1 \in 1 .. Len(ss)
    OBVIOUS
  <2>2. \A i \in 2 .. Len(ss) : i \in 1 .. Len(ss) /\ i # 1
    OBVIOUS
  <2> QED
    BY <1>9, <2>1, <2>2 DEF Adds
<1>11. \A i \in 1 .. Len(ss) : flatten[i] \in Wire
  <2> DEFINE I == {k \in Nat : k + 1 <= Len(ss) => flatten[k + 1] \in Wire}
  <2>1. 0 \in I
    BY <1>1, <1>10 DEF Adds
  <2>2. ASSUME NEW k \in Nat, k \in I PROVE k + 1 \in I
    <3>1. ASSUME (k + 1) + 1 <= Len(ss) PROVE flatten[(k + 1) + 1] \in Wire
      <4> DEFINE i == (k + 1) + 1
      <4>1. i \in 2 .. Len(ss) /\ i - 1 = k + 1 /\ i \in 1 .. Len(ss)
        BY <3>1
      <4>2. flatten[k + 1] \in Wire
        BY <2>2, <3>1
      <4> HIDE DEF i
      <4>3. flatten[i] = flatten[k + 1] \o ss[i] /\ ss[i] \in Wire
        BY <1>1, <1>10, <4>1 DEF Adds
      <4>4. flatten[i] \in Wire
        BY <4>2, <4>3 DEF Wire
      <4> QED
        BY <4>4 DEF i
    <3> QED
      BY <3>1
  <2> HIDE DEF I
  <2>3. \A k \in Nat : k \in I
    BY <2>1, <2>2, NatInduct
  <2>4. ASSUME NEW i \in 1 .. Len(ss) PROVE flatten[i] \in Wire
    <3>1. i - 1 \in I /\ (i - 1) + 1 = i /\ i <= Len(ss)
      BY <2>3
    <3> QED
      BY <3>1 DEF I
  <2> QED
    BY <2>4
<1>12. flatten \in [1 .. Len(ss) -> Wire]
  BY <1>7, <1>11
<1> QED
  BY <1>8, <1>10, <1>12

LEMMA FlattenNone == FlattenSeq(<<>>) = <<>>
BY DEF FlattenSeq

LEMMA FlattenMore ==
  ASSUME NEW ss \in Seq(Wire), NEW s \in Wire
  PROVE  FlattenSeq(ss) \in Wire /\ FlattenSeq(Append(ss, s)) = FlattenSeq(ss) \o s
<1> DEFINE tt == Append(ss, s)
<1>1. /\ tt \in Seq(Wire) /\ Len(tt) = Len(ss) + 1 /\ Len(ss) \in Nat
      /\ tt[Len(ss) + 1] = s
      /\ \A i \in 1 .. Len(ss) : tt[i] = ss[i]
  OBVIOUS
<1> HIDE DEF tt
<1>2. PICK g \in [1 .. Len(tt) -> Wire] : Adds(g, tt) /\ FlattenSeq(tt) = g[Len(tt)]
  BY <1>1, FlattenIs
<1>3. CASE Len(ss) = 0
  <2>1. ss = <<>>
    BY <1>3
  <2>2. FlattenSeq(tt) = s
    BY <1>1, <1>2, <1>3 DEF Adds
  <2>3. <<>> \o s = s /\ <<>> \in Wire
    BY DEF Wire
  <2> QED
    BY <2>1, <2>2, <2>3, FlattenNone DEF tt
<1>4. CASE Len(ss) > 0
  <2>1. PICK f \in [1 .. Len(ss) -> Wire] : Adds(f, ss) /\ FlattenSeq(ss) = f[Len(ss)]
    BY <1>4, FlattenIs
  <2> DEFINE I == {k \in Nat : k + 1 <= Len(ss) => f[k + 1] = g[k + 1]}
  <2>2. 0 \in I
    BY <1>1, <1>2, <1>4, <2>1 DEF Adds
  <2>3. ASSUME NEW k \in Nat, k \in I PROVE k + 1 \in I
    <3>1. ASSUME (k + 1) + 1 <= Len(ss) PROVE f[(k + 1) + 1] = g[(k + 1) + 1]
      <4> DEFINE i == (k + 1) + 1
      <4>1. i \in 2 .. Len(ss) /\ i - 1 = k + 1 /\ i \in 1 .. Len(ss) /\ i \in 2 .. Len(tt)
        BY <1>1, <3>1
      <4>2. f[k + 1] = g[k + 1]
        BY <2>3, <3>1
      <4> HIDE DEF i
      <4>3. f[i] = f[k + 1] \o ss[i] /\ g[i] = g[k + 1] \o tt[i]
        BY <1>2, <2>1, <4>1 DEF Adds
      <4>4. f[i] = g[i]
        BY <1>1, <4>1, <4>2, <4>3
      <4> QED
        BY <4>4 DEF i
    <3> QED
      BY <3>1
  <2> HIDE DEF I
  <2>4. \A k \in Nat : k \in I
    BY <2>2, <2>3, NatInduct
  <2>5. f[Len(ss)] = g[Len(ss)]
    <3>1. Len(ss) - 1 \in I /\ (Len(ss) - 1) + 1 = Len(ss)
      BY <1>4, <2>4
    <3> QED
      BY <3>1 DEF I
  <2>6. g[Len(ss) + 1] = g[Len(ss)] \o tt[Len(ss) + 1]
    <3>1. Len(ss) + 1 \in 2 .. Len(tt) /\ (Len(ss) + 1) - 1 = Len(ss)
      BY <1>1, <1>4
    <3> QED
      BY <1>2, <3>1 DEF Adds
  <2>7. f[Len(ss)] \in Wire
    BY <1>4
  <2> QED
    BY <1>1, <1>2, <2>1, <2>5, <2>6, <2>7 DEF tt
<1> QED
  BY <1>1, <1>3, <1>4

-----------------------------------------------------------------------------
LEMMA WireJoin ==
  ASSUME NEW s \in Wire, NEW t \in Wire
  PROVE  s \o t \in Wire /\ Len(s \o t) = Len(s) + Len(t) /\ Len(s) \in Nat
BY ConcatProperties, LenProperties DEF Wire

LEMMA WireAssociative ==
  ASSUME NEW s \in Wire, NEW t \in Wire, NEW u \in Wire
  PROVE  (s \o t) \o u = s \o (t \o u)
<1> DEFINE N == Nat
<1>1. s \in Seq(N) /\ t \in Seq(N) /\ u \in Seq(N)
  BY DEF Wire
<1> HIDE DEF N
<1> QED
  BY <1>1, ConcatAssociative

LEMMA WireOne == ASSUME NEW n \in Nat PROVE <<n>> \in Wire /\ Len(<<n>>) = 1 /\ <<n>>[1] = n
BY DEF Wire

LEMMA WireOctets == ASSUME NEW s \in Seq(Octet) PROVE s \in Wire /\ Len(s) \in Nat
<1>1. s \in Seq(Nat)
  BY Halves, SeqMonotonic
<1> QED
  BY <1>1, LenProperties DEF Wire

LEMMA OctetSmall == ASSUME NEW o \in Octet PROVE o \in Nat /\ o < Base
BY Halves DEF Octet

(* The octets s stand in o, after p others. *)
At(o, p, s) == p + Len(s) <= Len(o) /\ \A i \in 1 .. Len(s) : o[p + i] = s[i]

LEMMA AtBoth ==
  ASSUME NEW o \in Wire, NEW p \in Nat, NEW s \in Wire, NEW t \in Wire
  PROVE  At(o, p, s \o t) <=> At(o, p, s) /\ At(o, p + Len(s), t)
<1> DEFINE u == s \o t
<1>1. /\ Len(u) = Len(s) + Len(t) /\ Len(s) \in Nat /\ Len(t) \in Nat
      /\ \A i \in 1 .. Len(s) : u[i] = s[i]
      /\ \A i \in 1 .. Len(t) : u[Len(s) + i] = t[i]
  <2>1. Len(s) \in Nat /\ Len(t) \in Nat
    BY DEF Wire
  <2>2. /\ Len(u) = Len(s) + Len(t)
        /\ \A i \in 1 .. Len(s) + Len(t) : u[i] = IF i <= Len(s) THEN s[i] ELSE t[i - Len(s)]
    BY ConcatProperties DEF Wire
  <2> HIDE DEF u
  <2>3. ASSUME NEW i \in 1 .. Len(s) PROVE u[i] = s[i]
    BY <2>1, <2>2
  <2>4. ASSUME NEW i \in 1 .. Len(t) PROVE u[Len(s) + i] = t[i]
    <3>1. Len(s) + i \in 1 .. Len(s) + Len(t) /\ ~(Len(s) + i <= Len(s)) /\ (Len(s) + i) - Len(s) = i
      BY <2>1
    <3> QED
      BY <2>2, <3>1
  <2> QED
    BY <2>1, <2>2, <2>3, <2>4
<1> HIDE DEF u
<1>2. ASSUME At(o, p, u) PROVE At(o, p, s) /\ At(o, p + Len(s), t)
  <2>1. ASSUME NEW i \in 1 .. Len(s) PROVE o[p + i] = s[i]
    BY <1>1, <1>2 DEF At
  <2>2. ASSUME NEW i \in 1 .. Len(t) PROVE o[(p + Len(s)) + i] = t[i]
    <3>1. Len(s) + i \in 1 .. Len(u) /\ p + (Len(s) + i) = (p + Len(s)) + i
      BY <1>1
    <3>2. o[p + (Len(s) + i)] = u[Len(s) + i]
      BY <1>2, <3>1 DEF At
    <3> QED
      BY <1>1, <3>1, <3>2
  <2>3. p + Len(s) <= Len(o) /\ (p + Len(s)) + Len(t) <= Len(o)
    BY <1>1, <1>2 DEF At, Wire
  <2> QED
    BY <2>1, <2>2, <2>3 DEF At
<1>3. ASSUME At(o, p, s), At(o, p + Len(s), t) PROVE At(o, p, u)
  <2>1. ASSUME NEW i \in 1 .. Len(u) PROVE o[p + i] = u[i]
    <3>1. CASE i <= Len(s)
      BY <1>1, <1>3, <3>1 DEF At
    <3>2. CASE i > Len(s)
      <4>1. i - Len(s) \in 1 .. Len(t) /\ (p + Len(s)) + (i - Len(s)) = p + i
            /\ Len(s) + (i - Len(s)) = i
        BY <1>1, <3>2
      <4>2. o[(p + Len(s)) + (i - Len(s))] = t[i - Len(s)]
        BY <1>3, <4>1 DEF At
      <4> QED
        BY <1>1, <4>1, <4>2
    <3> QED
      BY <1>1, <3>1, <3>2
  <2>2. p + Len(u) <= Len(o)
    BY <1>1, <1>3 DEF At, Wire
  <2> QED
    BY <2>1, <2>2 DEF At
<1> QED
  BY <1>2, <1>3 DEF u

LEMMA AtAll ==
  ASSUME NEW o \in Wire, NEW s \in Wire, At(o, 0, s), Len(s) = Len(o)
  PROVE  s = o
<1>1. Len(s) \in Nat /\ \A i \in 1 .. Len(s) : o[i] = s[i]
  BY DEF At, Wire
<1> QED
  BY <1>1 DEF Wire

LEMMA AtOne ==
  ASSUME NEW o, NEW p \in Nat, NEW x
  PROVE  At(o, p, <<x>>) <=> p + 1 <= Len(o) /\ o[p + 1] = x
<1>1. Len(<<x>>) = 1 /\ <<x>>[1] = x /\ \A i \in 1 .. 1 : i = 1
  OBVIOUS
<1> QED
  BY <1>1 DEF At

LEMMA AtNone == ASSUME NEW o \in Wire, NEW p \in Nat, p <= Len(o) PROVE At(o, p, <<>>)
BY DEF At, Wire

LEMMA AtSub ==
  ASSUME NEW o \in Wire, NEW p \in Nat, NEW q \in Nat, p <= q, q <= Len(o)
  PROVE  /\ Len(SubSeq(o, p + 1, q)) = q - p
         /\ At(o, p, SubSeq(o, p + 1, q))
         /\ \A s \in Wire : At(o, p, s) /\ Len(s) = q - p => s = SubSeq(o, p + 1, q)
<1> DEFINE u == SubSeq(o, p + 1, q)
<1>1. /\ u \in Wire /\ Len(u) = q - p
      /\ \A i \in 1 .. q - p : u[i] = o[p + i]
  <2>1. \A i \in p + 1 .. q : o[i] \in Nat
    BY DEF Wire
  <2>2. /\ u \in Wire /\ Len(u) = IF p + 1 <= q THEN q - (p + 1) + 1 ELSE 0
        /\ \A i \in 1 .. q - (p + 1) + 1 : u[i] = o[p + 1 + i - 1]
    BY <2>1, SubSeqProperties DEF Wire
  <2> HIDE DEF u
  <2> QED
    BY <2>2
<1> HIDE DEF u
<1>2. At(o, p, u)
  <2>1. Len(o) \in Nat /\ p + Len(u) = q
    BY <1>1 DEF Wire
  <2>2. \A i \in 1 .. Len(u) : o[p + i] = u[i]
    BY <1>1
  <2> QED
    BY <2>1, <2>2 DEF At
<1>3. ASSUME NEW s \in Wire, At(o, p, s), Len(s) = q - p PROVE s = u
  <2>1. \A i \in 1 .. q - p : o[p + i] = s[i]
    BY <1>3 DEF At
  <2> QED
    BY <1>1, <1>3, <2>1 DEF Wire
<1> QED
  BY <1>1, <1>2, <1>3 DEF u

-----------------------------------------------------------------------------
(* Lengths: what is read is spelled as it stands, and what is spelled is read. *)

LEMMA EncodeLengthIs ==
  ASSUME NEW n \in Nat
  PROVE  /\ EncodeLength(n) \in Wire /\ Len(EncodeLength(n)) \in Nat /\ Len(EncodeLength(n)) > 0
         /\ n < High => EncodeLength(n) = <<n>>
         /\ n >= High => /\ EncodeLength(n) = <<High + Len(LengthOctets(n))>> \o LengthOctets(n)
                         /\ LengthOctets(n) \in Wire
<1>1. n < High => EncodeLength(n) = <<n>>
  BY DEF EncodeLength
<1>2. ~(n < High) => EncodeLength(n) = <<High + Len(LengthOctets(n))>> \o LengthOctets(n)
  BY DEF EncodeLength
<1>3. LengthOctets(n) \in Wire /\ Len(LengthOctets(n)) \in Nat
  BY LengthOctetsIs, WireOctets
<1>4. High + Len(LengthOctets(n)) \in Nat /\ (n < High \/ ~(n < High)) /\ (n >= High <=> ~(n < High))
  BY <1>3, Halves
<1>5. CASE n < High
  BY <1>1, <1>4, <1>5, WireOne
<1>6. CASE ~(n < High)
  <2>1. <<High + Len(LengthOctets(n))>> \in Wire /\ Len(<<High + Len(LengthOctets(n))>>) = 1
    BY <1>4, WireOne
  <2>2. EncodeLength(n) \in Wire /\ Len(EncodeLength(n)) = 1 + Len(LengthOctets(n))
    BY <1>2, <1>3, <1>6, <2>1, WireJoin
  <2> QED
    BY <1>2, <1>3, <1>4, <1>6, <2>2
<1> QED
  BY <1>5, <1>6

LEMMA LengthRead ==
  ASSUME data \in Seq(Octet), NEW o \in Nat, NEW limit \in Nat, limit <= Len(data),
         ReadLength(o, limit) # None
  PROVE  \E n \in Nat, p \in Nat :
           /\ ReadLength(o, limit) = [length |-> n, off |-> p]
           /\ p = o + Len(EncodeLength(n)) /\ p <= limit
           /\ At(data, o, EncodeLength(n))
<1> DEFINE first == data[o + 1]
           count == first - High
           raw   == SubSeq(data, o + 2, o + 1 + count)
<1>1. o < limit /\ first # High /\ first # Base - 1
  BY DEF ReadLength
<1>2. o + 1 \in 1 .. Len(data) /\ first \in Octet
  <2>1. o + 1 \in 1 .. Len(data)
    BY <1>1
  <2> QED
    BY <2>1, ElementOfSeq
<1>3. first \in Nat /\ first < Base /\ count \in Int /\ Len(data) \in Nat /\ data \in Wire
  <2>1. first \in Nat /\ first < Base
    BY <1>2, OctetSmall
  <2> HIDE DEF first
  <2> QED
    BY <2>1, Halves, WireOctets
<1>a. /\ first < High => ReadLength(o, limit) = [length |-> first, off |-> o + 1]
      /\ first > High => /\ o + 1 + count <= limit /\ raw[1] # 0 /\ ~(FromBytes(0, raw) < High)
                         /\ ~(first < High) =>
                              ReadLength(o, limit) = [length |-> FromBytes(0, raw), off |-> o + 1 + count]
  <2> DEFINE R == ReadLength(o, limit)
             N == FromBytes(0, raw)
  <2>1. R = IF \/ o >= limit
               \/ first \in {High, Base - 1}
               \/ /\ first > High
                  /\ \/ count > MAX_LENGTH_OCTETS \/ o + 1 + count > limit
                     \/ raw[1] = 0 \/ N < High
            THEN None
            ELSE IF first < High THEN [length |-> first, off |-> o + 1]
                                 ELSE [length |-> N, off |-> o + 1 + count]
    BY DEF ReadLength
  <2>2. R # None
    OBVIOUS
  <2> HIDE DEF R, N, raw
  <2>3. /\ ~(/\ first > High
             /\ \/ count > MAX_LENGTH_OCTETS \/ o + 1 + count > limit
                \/ raw[1] = 0 \/ N < High)
        /\ R = IF first < High THEN [length |-> first, off |-> o + 1]
                               ELSE [length |-> N, off |-> o + 1 + count]
    BY <2>1, <2>2
  <2>4. ~(o + 1 + count > limit) => o + 1 + count <= limit
    <3> HIDE DEF count
    <3> QED
      BY <1>3
  <2> QED
    BY <2>3, <2>4 DEF R, N
<1>b. first = data[o + 1]
  OBVIOUS
<1> HIDE DEF first
<1>4. At(data, o, <<first>>)
  BY <1>1, <1>3, <1>b, AtOne
<1>5. CASE first < High
  <2>1. EncodeLength(first) = <<first>> /\ Len(<<first>>) = 1
    BY <1>3, <1>5, EncodeLengthIs
  <2>2. o + 1 \in Nat /\ o + 1 <= limit
    BY <1>1
  <2> QED
    BY <1>3, <1>4, <1>5, <1>a, <2>1, <2>2
<1>6. CASE first > High
  <2>1. count \in Nat /\ count > 0 /\ first = High + count /\ ~(first < High)
    BY <1>3, <1>6, Halves
  <2> HIDE DEF count
  <2>2. raw \in Seq(Octet) /\ Len(raw) = count /\ \A i \in 1 .. count : raw[i] = data[o + 1 + i]
    <3>1. ASSUME NEW i \in o + 2 .. o + 1 + count PROVE data[i] \in Octet
      <4>1. i \in 1 .. Len(data)
        BY <1>3, <1>6, <1>a, <2>1
      <4> QED
        BY <4>1, ElementOfSeq
    <3>2. o + 2 \in Int /\ o + 1 + count \in Int
      BY <2>1
    <3> DEFINE first2 == o + 2
               last2  == o + 1 + count
    <3>3. /\ raw \in Seq(Octet)
          /\ Len(raw) = IF first2 <= last2 THEN last2 - first2 + 1 ELSE 0
          /\ \A i \in 1 .. last2 - first2 + 1 : raw[i] = data[first2 + i - 1]
      <4>1. \A i \in first2 .. last2 : data[i] \in Octet
        BY <3>1
      <4>2. first2 \in Int /\ last2 \in Int /\ raw = SubSeq(data, first2, last2)
        BY <3>2
      <4> HIDE DEF raw, first2, last2
      <4> QED
        BY <4>1, <4>2, SubSeqProperties
    <3> HIDE DEF raw
    <3>4. (o + 1 + count) - (o + 2) + 1 = count
      BY <2>1
    <3>5. \A i \in 1 .. count : o + 2 + i - 1 = o + 1 + i
      BY <2>1
    <3> QED
      BY <2>1, <3>3, <3>4, <3>5
  <2> DEFINE n == FromBytes(0, raw)
  <2>3. /\ o + 1 + count <= limit /\ raw[1] # 0 /\ ~(n < High)
        /\ ReadLength(o, limit) = [length |-> n, off |-> o + 1 + count]
    BY <1>6, <1>a, <2>1
  <2> HIDE DEF raw
  <2>4. n \in Nat /\ LengthOctets(n) = raw
    BY <2>1, <2>2, <2>3, LengthSpelledAsRead
  <2> HIDE DEF n
  <2>5. n >= High
    BY <2>3, <2>4, Halves
  <2>6. EncodeLength(n) = <<first>> \o raw
    BY <2>1, <2>2, <2>4, <2>5, EncodeLengthIs
  <2> DEFINE one == <<first>>
  <2>7. raw \in Wire /\ one \in Wire /\ Len(one) = 1 /\ EncodeLength(n) = one \o raw
        /\ At(data, o, one)
    BY <1>3, <1>4, <2>2, <2>6, WireOctets, WireOne
  <2> HIDE DEF one
  <2>8. Len(EncodeLength(n)) = 1 + count
    BY <2>2, <2>7, WireJoin
  <2>9. At(data, o + Len(one), raw)
    <3>1. (o + 1) + count <= Len(data)
      BY <1>3, <2>1, <2>3
    <3>2. \A i \in 1 .. count : raw[i] = data[(o + 1) + i]
      BY <2>2
    <3> QED
      BY <2>2, <2>7, <3>1, <3>2 DEF At
  <2>10. At(data, o, EncodeLength(n))
    <3> HIDE DEF raw, n
    <3>1. At(data, o, one \o raw) <=> At(data, o, one) /\ At(data, o + Len(one), raw)
      BY <1>3, <2>7, AtBoth
    <3> QED
      BY <2>7, <2>9, <3>1
  <2>11. o + 1 + count \in Nat /\ o + (1 + count) = o + 1 + count
    BY <2>1
  <2> QED
    BY <2>3, <2>4, <2>8, <2>10, <2>11
<1> QED
  BY <1>1, <1>3, <1>5, <1>6, Halves

LEMMA Caps == MAX_LENGTH_OCTETS \in Nat /\ MAX_LENGTH_OCTETS < High - 1
BY ByteReaderAssumption

LEMMA LengthSpelled ==
  ASSUME data \in Seq(Octet), NEW o \in Nat, NEW limit \in Nat, limit <= Len(data),
         NEW n \in Nat, n < High \/ Len(LengthOctets(n)) <= MAX_LENGTH_OCTETS,
         At(data, o, EncodeLength(n)), o + Len(EncodeLength(n)) <= limit
  PROVE  ReadLength(o, limit) = [length |-> n, off |-> o + Len(EncodeLength(n))]
<1> DEFINE first == data[o + 1]
           count == first - High
           raw   == SubSeq(data, o + 2, o + 1 + count)
           R     == ReadLength(o, limit)
           N     == FromBytes(0, raw)
<1>1. R = IF \/ o >= limit
             \/ first \in {High, Base - 1}
             \/ /\ first > High
                /\ \/ count > MAX_LENGTH_OCTETS \/ o + 1 + count > limit
                   \/ raw[1] = 0 \/ N < High
          THEN None
          ELSE IF first < High THEN [length |-> first, off |-> o + 1]
                               ELSE [length |-> N, off |-> o + 1 + count]
  BY DEF ReadLength
<1>2. data \in Wire /\ Len(data) \in Nat
  BY WireOctets
<1> HIDE DEF R, N, raw, count
<1>3. CASE n < High
  <2>1. EncodeLength(n) = <<n>> /\ Len(EncodeLength(n)) = 1
    BY <1>3, EncodeLengthIs, WireOne
  <2>2. first = n /\ o + 1 <= limit
    BY <2>1, AtOne
  <2> HIDE DEF first
  <2>3. ~(o >= limit) /\ first \notin {High, Base - 1} /\ ~(first > High) /\ first < High
    BY <1>3, <2>2, Halves
  <2> QED
    BY <1>1, <2>1, <2>2, <2>3 DEF R
<1>4. CASE n >= High
  <2> DEFINE size == LengthOctets(n)
             one  == <<High + Len(size)>>
  <2>1. /\ EncodeLength(n) = one \o size /\ size \in Wire /\ size \in Seq(Octet)
        /\ Len(size) \in Nat /\ Len(size) > 0
    BY <1>4, EncodeLengthIs, LengthOctetsIs
  <2>2. one \in Wire /\ Len(one) = 1 /\ one[1] = High + Len(size)
    <3>1. High + Len(size) \in Nat
      BY <2>1, Halves
    <3> QED
      BY <3>1, WireOne
  <2>3. size[1] # 0 /\ FromBytes(0, size) = n
    BY <1>4, LengthReadAsSpelled, Halves
  <2>4. Len(size) <= MAX_LENGTH_OCTETS
    BY <1>4, Halves
  <2>5. one = <<one[1]>>
    OBVIOUS
  <2> HIDE DEF size, one
  <2>6. Len(EncodeLength(n)) = 1 + Len(size)
    BY <2>1, <2>2, WireJoin
  <2>7. At(data, o, one) /\ At(data, o + 1, size)
    <3>1. At(data, o, one \o size) <=> At(data, o, one) /\ At(data, o + Len(one), size)
      BY <1>2, <2>1, <2>2, AtBoth
    <3> QED
      BY <2>1, <2>2, <3>1
  <2>8. first = High + Len(size)
    BY <2>2, <2>5, <2>7, AtOne
  <2> HIDE DEF first
  <2>9. count = Len(size) /\ first > High /\ first # Base - 1 /\ ~(first < High)
    <3>1. count = first - High
      BY DEF count
    <3> DEFINE k == Len(size)
    <3>2. k \in Nat /\ k > 0 /\ k < High - 1 /\ first = High + k
      BY <2>1, <2>4, <2>8, Caps, Halves
    <3> HIDE DEF k
    <3>3. count = k /\ first > High /\ first # Base - 1 /\ ~(first < High)
      BY <3>1, <3>2, Halves
    <3> QED
      BY <3>3 DEF k
  <2>10. raw = size
    <3>1. /\ o + 1 \in Nat /\ o + 1 + count \in Nat /\ o + 1 <= o + 1 + count
          /\ o + 1 + count <= Len(data) /\ (o + 1 + count) - (o + 1) = count
          /\ (o + 1) + 1 = o + 2
      BY <1>2, <2>1, <2>6, <2>9
    <3> DEFINE p == o + 1
               q == o + 1 + count
    <3>2. p \in Nat /\ q \in Nat /\ p <= q /\ q <= Len(data) /\ q - p = count /\ p + 1 = o + 2
      BY <3>1
    <3>3. At(data, p, size) /\ raw = SubSeq(data, o + 2, q)
      BY <2>7 DEF raw
    <3> HIDE DEF p, q
    <3> QED
      <4>1. \A s \in Wire : At(data, p, s) /\ Len(s) = q - p => s = SubSeq(data, p + 1, q)
        BY <1>2, <3>2, AtSub
      <4>2. size = SubSeq(data, p + 1, q)
        BY <2>1, <2>9, <3>2, <3>3, <4>1
      <4> QED
        BY <3>2, <3>3, <4>2
  <2>11. ~(o >= limit) /\ ~(count > MAX_LENGTH_OCTETS) /\ ~(o + 1 + count > limit)
    BY <2>1, <2>4, <2>6, <2>9, Caps
  <2>12. raw[1] # 0 /\ ~(N < High) /\ N = n
    BY <1>4, <2>3, <2>10, Halves DEF N
  <2>13. R = [length |-> N, off |-> o + 1 + count]
    BY <1>1, <2>8, <2>9, <2>11, <2>12
  <2>14. o + 1 + count = o + Len(EncodeLength(n))
    BY <2>1, <2>6, <2>9
  <2> QED
    BY <2>12, <2>13, <2>14 DEF R
<1> QED
  BY <1>3, <1>4, Halves

(* Tag and length of an element that stands where it may.                      *)
Opening(tag, n) == <<tag>> \o EncodeLength(n)

LEMMA OpeningIs ==
  ASSUME NEW tag \in Octet, NEW n \in Nat
  PROVE  /\ Opening(tag, n) \in Wire /\ Len(Opening(tag, n)) \in Nat
         /\ Len(Opening(tag, n)) = 1 + Len(EncodeLength(n))
         /\ Len(Opening(tag, n)) > 1
<1>1. tag \in Nat
  BY OctetSmall
<1>2. EncodeLength(n) \in Wire /\ Len(EncodeLength(n)) \in Nat /\ Len(EncodeLength(n)) > 0
  BY EncodeLengthIs
<1> DEFINE one == <<tag>>
<1>3. one \in Wire /\ Len(one) = 1
  BY <1>1, WireOne
<1>4. Opening(tag, n) = one \o EncodeLength(n)
  BY DEF Opening
<1> HIDE DEF one
<1>5. /\ one \o EncodeLength(n) \in Wire
      /\ Len(one \o EncodeLength(n)) = Len(one) + Len(EncodeLength(n))
  BY <1>2, <1>3, WireJoin
<1> QED
  BY <1>2, <1>3, <1>4, <1>5

LEMMA AtOpening ==
  ASSUME NEW o \in Wire, NEW p \in Nat, NEW tag \in Octet, NEW n \in Nat
  PROVE  At(o, p, Opening(tag, n)) <=>
           p + 1 <= Len(o) /\ o[p + 1] = tag /\ At(o, p + 1, EncodeLength(n))
<1> DEFINE one == <<tag>>
<1>1. one \in Wire /\ Len(one) = 1
  BY OctetSmall, WireOne
<1>2. Opening(tag, n) = one \o EncodeLength(n)
  BY DEF Opening
<1>3. At(o, p, one) <=> p + 1 <= Len(o) /\ o[p + 1] = tag
  BY AtOne
<1> HIDE DEF one
<1>4. At(o, p, one \o EncodeLength(n)) <=> At(o, p, one) /\ At(o, p + Len(one), EncodeLength(n))
  BY <1>1, AtBoth, EncodeLengthIs
<1> QED
  BY <1>1, <1>2, <1>3, <1>4

LEMMA HeaderRead ==
  ASSUME data \in Seq(Octet), off \in Nat, NEW limit \in Nat, limit <= Len(data),
         Header(limit) # None
  PROVE  \E tag \in Octet, start \in Nat, end \in Nat :
           /\ Header(limit) = [tag |-> tag, start |-> start, end |-> end]
           /\ start <= end /\ end <= limit
           /\ start = off + Len(Opening(tag, end - start))
           /\ At(data, off, Opening(tag, end - start))
<1> DEFINE l == ReadLength(off + 1, limit)
<1>1. off < limit /\ l # None /\ ~(l.off + l.length > limit)
      /\ Header(limit) = [tag |-> data[off + 1], start |-> l.off, end |-> l.off + l.length]
  BY DEF Header
<1>2. data \in Wire /\ off + 1 \in Nat /\ off + 1 <= Len(data) /\ data[off + 1] \in Octet
  <2>1. off + 1 \in 1 .. Len(data)
    BY <1>1
  <2> QED
    BY <2>1, ElementOfSeq, WireOctets
<1>3. PICK n \in Nat, p \in Nat :
        /\ l = [length |-> n, off |-> p]
        /\ p = (off + 1) + Len(EncodeLength(n)) /\ p <= limit
        /\ At(data, off + 1, EncodeLength(n))
  BY <1>1, <1>2, LengthRead
<1>4. l.off = p /\ l.length = n
  BY <1>3
<1> HIDE DEF l
<1> DEFINE tag == data[off + 1]
           end == p + n
<1>5. tag \in Octet /\ end \in Nat /\ end - p = n /\ p <= end /\ end <= limit
  BY <1>1, <1>2, <1>3, <1>4
<1>6. Header(limit) = [tag |-> tag, start |-> p, end |-> end]
  BY <1>1, <1>4
<1>7. At(data, off, Opening(tag, n))
  BY <1>2, <1>3, AtOpening
<1>8. p = off + Len(Opening(tag, n))
  <2> HIDE DEF tag
  <2>1. Len(Opening(tag, n)) = 1 + Len(EncodeLength(n))
    BY <1>5, OpeningIs
  <2>2. Len(EncodeLength(n)) \in Nat
    BY EncodeLengthIs
  <2> QED
    BY <1>3, <2>1, <2>2
<1> HIDE DEF tag, end
<1> QED
  BY <1>3, <1>5, <1>6, <1>7, <1>8

LEMMA HeaderSpelled ==
  ASSUME data \in Seq(Octet), off \in Nat, NEW limit \in Nat, limit <= Len(data),
         NEW tag \in Octet, NEW n \in Nat,
         n < High \/ Len(LengthOctets(n)) <= MAX_LENGTH_OCTETS,
         At(data, off, Opening(tag, n)), off + Len(Opening(tag, n)) + n <= limit
  PROVE  Header(limit) = [tag   |-> tag,
                          start |-> off + Len(Opening(tag, n)),
                          end   |-> off + Len(Opening(tag, n)) + n]
<1> DEFINE l == ReadLength(off + 1, limit)
           k == Len(EncodeLength(n))
<1>1. data \in Wire /\ off + 1 \in Nat /\ Len(data) \in Nat
  BY WireOctets
<1>2. data[off + 1] = tag /\ At(data, off + 1, EncodeLength(n))
  BY <1>1, AtOpening
<1>3. k \in Nat /\ k > 0 /\ Len(Opening(tag, n)) = 1 + k
  BY EncodeLengthIs, OpeningIs
<1>4. (off + 1) + k <= limit
  <2> HIDE DEF k
  <2> QED
    BY <1>3
<1>5. l = [length |-> n, off |-> (off + 1) + k]
  BY <1>1, <1>2, <1>4, LengthSpelled
<1> HIDE DEF l, k
<1>6. l # None /\ l.off = off + Len(Opening(tag, n)) /\ l.length = n
  <2>1. (off + 1) + k = off + Len(Opening(tag, n))
    BY <1>3
  <2>2. l.off = (off + 1) + k /\ l.length = n
    BY <1>5
  <2>3. l # None
    BY <1>5 DEF None
  <2> QED
    BY <2>1, <2>2, <2>3
<1>7. ~(off >= limit) /\ ~(l.off + l.length > limit)
  BY <1>3, <1>6
<1> QED
  BY <1>2, <1>6, <1>7 DEF Header, l

-----------------------------------------------------------------------------
(* What is not a SEQUENCE: each tag and content is of one value at most.       *)
LEMMA Tags ==
  /\ {TAG_BOOLEAN, TAG_INTEGER, TAG_OCTET_STRING, TAG_SEQUENCE} \subseteq Octet
  /\ TAG_BOOLEAN \notin {TAG_INTEGER, TAG_OCTET_STRING, TAG_SEQUENCE}
  /\ TAG_INTEGER \notin {TAG_OCTET_STRING, TAG_SEQUENCE} /\ TAG_OCTET_STRING # TAG_SEQUENCE
BY ByteReaderAssumption

LEMMA ScalarIs ==
  ASSUME NEW v \in Scalars
  PROVE  /\ TagOf(v) \in Octet /\ TagOf(v) # TAG_SEQUENCE /\ v.kind # "seq" /\ v # None
         /\ Content(v) \in Seq(Octet)
<1>1. CASE v \in [kind : {"int"}, of : Int]
  <2>1. v = [kind |-> "int", of |-> v.of] /\ v.of \in Int
    BY <1>1
  <2>2. v.kind = "int" /\ TagOf(v) = TAG_INTEGER /\ Content(v) = MinimalSigned(v.of)
    BY <1>1 DEF TagOf, Content
  <2>3. v # None
    BY <2>1 DEF None
  <2> QED
    BY <2>1, <2>2, <2>3, Tags, MinimalSignedIs
<1>2. CASE v \in [kind : {"bytes"}, of : Seq(Octet)]
  BY <1>2, Tags DEF TagOf, Content, None
<1>3. CASE v \in [kind : {"bool"}, of : BOOLEAN]
  <2>1. 0 \in Octet /\ Base - 1 \in Octet
    BY Halves DEF Octet
  <2>2. Content(v) = <<0>> \/ Content(v) = <<Base - 1>>
    BY <1>3 DEF Content
  <2>3. Content(v) \in Seq(Octet)
    <3>1. <<0>> \in Seq(Octet) /\ <<Base - 1>> \in Seq(Octet)
      BY <2>1
    <3> QED
      BY <2>2, <3>1
  <2> QED
    BY <1>3, <2>3, Tags DEF TagOf, None
<1> QED
  BY <1>1, <1>2, <1>3 DEF Scalars

LEMMA ScalarSpelled ==
  ASSUME NEW v \in Scalars
  PROVE  ReadScalar(TagOf(v), Content(v)) = v
<1>1. CASE v \in [kind : {"int"}, of : Int]
  <2>1. v = [kind |-> "int", of |-> v.of] /\ v.of \in Int
    BY <1>1
  <2>2. TagOf(v) = TAG_INTEGER /\ Content(v) = MinimalSigned(v.of)
    BY <1>1 DEF TagOf, Content
  <2>3. IsMinimal(Content(v)) /\ ReadInteger(Content(v)) = v.of
    BY <2>1, <2>2, IntegerReadAsSpelled
  <2> QED
    BY <2>1, <2>2, <2>3, Tags DEF ReadScalar
<1>2. CASE v \in [kind : {"bytes"}, of : Seq(Octet)]
  <2>1. v = [kind |-> "bytes", of |-> v.of]
    BY <1>2
  <2>2. TagOf(v) = TAG_OCTET_STRING /\ Content(v) = v.of
    BY <1>2 DEF TagOf, Content
  <2> QED
    BY <2>1, <2>2, Tags DEF ReadScalar
<1>3. CASE v \in [kind : {"bool"}, of : BOOLEAN]
  <2>1. v = [kind |-> "bool", of |-> v.of] /\ v.of \in BOOLEAN
    BY <1>3
  <2>2. TagOf(v) = TAG_BOOLEAN /\ Content(v) = <<IF v.of THEN Base - 1 ELSE 0>>
    BY <1>3 DEF TagOf, Content
  <2>3. Base - 1 # 0
    BY Halves
  <2>4. Content(v) \in {<<0>>, <<Base - 1>>} /\ (Content(v) # <<0>>) = v.of
    BY <2>1, <2>2, <2>3
  <2> QED
    BY <2>1, <2>2, <2>4, Tags DEF ReadScalar
<1> QED
  BY <1>1, <1>2, <1>3 DEF Scalars

LEMMA ScalarRead ==
  ASSUME NEW tag \in Octet, NEW content \in Seq(Octet), ReadScalar(tag, content) # None
  PROVE  /\ ReadScalar(tag, content) \in Scalars
         /\ TagOf(ReadScalar(tag, content)) = tag
         /\ Content(ReadScalar(tag, content)) = content
<1>1. CASE tag = TAG_INTEGER /\ IsMinimal(content)
  <2>1. ReadScalar(tag, content) = [kind |-> "int", of |-> ReadInteger(content)]
    BY <1>1, Tags DEF ReadScalar
  <2>2. ReadInteger(content) \in Int /\ MinimalSigned(ReadInteger(content)) = content
    BY <1>1, IntegerSpelledAsRead
  <2> QED
    BY <1>1, <2>1, <2>2 DEF Scalars, TagOf, Content
<1>2. CASE tag = TAG_OCTET_STRING
  <2>1. ReadScalar(tag, content) = [kind |-> "bytes", of |-> content]
    BY <1>2, Tags DEF ReadScalar
  <2> QED
    BY <1>2, <2>1 DEF Scalars, TagOf, Content
<1>3. CASE tag = TAG_BOOLEAN /\ content \in {<<0>>, <<Base - 1>>}
  <2>1. ReadScalar(tag, content) = [kind |-> "bool", of |-> content # <<0>>]
    BY <1>3, Tags DEF ReadScalar
  <2>2. (content # <<0>>) \in BOOLEAN
    OBVIOUS
  <2>3. content = <<IF content # <<0>> THEN Base - 1 ELSE 0>>
    BY <1>3
  <2> DEFINE b == content # <<0>>
             v == [kind |-> "bool", of |-> b]
  <2>4. b \in BOOLEAN /\ ReadScalar(tag, content) = v /\ content = <<IF b THEN Base - 1 ELSE 0>>
    BY <2>1, <2>2, <2>3
  <2> HIDE DEF b
  <2>5. v \in Scalars /\ TagOf(v) = TAG_BOOLEAN /\ Content(v) = <<IF b THEN Base - 1 ELSE 0>>
    BY <2>4 DEF Scalars, TagOf, Content
  <2> QED
    BY <1>3, <2>4, <2>5
<1>4. CASE ~(tag = TAG_INTEGER /\ IsMinimal(content)) /\ tag # TAG_OCTET_STRING
           /\ ~(tag = TAG_BOOLEAN /\ content \in {<<0>>, <<Base - 1>>})
  <2>1. ReadScalar(tag, content) = None
    BY <1>4 DEF ReadScalar
  <2> QED
    BY <2>1
<1> QED
  BY <1>1, <1>2, <1>3, <1>4

LEMMA SequenceIsNoScalar ==
  ASSUME NEW content PROVE ReadScalar(TAG_SEQUENCE, content) = None
BY Tags DEF ReadScalar

-----------------------------------------------------------------------------
(* What encode_value makes of the values of each depth. *)
ValuesTo(d)   == DOMAIN Encode[d]
Sequence(items)  == [kind |-> "seq", of |-> items]
Joined(d, items) == FlattenSeq([i \in DOMAIN items |-> Encode[d][items[i]]])

LEMMA NoValues == ValuesTo(0) = {}
BY EncodeIs DEF Deeper, ValuesTo

LEMMA ValuesAre ==
  ASSUME NEW d \in Nat
  PROVE  /\ ValuesTo(d + 1) = Scalars \union {Sequence(items) : items \in Seq(ValuesTo(d))}
         /\ \A v \in Scalars : Encode[d + 1][v] = Spell(TagOf(v), Content(v))
         /\ \A items \in Seq(ValuesTo(d)) :
              Encode[d + 1][Sequence(items)] = Spell(TAG_SEQUENCE, Joined(d, items))
<1>1. d + 1 \in Nat /\ (d + 1) - 1 = d /\ d + 1 # 0
  OBVIOUS
<1>2. Encode[d + 1] = Deeper(Encode[d], d + 1)
  BY <1>1, EncodeIs
<1> DEFINE V == Scalars \union [kind : {"seq"}, of : Seq(ValuesTo(d))]
<1>3. Encode[d + 1] =
        [v \in V |-> Spell(TagOf(v), IF v.kind # "seq" THEN Content(v) ELSE Joined(d, v.of))]
  BY <1>1, <1>2 DEF Deeper, ValuesTo, Joined
<1>4. [kind : {"seq"}, of : Seq(ValuesTo(d))] = {Sequence(items) : items \in Seq(ValuesTo(d))}
  <2> DEFINE S == Seq(ValuesTo(d))
  <2> HIDE DEF S
  <2>1. ASSUME NEW v \in [kind : {"seq"}, of : S] PROVE v.of \in S /\ v = Sequence(v.of)
    BY DEF Sequence
  <2>2. ASSUME NEW items \in S PROVE Sequence(items) \in [kind : {"seq"}, of : S]
    BY DEF Sequence
  <2> QED
    BY <2>1, <2>2 DEF S
<1>5. ASSUME NEW v \in Scalars PROVE Encode[d + 1][v] = Spell(TagOf(v), Content(v))
  BY <1>3, ScalarIs
<1>6. ASSUME NEW items \in Seq(ValuesTo(d))
      PROVE  Encode[d + 1][Sequence(items)] = Spell(TAG_SEQUENCE, Joined(d, items))
  <2>1. Sequence(items) \in V /\ Sequence(items).kind = "seq" /\ Sequence(items).of = items
    BY DEF Sequence
  <2>2. TagOf(Sequence(items)) = TAG_SEQUENCE
    BY DEF TagOf, Sequence
  <2> QED
    BY <1>3, <2>1, <2>2
<1>7. ValuesTo(d + 1) = V
  BY <1>3 DEF ValuesTo
<1> QED
  BY <1>4, <1>5, <1>6, <1>7

LEMMA SpellIs ==
  ASSUME NEW tag \in Octet, NEW body \in Wire
  PROVE  /\ Len(body) \in Nat
         /\ Spell(tag, body) = Opening(tag, Len(body)) \o body
         /\ Spell(tag, body) \in Wire
         /\ Len(Spell(tag, body)) = Len(Opening(tag, Len(body))) + Len(body)
         /\ Len(Spell(tag, body)) > 1 /\ Len(body) < Len(Spell(tag, body))
<1>1. Len(body) \in Nat
  BY LenProperties DEF Wire
<1>2. Spell(tag, body) = Opening(tag, Len(body)) \o body
  BY DEF Spell, Opening
<1> DEFINE o == Opening(tag, Len(body))
<1>3. o \in Wire /\ Len(o) \in Nat /\ Len(o) > 1
  BY <1>1, OpeningIs
<1> HIDE DEF o
<1>4. o \o body \in Wire /\ Len(o \o body) = Len(o) + Len(body)
  BY <1>3, WireJoin
<1> QED
  BY <1>1, <1>2, <1>3, <1>4 DEF o

LEMMA AtSpell ==
  ASSUME NEW o \in Wire, NEW p \in Nat, NEW tag \in Octet, NEW body \in Wire
  PROVE  At(o, p, Spell(tag, body)) <=>
           /\ At(o, p, Opening(tag, Len(body)))
           /\ At(o, p + Len(Opening(tag, Len(body))), body)
<1> DEFINE w == Opening(tag, Len(body))
<1>1. w \in Wire /\ Spell(tag, body) = w \o body
  BY SpellIs, OpeningIs
<1> HIDE DEF w
<1>2. At(o, p, w \o body) <=> At(o, p, w) /\ At(o, p + Len(w), body)
  BY <1>1, AtBoth
<1> QED
  BY <1>1, <1>2 DEF w

LEMMA JoinedTyped ==
  ASSUME NEW d \in Nat, \A v \in ValuesTo(d) : Encode[d][v] \in Wire,
         NEW items \in Seq(ValuesTo(d))
  PROVE  Joined(d, items) \in Wire
<1> DEFINE n == Len(items)
           ss == [i \in 1 .. n |-> Encode[d][items[i]]]
<1>1. n \in Nat /\ DOMAIN items = 1 .. n /\ \A i \in 1 .. n : items[i] \in ValuesTo(d)
  BY LenProperties, ElementOfSeq
<1>2. Joined(d, items) = FlattenSeq(ss)
  BY <1>1 DEF Joined
<1> HIDE DEF n
<1>3. ss \in Seq(Wire)
  <2> DEFINE e(i) == Encode[d][items[i]]
  <2>1. \A i \in 1 .. n : e(i) \in Wire
    BY <1>1
  <2> HIDE DEF e
  <2>2. [i \in 1 .. n |-> e(i)] \in Seq(Wire)
    BY <1>1, <2>1
  <2> QED
    BY <2>2 DEF e
<1> HIDE DEF ss
<1> QED
  BY <1>2, <1>3, FlattenMore, EmptySeq DEF Wire

LEMMA EncodingIs ==
  ASSUME NEW d \in Nat
  PROVE  \A v \in ValuesTo(d) : Encode[d][v] \in Wire /\ Len(Encode[d][v]) > 1
<1> DEFINE I == {k \in Nat : \A v \in ValuesTo(k) : Encode[k][v] \in Wire /\ Len(Encode[k][v]) > 1}
<1>1. 0 \in I
  BY NoValues
<1>2. ASSUME NEW k \in Nat, k \in I PROVE k + 1 \in I
  <2>1. ASSUME NEW v \in ValuesTo(k + 1)
        PROVE  Encode[k + 1][v] \in Wire /\ Len(Encode[k + 1][v]) > 1
    <3>1. CASE v \in Scalars
      <4>1. Encode[k + 1][v] = Spell(TagOf(v), Content(v))
        BY <3>1, ValuesAre
      <4>2. TagOf(v) \in Octet /\ Content(v) \in Wire
        BY <3>1, ScalarIs, WireOctets
      <4> QED
        BY <4>1, <4>2, SpellIs
    <3>2. CASE v \in {Sequence(items) : items \in Seq(ValuesTo(k))}
      <4>1. PICK items \in Seq(ValuesTo(k)) : v = Sequence(items)
        BY <3>2
      <4>2. Encode[k + 1][v] = Spell(TAG_SEQUENCE, Joined(k, items))
        BY <4>1, ValuesAre
      <4>3. Joined(k, items) \in Wire /\ TAG_SEQUENCE \in Octet
        BY <1>2, JoinedTyped, Tags
      <4> QED
        BY <4>2, <4>3, SpellIs
    <3> QED
      BY <2>1, <3>1, <3>2, ValuesAre
  <2> QED
    BY <2>1
<1> HIDE DEF I
<1>3. \A k \in Nat : k \in I
  BY <1>1, <1>2, NatInduct
<1> QED
  BY <1>3 DEF I

LEMMA JoinedNone == ASSUME NEW d \in Nat PROVE Joined(d, <<>>) = <<>>
<1>1. [i \in DOMAIN <<>> |-> Encode[d][<<>>[i]]] = <<>>
  OBVIOUS
<1> QED
  BY <1>1, FlattenNone DEF Joined

LEMMA JoinedMore ==
  ASSUME NEW d \in Nat, NEW items \in Seq(ValuesTo(d))
  PROVE  /\ Joined(d, items) \in Wire /\ Len(Joined(d, items)) \in Nat
         /\ \A v \in ValuesTo(d) :
              Joined(d, Append(items, v)) = Joined(d, items) \o Encode[d][v]
<1>1. \A v \in ValuesTo(d) : Encode[d][v] \in Wire
  BY EncodingIs
<1>2. Joined(d, items) \in Wire
  BY <1>1, JoinedTyped
<1>3. ASSUME NEW v \in ValuesTo(d)
      PROVE  Joined(d, Append(items, v)) = Joined(d, items) \o Encode[d][v]
  <2> DEFINE n == Len(items)
             more == Append(items, v)
             ss == [i \in DOMAIN items |-> Encode[d][items[i]]]
             tt == [i \in DOMAIN more |-> Encode[d][more[i]]]
             e == Encode[d][v]
  <2>1. /\ n \in Nat /\ DOMAIN items = 1 .. n /\ \A i \in 1 .. n : items[i] \in ValuesTo(d)
        /\ DOMAIN more = 1 .. n + 1 /\ more[n + 1] = v /\ \A i \in 1 .. n : more[i] = items[i]
    BY LenProperties, ElementOfSeq, AppendProperties
  <2> HIDE DEF n, more
  <2>2. ss \in Seq(Wire) /\ Len(ss) = n
    <3>1. \A i \in 1 .. n : Encode[d][items[i]] \in Wire
      BY <1>1, <2>1
    <3>2. ss = [i \in 1 .. n |-> Encode[d][items[i]]]
      BY <2>1
    <3> HIDE DEF ss
    <3>3. ss \in [1 .. n -> Wire]
      BY <3>1, <3>2
    <3> QED
      BY <2>1, <3>3
  <2>3. tt = Append(ss, e)
    <3>1. tt = [i \in 1 .. n + 1 |-> Encode[d][more[i]]]
      BY <2>1
    <3>2. /\ Len(Append(ss, e)) = n + 1 /\ Append(ss, e) \in Seq(Wire)
          /\ Append(ss, e)[n + 1] = e
          /\ \A i \in 1 .. n : Append(ss, e)[i] = ss[i]
      <4>1. e \in Wire
        BY <1>1
      <4> HIDE DEF ss, e
      <4> QED
        BY <2>1, <2>2, <4>1, AppendProperties
    <3>3. \A i \in 1 .. n : ss[i] = Encode[d][items[i]]
      BY <2>1
    <3>4. ASSUME NEW i \in 1 .. n + 1 PROVE Encode[d][more[i]] = Append(ss, e)[i]
      <4>1. CASE i = n + 1
        BY <2>1, <3>2, <4>1
      <4>2. CASE i \in 1 .. n
        BY <2>1, <3>2, <3>3, <4>2
      <4> QED
        BY <2>1, <4>1, <4>2
    <3> HIDE DEF ss, e, tt
    <3>5. Append(ss, e) = [i \in 1 .. n + 1 |-> Append(ss, e)[i]]
      BY <2>1, <3>2, LenProperties
    <3> QED
      BY <3>1, <3>4, <3>5
  <2>4. FlattenSeq(Append(ss, e)) = FlattenSeq(ss) \o e
    <3>1. e \in Wire
      BY <1>1
    <3> HIDE DEF ss, e
    <3> QED
      BY <2>2, <3>1, FlattenMore
  <2> QED
    BY <2>3, <2>4 DEF Joined, more
<1> QED
  BY <1>2, <1>3, LenProperties DEF Wire

LEMMA AppendIs ==
  ASSUME NEW S, NEW s \in Seq(S), NEW x \in S
  PROVE  s \o <<x>> = Append(s, x)
OBVIOUS

LEMMA SubSeqIs ==
  ASSUME NEW S, NEW s \in Seq(S), NEW k \in 0 .. Len(s)
  PROVE  /\ SubSeq(s, 1, k) \in Seq(S) /\ Len(SubSeq(s, 1, k)) = k
         /\ \A i \in 1 .. k : SubSeq(s, 1, k)[i] = s[i]
<1> DEFINE u == SubSeq(s, 1, k)
<1>1. Len(s) \in Nat /\ \A i \in 1 .. k : s[i] \in S
  BY LenProperties, ElementOfSeq
<1>2. /\ u \in Seq(S) /\ Len(u) = IF 1 <= k THEN k - 1 + 1 ELSE 0
      /\ \A i \in 1 .. k - 1 + 1 : u[i] = s[1 + i - 1]
  BY <1>1, SubSeqProperties
<1> HIDE DEF u
<1>3. k \in Nat /\ k - 1 + 1 = k /\ \A i \in 1 .. k : 1 + i - 1 = i
  BY <1>1
<1> QED
  BY <1>2, <1>3 DEF u

LEMMA JoinedPrefix ==
  ASSUME NEW d \in Nat
  PROVE  \A items \in Seq(ValuesTo(d)) : \A k \in 0 .. Len(items) :
           \E rest \in Wire : Joined(d, items) = Joined(d, SubSeq(items, 1, k)) \o rest
<1> DEFINE V == ValuesTo(d)
           P(items, k) == \E rest \in Wire : Joined(d, items) = Joined(d, SubSeq(items, 1, k)) \o rest
           I == {n \in Nat : \A items \in Seq(V) : Len(items) = n => \A k \in 0 .. n : P(items, k)}
<1>1. ASSUME NEW items \in Seq(V) PROVE P(items, Len(items))
  <2>1. SubSeq(items, 1, Len(items)) = items
    BY SubSeqFull
  <2>2. Joined(d, items) \in Wire
    BY JoinedMore
  <2>3. Joined(d, items) = Joined(d, items) \o <<>> /\ <<>> \in Wire
    BY <2>2, ConcatEmptySeq, EmptySeq DEF Wire
  <2> QED
    BY <2>1, <2>3
<1>2. 0 \in I
  <2>1. ASSUME NEW items \in Seq(V), Len(items) = 0, NEW k \in 0 .. 0 PROVE P(items, k)
    <3>1. k = Len(items)
      BY <2>1
    <3> HIDE DEF P
    <3> QED
      BY <1>1, <3>1
  <2> HIDE DEF P
  <2> QED
    BY <2>1
<1>3. ASSUME NEW n \in Nat, n \in I PROVE n + 1 \in I
  <2>1. ASSUME NEW items \in Seq(V), Len(items) = n + 1, NEW k \in 0 .. n + 1 PROVE P(items, k)
    <3>1. CASE k = n + 1
      BY <1>1, <2>1, <3>1
    <3>2. CASE k \in 0 .. n
      <4>1. PICK front \in Seq(V), last \in V :
              /\ items = front \o <<last>> /\ Len(front) = n
              /\ items[n + 1] = last /\ \A i \in 1 .. n : items[i] = front[i]
        BY <2>1, SplitLast, Zenon
      <4>2. SubSeq(items, 1, k) = SubSeq(front, 1, k)
        <5>1. k \in 0 .. Len(items) /\ k \in 0 .. Len(front)
          BY <2>1, <3>2, <4>1
        <5>2. \A i \in 1 .. k : items[i] = front[i]
          BY <3>2, <4>1
        <5> DEFINE a == SubSeq(items, 1, k)
                   b == SubSeq(front, 1, k)
        <5>3. /\ a \in Seq(V) /\ Len(a) = k /\ \A i \in 1 .. k : a[i] = items[i]
              /\ b \in Seq(V) /\ Len(b) = k /\ \A i \in 1 .. k : b[i] = front[i]
          <6> HIDE DEF V
          <6> QED
            BY <5>1, SubSeqIs
        <5> HIDE DEF a, b, V
        <5>4. a = b
          BY <5>2, <5>3, SeqEqual
        <5> QED
          BY <5>4 DEF a, b
      <4>3. PICK rest \in Wire : Joined(d, front) = Joined(d, SubSeq(front, 1, k)) \o rest
        BY <1>3, <3>2, <4>1
      <4> DEFINE e == Encode[d][last]
                 j == Joined(d, SubSeq(front, 1, k))
      <4>4. Joined(d, items) = Joined(d, front) \o e
        <5>1. items = Append(front, last)
          BY <4>1, AppendIs
        <5>2. \A v \in V : Joined(d, Append(front, v)) = Joined(d, front) \o Encode[d][v]
          BY JoinedMore
        <5> QED
          BY <5>1, <5>2
      <4>5. e \in Wire
        BY EncodingIs
      <4>6. j \in Wire
        <5>1. SubSeq(front, 1, k) \in Seq(V)
          BY <3>2, <4>1, SubSeqIs
        <5> QED
          BY <5>1, JoinedMore
      <4> HIDE DEF e, j
      <4>7. (j \o rest) \o e = j \o (rest \o e) /\ rest \o e \in Wire
        <5>2. (j \o rest) \o e = j \o (rest \o e)
          BY <4>5, <4>6, WireAssociative
        <5>3. rest \o e \in Wire
          BY <4>5, WireJoin
        <5> QED
          BY <5>2, <5>3
      <4>8. Joined(d, items) = j \o (rest \o e)
        BY <4>3, <4>4, <4>7 DEF j
      <4> QED
        BY <4>2, <4>7, <4>8 DEF j
    <3> QED
      BY <2>1, <3>1, <3>2
  <2> HIDE DEF P
  <2> QED
    BY <2>1
<1> HIDE DEF I, P, V
<1>4. \A n \in Nat : n \in I
  BY <1>2, <1>3, NatInduct
<1>5. ASSUME NEW items \in Seq(V), NEW k \in 0 .. Len(items) PROVE P(items, k)
  BY <1>4, LenProperties DEF I
<1> QED
  BY <1>5 DEF P, V

(* The next item of items of which some are read.                              *)
LEMMA JoinedNext ==
  ASSUME NEW d \in Nat, NEW items \in Seq(ValuesTo(d)), NEW k \in Nat, k < Len(items)
  PROVE  LET read == SubSeq(items, 1, k)
             next == items[k + 1]
         IN  /\ read \in Seq(ValuesTo(d)) /\ next \in ValuesTo(d)
             /\ SubSeq(items, 1, k + 1) = Append(read, next)
             /\ \E rest \in Wire :
                  Joined(d, items) = (Joined(d, read) \o Encode[d][next]) \o rest
<1> DEFINE read == SubSeq(items, 1, k)
           next == items[k + 1]
           more == SubSeq(items, 1, k + 1)
           V    == ValuesTo(d)
<1>1. k \in 0 .. Len(items) /\ k + 1 \in 0 .. Len(items) /\ k + 1 \in 1 .. Len(items) /\ Len(items) \in Nat
  BY LenProperties
<1>2. /\ read \in Seq(V) /\ Len(read) = k /\ \A i \in 1 .. k : read[i] = items[i]
      /\ more \in Seq(V) /\ Len(more) = k + 1 /\ \A i \in 1 .. k + 1 : more[i] = items[i]
      /\ next \in V
  <2> HIDE DEF V
  <2> QED
    BY <1>1, SubSeqIs, ElementOfSeq DEF V
<1> HIDE DEF V
<1>3. more = Append(read, next)
  <2>1. next = items[k + 1]
    OBVIOUS
  <2> HIDE DEF read, more, next
  <2> DEFINE a == Append(read, next)
  <2>2. a \in Seq(V) /\ Len(a) = k + 1 /\ a[k + 1] = next /\ \A i \in 1 .. k : a[i] = read[i]
    BY <1>2, AppendProperties
  <2> HIDE DEF a
  <2>3. \A i \in 1 .. k + 1 : i \in 1 .. k \/ i = k + 1
    OBVIOUS
  <2>4. \A i \in 1 .. k + 1 : more[i] = a[i]
    BY <1>2, <2>1, <2>2, <2>3
  <2>5. more = a
    BY <1>2, <2>2, <2>4, SeqEqual
  <2> QED
    BY <2>5 DEF a
<1>4. PICK rest \in Wire : Joined(d, items) = Joined(d, more) \o rest
  BY <1>1, JoinedPrefix
<1>5. Joined(d, Append(read, next)) = Joined(d, read) \o Encode[d][next]
  BY <1>2, JoinedMore DEF V
<1> HIDE DEF read, next, more
<1> QED
  BY <1>2, <1>3, <1>4, <1>5 DEF V, read, next, more

-----------------------------------------------------------------------------
(* The inductive invariant. A call has read the items that stand between its   *)
(* start and where it is; each call but the first stands after what the one    *)
(* before it has read, opened by tag and length.                               *)
Room(i) == MaxDepth + 1 - i
Item    == UNION {ValuesTo(d) : d \in 0 .. MaxDepth}
Call    == [start : Nat, end : Nat, items : Seq(Item)]

Here(d, f) == f.start + Len(Joined(d, f.items))

Spelled(o, d, f) ==
  /\ f.items \in Seq(ValuesTo(d))
  /\ At(o, f.start, Joined(d, f.items)) /\ Here(d, f) <= f.end

Opened(o, d, f, g) ==
  /\ At(o, Here(d, f), Opening(TAG_SEQUENCE, g.end - g.start))
  /\ g.start = Here(d, f) + Len(Opening(TAG_SEQUENCE, g.end - g.start))

Calls(o, s) ==
  /\ s \in Seq(Call) /\ Len(s) \in 1 .. MaxDepth + 1
  /\ \A i \in 1 .. Len(s) : Spelled(o, Room(i), s[i])
  /\ \A i \in 1 .. Len(s) - 1 : Opened(o, Room(i), s[i], s[i + 1])
  /\ \A i, j \in 1 .. Len(s) : i < j => s[j].end <= s[i].end
  /\ s[1].start = 0 /\ s[1].end = Len(o) /\ Len(s[1].items) <= 1
  /\ Len(s) > 1 => s[1].items = <<>>

Sound == verdict \in {Reading, Refused}
           \/ /\ verdict = Read(verdict.value) /\ verdict.value \in ValuesTo(MaxDepth)
              /\ encode_value(verdict.value) = data

IInv == /\ data \in Seq(Octet) /\ Calls(data, stack)
        /\ off = Here(Room(Len(stack)), stack[Len(stack)])
        /\ Sound

LEMMA DepthIs == MaxDepth \in Nat
BY ByteReaderAssumption

LEMMA RoomIs ==
  ASSUME NEW i \in 1 .. MaxDepth + 1
  PROVE  /\ Room(i) \in Nat /\ Room(i) \in 0 .. MaxDepth
         /\ i > 1 => Room(i - 1) = Room(i) + 1
         /\ i <= MaxDepth => Room(i) = Room(i + 1) + 1 /\ Room(i + 1) \in Nat
         /\ ValuesTo(Room(i)) \subseteq Item
BY DepthIs DEF Room, Item

LEMMA CallIs ==
  ASSUME NEW c \in Call
  PROVE  /\ c.start \in Nat /\ c.end \in Nat /\ c.items \in Seq(Item)
         /\ c = [start |-> c.start, end |-> c.end, items |-> c.items]
BY DEF Call

LEMMA HereIs ==
  ASSUME NEW i \in 1 .. MaxDepth + 1, NEW c \in Call, c.items \in Seq(ValuesTo(Room(i)))
  PROVE  /\ Here(Room(i), c) \in Nat /\ c.start <= Here(Room(i), c)
         /\ Joined(Room(i), c.items) \in Wire
<1> DEFINE d == Room(i)
           n == Len(Joined(d, c.items))
<1>1. d \in Nat /\ c.items \in Seq(ValuesTo(d))
  BY RoomIs
<1>2. n \in Nat /\ Joined(d, c.items) \in Wire
  <2> HIDE DEF d
  <2> QED
    BY <1>1, JoinedMore
<1>3. c.start \in Nat /\ Here(d, c) = c.start + n
  BY CallIs DEF Here
<1> HIDE DEF n, d
<1> QED
  BY <1>2, <1>3 DEF d

(* One item more. *)
Fuller(c, x) == [start |-> c.start, end |-> c.end, items |-> Append(c.items, x)]

LEMMA SpelledMore ==
  ASSUME NEW o \in Wire, NEW i \in 1 .. MaxDepth + 1, NEW c \in Call, Spelled(o, Room(i), c),
         NEW x \in ValuesTo(Room(i)),
         At(o, Here(Room(i), c), Encode[Room(i)][x]),
         Here(Room(i), c) + Len(Encode[Room(i)][x]) <= c.end
  PROVE  /\ Fuller(c, x) \in Call /\ Spelled(o, Room(i), Fuller(c, x))
         /\ Here(Room(i), Fuller(c, x)) = Here(Room(i), c) + Len(Encode[Room(i)][x])
<1> DEFINE d == Room(i)
           j == Joined(d, c.items)
           e == Encode[d][x]
           f == Fuller(c, x)
<1>1. d \in Nat /\ ValuesTo(d) \subseteq Item /\ x \in ValuesTo(d) /\ c.items \in Seq(ValuesTo(d)) /\ At(o, c.start, j)
  BY RoomIs DEF Spelled
<1>2. c.start \in Nat /\ c.end \in Nat /\ c.items \in Seq(Item)
  BY CallIs
<1>3. f.start = c.start /\ f.end = c.end /\ f.items = Append(c.items, x)
  BY DEF Fuller
<1>4. Here(d, c) = c.start + Len(j)
  BY DEF Here
<1>5. At(o, Here(d, c), e) /\ Here(d, c) + Len(e) <= c.end
  OBVIOUS
<1> HIDE DEF d
<1>6. f.items \in Seq(ValuesTo(d)) /\ f.items \in Seq(Item)
  <2>1. x \in Item
    BY <1>1
  <2>2. Append(c.items, x) \in Seq(ValuesTo(d))
    BY <1>1, AppendProperties
  <2>3. Append(c.items, x) \in Seq(Item)
    BY <1>2, <2>1, AppendProperties
  <2> QED
    BY <1>3, <2>2, <2>3
<1>7. j \in Wire /\ Len(j) \in Nat /\ Joined(d, f.items) = j \o e
  BY <1>1, <1>3, JoinedMore DEF d
<1>8. e \in Wire /\ Len(e) > 1
  BY <1>1, EncodingIs DEF d
<1>9. f \in Call
  BY <1>2, <1>3, <1>6 DEF Call, Fuller
<1> HIDE DEF j, e, f
<1>10. Len(j \o e) = Len(j) + Len(e) /\ Len(e) \in Nat
  BY <1>7, <1>8, WireJoin, LenProperties DEF Wire
<1>11. At(o, c.start, j \o e)
  <2>1. At(o, c.start, j \o e) <=> At(o, c.start, j) /\ At(o, c.start + Len(j), e)
    BY <1>2, <1>7, <1>8, AtBoth
  <2> QED
    BY <1>1, <1>4, <1>5, <2>1
<1>12. Here(d, f) = Here(d, c) + Len(e)
  <2>1. Here(d, f) = c.start + Len(j \o e)
    BY <1>3, <1>7 DEF Here
  <2> QED
    BY <1>2, <1>4, <1>7, <1>10, <2>1
<1>13. Spelled(o, d, f)
  BY <1>3, <1>5, <1>6, <1>7, <1>11, <1>12 DEF Spelled
<1> QED
  BY <1>9, <1>12, <1>13 DEF d, e, f

LEMMA WithItemIs ==
  ASSUME NEW s \in Seq(Call), Len(s) > 0, NEW x, Fuller(s[Len(s)], x) \in Call
  PROVE  /\ WithItem(s, x) \in Seq(Call) /\ Len(WithItem(s, x)) = Len(s)
         /\ WithItem(s, x)[Len(s)] = Fuller(s[Len(s)], x)
         /\ \A i \in 1 .. Len(s) - 1 : WithItem(s, x)[i] = s[i]
<1> DEFINE n == Len(s)
           c == Fuller(s[n], x)
           f == SubSeq(s, 1, n - 1)
<1>1. n \in Nat /\ n - 1 \in 0 .. n /\ n \in 1 .. n
  BY LenProperties
<1>2. s[n] \in Call
  BY <1>1, ElementOfSeq
<1>3. [s[n] EXCEPT !.items = Append(@, x)] = c
  BY <1>2, CallIs DEF Fuller, Call
<1>4. WithItem(s, x) = f \o <<c>>
  BY <1>3 DEF WithItem, Front, Last
<1>5. f \in Seq(Call) /\ Len(f) = n - 1 /\ \A i \in 1 .. n - 1 : f[i] = s[i]
  BY <1>1, SubSeqIs
<1> HIDE DEF f, c, n
<1>6. f \o <<c>> = Append(f, c)
  BY <1>5, AppendIs DEF c, n
<1> HIDE DEF WithItem
<1>7. /\ Append(f, c) \in Seq(Call) /\ Len(Append(f, c)) = Len(f) + 1
      /\ \A i \in 1 .. Len(f) : Append(f, c)[i] = f[i]
      /\ Append(f, c)[Len(f) + 1] = c
  <2>1. c \in Call
    BY DEF c, n
  <2> QED
    BY <1>5, <2>1, AppendProperties
<1>8. Len(f) + 1 = n
  BY <1>1, <1>5
<1> QED
  BY <1>1, <1>4, <1>5, <1>6, <1>7, <1>8 DEF n, c

LEMMA CallsMore ==
  ASSUME NEW o \in Wire, NEW s, Calls(o, s),
         NEW x \in ValuesTo(Room(Len(s))),
         At(o, Here(Room(Len(s)), s[Len(s)]), Encode[Room(Len(s))][x]),
         Here(Room(Len(s)), s[Len(s)]) + Len(Encode[Room(Len(s))][x]) <= s[Len(s)].end,
         Len(s) = 1 => s[1].items = <<>>
  PROVE  LET more == WithItem(s, x)
         IN  /\ Calls(o, more) /\ Len(more) = Len(s)
             /\ more[Len(s)] = Fuller(s[Len(s)], x)
             /\ \A i \in 1 .. Len(s) - 1 : more[i] = s[i]
             /\ Here(Room(Len(s)), more[Len(s)]) =
                  Here(Room(Len(s)), s[Len(s)]) + Len(Encode[Room(Len(s))][x])
<1> DEFINE n == Len(s)
           d == Room(n)
           c == s[n]
           g == Fuller(c, x)
           m == WithItem(s, x)
<1>1. /\ s \in Seq(Call) /\ n \in 1 .. MaxDepth + 1 /\ n \in Nat /\ n > 0
      /\ \A i \in 1 .. n : Spelled(o, Room(i), s[i])
      /\ \A i \in 1 .. n - 1 : Opened(o, Room(i), s[i], s[i + 1])
      /\ \A i, j \in 1 .. n : i < j => s[j].end <= s[i].end
      /\ s[1].start = 0 /\ s[1].end = Len(o)
      /\ n > 1 => s[1].items = <<>>
  BY DepthIs DEF Calls
<1>2. n \in 1 .. n /\ c \in Call /\ Spelled(o, d, c)
  BY <1>1, ElementOfSeq
<1>3. g \in Call /\ Spelled(o, d, g) /\ Here(d, g) = Here(d, c) + Len(Encode[d][x])
  BY <1>1, <1>2, SpelledMore
<1>4. /\ m \in Seq(Call) /\ Len(m) = n /\ m[n] = g
      /\ \A i \in 1 .. n - 1 : m[i] = s[i]
  BY <1>1, <1>3, WithItemIs
<1>5. g.start = c.start /\ g.end = c.end /\ g.items = Append(c.items, x)
  BY DEF Fuller
<1>6. c.items \in Seq(ValuesTo(d)) /\ x \in ValuesTo(d)
  BY <1>2 DEF Spelled
<1>7. n = 1 => c.items = <<>>
  OBVIOUS
<1> HIDE DEF m, g, c, d, n
<1>8. ASSUME NEW i \in 1 .. n PROVE Spelled(o, Room(i), m[i]) /\ m[i].start = s[i].start /\ m[i].end = s[i].end
  <2>1. CASE i = n
    BY <1>2, <1>3, <1>4, <1>5, <2>1 DEF d, c
  <2>2. CASE i \in 1 .. n - 1
    BY <1>1, <1>4, <2>2
  <2> QED
    BY <1>1, <2>1, <2>2
<1>9. ASSUME NEW i \in 1 .. n - 1 PROVE Opened(o, Room(i), m[i], m[i + 1])
  <2>1. i + 1 \in 1 .. n
    BY <1>1
  <2>2. m[i] = s[i] /\ m[i + 1].start = s[i + 1].start /\ m[i + 1].end = s[i + 1].end
    BY <1>4, <1>8, <2>1
  <2> QED
    BY <1>1, <2>2 DEF Opened
<1>10. 1 \in 1 .. n
  BY <1>1
<1>11. m[1].start = 0 /\ m[1].end = Len(o)
  BY <1>1, <1>8, <1>10
<1>12. Len(m[1].items) <= 1 /\ (n > 1 => m[1].items = <<>>)
  <2>1. CASE n = 1
    <3>1. Len(Append(c.items, x)) = Len(c.items) + 1 /\ Len(c.items) = 0
      BY <1>6, <1>7, <2>1, AppendProperties
    <3> QED
      BY <1>4, <1>5, <2>1, <3>1
  <2>2. CASE n > 1
    <3>1. m[1] = s[1] /\ s[1].items = <<>>
      BY <1>1, <1>4, <2>2
    <3> QED
      BY <3>1
  <2> QED
    BY <1>1, <2>1, <2>2
<1>13. \A i, j \in 1 .. n : i < j => m[j].end <= m[i].end
  BY <1>1, <1>8
<1>14. Calls(o, m)
  BY <1>1, <1>4, <1>8, <1>9, <1>11, <1>12, <1>13 DEF Calls
<1> QED
  BY <1>3, <1>4, <1>14 DEF m, n, d, c, g

LEMMA CallsOpen ==
  ASSUME NEW o \in Wire, NEW s, Calls(o, s), Len(s) <= MaxDepth, NEW g \in Call, g.items = <<>>,
         g.start <= g.end, g.end <= s[Len(s)].end,
         Opened(o, Room(Len(s)), s[Len(s)], g),
         Len(s) = 1 => s[1].items = <<>>
  PROVE  /\ Calls(o, Append(s, g))
         /\ Here(Room(Len(s) + 1), g) = g.start
<1> DEFINE n == Len(s)
           m == Append(s, g)
<1>1. /\ s \in Seq(Call) /\ n \in 1 .. MaxDepth + 1 /\ n \in Nat /\ n > 0
      /\ \A i \in 1 .. n : Spelled(o, Room(i), s[i])
      /\ \A i \in 1 .. n - 1 : Opened(o, Room(i), s[i], s[i + 1])
      /\ \A i, j \in 1 .. n : i < j => s[j].end <= s[i].end
      /\ s[1].start = 0 /\ s[1].end = Len(o)
      /\ s[1].items = <<>>
  <2>1. n > 1 => s[1].items = <<>>
    BY DEF Calls
  <2>2. s \in Seq(Call) /\ n \in 1 .. MaxDepth + 1
    BY DEF Calls
  <2>3. n \in Nat /\ n > 0 /\ (n = 1 \/ n > 1)
    <3> HIDE DEF n
    <3> QED
      BY <2>2, DepthIs
  <2> QED
    BY <2>1, <2>2, <2>3 DEF Calls
<1>2. n + 1 \in 1 .. MaxDepth + 1 /\ n \in 1 .. n /\ 1 \in 1 .. n /\ n <= MaxDepth
  BY <1>1, DepthIs
<1>a. \A i \in 1 .. n : s[i] \in Call /\ s[i].end \in Nat
  BY <1>1, ElementOfSeq, CallIs
<1>b. Len(o) \in Nat
  BY LenProperties DEF Wire
<1>3. /\ m \in Seq(Call) /\ Len(m) = n + 1 /\ m[n + 1] = g
      /\ \A i \in 1 .. n : m[i] = s[i]
  BY <1>1, AppendProperties
<1>4. Opened(o, Room(n), s[n], g) /\ g.end <= s[n].end
  OBVIOUS
<1> HIDE DEF m, n
<1>5. Room(n + 1) \in Nat
  BY <1>2, RoomIs
<1>6. g.start \in Nat /\ g.end \in Nat
  BY CallIs
<1>7. Here(Room(n + 1), g) = g.start
  <2>1. Joined(Room(n + 1), g.items) = <<>>
    BY <1>5, JoinedNone
  <2> QED
    BY <1>6, <2>1 DEF Here
<1>8. g.end <= Len(o)
  <2>1. s[n].end <= s[1].end
    <3>1. s[n].end \in Nat /\ (n = 1 \/ 1 < n)
      BY <1>1, <1>2, <1>a
    <3> QED
      BY <1>1, <1>2, <3>1
  <2> QED
    BY <1>1, <1>2, <1>4, <1>6, <1>a, <1>b, <2>1
<1>9. Spelled(o, Room(n + 1), g)
  <2>1. Joined(Room(n + 1), g.items) = <<>>
    BY <1>5, JoinedNone
  <2>2. At(o, g.start, <<>>)
    <3>1. g.start <= Len(o)
      BY <1>6, <1>8, LenProperties DEF Wire
    <3> QED
      BY <1>6, <3>1, AtNone
  <2>3. g.items \in Seq(ValuesTo(Room(n + 1)))
    BY EmptySeq
  <2> QED
    BY <1>7, <2>1, <2>2, <2>3 DEF Spelled
<1>10. \A i \in 1 .. n + 1 : i = n + 1 \/ i \in 1 .. n
  BY <1>1
<1>11. \A i \in 1 .. n + 1 : Spelled(o, Room(i), m[i])
  BY <1>1, <1>3, <1>9, <1>10
<1>12. ASSUME NEW i \in 1 .. n PROVE Opened(o, Room(i), m[i], m[i + 1])
  <2>1. CASE i = n
    BY <1>2, <1>3, <1>4, <2>1
  <2>2. CASE i \in 1 .. n - 1
    <3>1. i + 1 \in 1 .. n
      BY <1>1, <2>2
    <3> QED
      BY <1>1, <1>3, <2>2, <3>1
  <2> QED
    BY <1>1, <2>1, <2>2
<1>13. ASSUME NEW i \in 1 .. n + 1, NEW j \in 1 .. n + 1, i < j PROVE m[j].end <= m[i].end
  <2>1. i \in 1 .. n
    BY <1>1, <1>13
  <2>2. s[n].end \in Nat /\ s[i].end \in Nat
    BY <1>2, <1>a, <2>1
  <2>3. s[n].end <= s[i].end
    <3>1. i < n \/ i = n
      BY <1>1, <2>1
    <3> QED
      BY <1>1, <1>2, <2>1, <2>2, <3>1
  <2>4. CASE j = n + 1
    BY <1>3, <1>4, <1>6, <2>1, <2>2, <2>3, <2>4
  <2>5. CASE j \in 1 .. n
    BY <1>1, <1>3, <1>13, <2>1, <2>5
  <2> QED
    BY <1>10, <2>4, <2>5
<1>14. m[1] = s[1]
  BY <1>1, <1>3
<1>15. Calls(o, m)
  <2>1. (n + 1) - 1 = n /\ n + 1 > 1 /\ Len(<<>>) = 0
    BY <1>1
  <2> QED
    BY <1>1, <1>2, <1>3, <1>11, <1>12, <1>13, <1>14, <2>1 DEF Calls
<1> QED
  BY <1>7, <1>15 DEF m, n

(* A SEQUENCE whose items are all read is itself an item, of the call before.  *)
LEMMA CallsClosed ==
  ASSUME NEW o \in Wire, NEW s, Calls(o, s), Len(s) > 1,
         Here(Room(Len(s)), s[Len(s)]) = s[Len(s)].end
  PROVE  LET m == Len(s) - 1
             x == Sequence(s[Len(s)].items)
         IN  /\ Calls(o, Front(s)) /\ Len(Front(s)) = m
             /\ \A i \in 1 .. m : Front(s)[i] = s[i]
             /\ m = 1 => s[1].items = <<>>
             /\ x \in ValuesTo(Room(m))
             /\ At(o, Here(Room(m), s[m]), Encode[Room(m)][x])
             /\ Here(Room(m), s[m]) + Len(Encode[Room(m)][x]) = s[Len(s)].end
             /\ s[Len(s)].end <= s[m].end
<1> DEFINE n == Len(s)
           m == n - 1
           d == Room(n)
           c == s[n]
           f == s[m]
           t == Front(s)
           x == Sequence(c.items)
           j == Joined(d, c.items)
<1>1. /\ s \in Seq(Call) /\ n \in 1 .. MaxDepth + 1
      /\ \A i \in 1 .. n : Spelled(o, Room(i), s[i])
      /\ \A i \in 1 .. n - 1 : Opened(o, Room(i), s[i], s[i + 1])
      /\ \A i, k \in 1 .. n : i < k => s[k].end <= s[i].end
      /\ s[1].start = 0 /\ s[1].end = Len(o) /\ Len(s[1].items) <= 1
      /\ s[1].items = <<>>
  BY DEF Calls
<1>2. \A i \in 1 .. n : s[i] \in Call /\ s[i].start \in Nat /\ s[i].end \in Nat
  BY <1>1, ElementOfSeq, CallIs
<1>3. t = SubSeq(s, 1, m)
  BY DEF Front
<1>4. n > 1 /\ Here(d, c) = c.end /\ m = n - 1
  OBVIOUS
<1>5. n \in Nat
  BY LenProperties, <1>1
<1>6. /\ m \in 1 .. MaxDepth /\ m \in 1 .. MaxDepth + 1 /\ m \in 0 .. n
      /\ n \in 1 .. n /\ m \in 1 .. n /\ m + 1 = n /\ m < n /\ m \in 1 .. n - 1 /\ 1 \in 1 .. m
      /\ 1 .. m \subseteq 1 .. n /\ 1 .. m - 1 \subseteq 1 .. n - 1
      /\ m - 1 \in Int /\ m > 0
      /\ 1 .. m - 1 \subseteq 1 .. m /\ \A i \in 1 .. m - 1 : i + 1 \in 1 .. m
  <2> HIDE DEF n
  <2> QED
    BY <1>1, <1>4, <1>5, DepthIs
<1>7. t \in Seq(Call) /\ Len(t) = m /\ \A i \in 1 .. m : t[i] = s[i]
  BY <1>1, <1>3, <1>6, SubSeqIs
<1>8. d \in Nat /\ Room(m) = d + 1
  BY <1>1, <1>4, <1>6, RoomIs
<1> HIDE DEF n, m, t
<1>9. Calls(o, t)
  BY <1>1, <1>6, <1>7 DEF Calls
<1>10. c.items \in Seq(ValuesTo(d)) /\ At(o, c.start, j) /\ Here(d, c) = c.start + Len(j)
  <2>1. Spelled(o, d, c)
    BY <1>1, <1>6
  <2> QED
    BY <2>1 DEF Spelled, Here
<1>11. /\ At(o, Here(Room(m), f), Opening(TAG_SEQUENCE, c.end - c.start))
       /\ c.start = Here(Room(m), f) + Len(Opening(TAG_SEQUENCE, c.end - c.start))
  <2>1. Opened(o, Room(m), f, c)
    BY <1>1, <1>6
  <2> QED
    BY <2>1 DEF Opened
<1>12. Here(Room(m), f) \in Nat
  <2>1. f \in Call /\ f.items \in Seq(ValuesTo(Room(m)))
    BY <1>1, <1>2, <1>6 DEF Spelled
  <2> QED
    BY <1>6, <2>1, HereIs
<1>13. c.start \in Nat /\ c.end \in Nat /\ f.end \in Nat /\ c.end <= f.end
  BY <1>1, <1>2, <1>6
<1> DEFINE h == Here(Room(m), f)
           e == Encode[Room(m)][x]
<1>14. x \in ValuesTo(Room(m)) /\ e = Spell(TAG_SEQUENCE, j)
  BY <1>8, <1>10, ValuesAre
<1>15. j \in Wire /\ Len(j) \in Nat
  BY <1>8, <1>10, JoinedMore
<1>16. c.end - c.start = Len(j)
  <2> HIDE DEF j, c, d
  <2> QED
    BY <1>4, <1>10, <1>13, <1>15
<1>17. TAG_SEQUENCE \in Octet
  BY Tags
<1> HIDE DEF j, c, d, f, x
<1> DEFINE w == Opening(TAG_SEQUENCE, Len(j))
<1>18. w \in Wire /\ Len(w) \in Nat /\ At(o, h, w) /\ c.start = h + Len(w)
  BY <1>11, <1>15, <1>16, <1>17, OpeningIs
<1>19. At(o, h, e) /\ Len(e) = Len(w) + Len(j)
  <2>1. e = Spell(TAG_SEQUENCE, j) /\ Len(e) = Len(w) + Len(j)
    BY <1>14, <1>15, <1>17, SpellIs
  <2>2. At(o, h + Len(w), j)
    BY <1>10, <1>18
  <2>3. h \in Nat
    BY <1>12
  <2> HIDE DEF h, e
  <2>4. At(o, h, Spell(TAG_SEQUENCE, j))
    BY <1>15, <1>17, <1>18, <2>2, <2>3, AtSpell
  <2> QED
    BY <2>1, <2>4
<1>20. h \in Nat
  BY <1>12
<1> HIDE DEF w, e, h
<1>21. h + Len(e) = c.end
  <2> DEFINE start == c.start
             end   == c.end
             k     == Len(w)
             l     == Len(j)
  <2>1. /\ start \in Nat /\ end \in Nat /\ h \in Nat /\ k \in Nat /\ l \in Nat
        /\ end - start = l /\ start = h + k /\ Len(e) = k + l
    BY <1>13, <1>15, <1>16, <1>18, <1>19, <1>20
  <2> HIDE DEF start, end, k, l
  <2>2. h + (k + l) = end
    BY <2>1
  <2> QED
    BY <2>1, <2>2 DEF end
<1> QED
  BY <1>1, <1>7, <1>9, <1>13, <1>14, <1>19, <1>21 DEF h, e, w, x, f, c, d, m, n, t

-----------------------------------------------------------------------------
(* The invariant holds at first, and every step keeps it. *)
LEMMA TopIs ==
  ASSUME IInv
  PROVE  /\ data \in Seq(Octet) /\ data \in Wire /\ Len(data) \in Nat
         /\ stack \in Seq(Call) /\ Len(stack) \in 1 .. MaxDepth + 1
         /\ Len(stack) \in Nat /\ Len(stack) > 0
         /\ Top = stack[Len(stack)] /\ Top \in Call /\ Top.start \in Nat /\ Top.end \in Nat
         /\ Top.end <= Len(data)
         /\ Spelled(data, Room(Len(stack)), Top)
         /\ off = Here(Room(Len(stack)), Top) /\ off \in Nat /\ off <= Top.end
<1> DEFINE n == Len(stack)
<1>1. /\ data \in Seq(Octet) /\ stack \in Seq(Call) /\ n \in 1 .. MaxDepth + 1
      /\ \A i \in 1 .. n : Spelled(data, Room(i), stack[i])
      /\ \A i, j \in 1 .. n : i < j => stack[j].end <= stack[i].end
      /\ stack[1].end = Len(data)
      /\ off = Here(Room(n), stack[n])
  BY DEF IInv, Calls
<1>2. n \in Nat /\ n > 0 /\ n \in 1 .. n /\ 1 \in 1 .. n /\ (n = 1 \/ 1 < n)
  <2> HIDE DEF n
  <2> QED
    BY <1>1, DepthIs
<1>3. Top = stack[n]
  BY DEF Top, Last
<1>4. stack[n] \in Call /\ stack[n].start \in Nat /\ stack[n].end \in Nat
  BY <1>1, <1>2, ElementOfSeq, CallIs
<1>5. Spelled(data, Room(n), stack[n])
  BY <1>1, <1>2
<1>6. off \in Nat /\ off <= stack[n].end
  BY <1>1, <1>4, <1>5, HereIs DEF Spelled
<1>7. stack[n].end <= Len(data)
  <2>1. CASE n = 1
    BY <1>1, <1>4, <2>1
  <2>2. CASE 1 < n
    BY <1>1, <1>2, <2>2
  <2> QED
    BY <1>2, <2>1, <2>2
<1>8. data \in Wire /\ Len(data) \in Nat
  BY <1>1, WireOctets
<1> QED
  BY <1>1, <1>2, <1>3, <1>4, <1>5, <1>6, <1>7, <1>8

LEMMA ElementIs ==
  ASSUME IInv, Element # None
  PROVE  /\ Len(stack) <= MaxDepth
         /\ \E tag \in Octet, start \in Nat, end \in Nat :
              /\ Element = [tag |-> tag, start |-> start, end |-> end]
              /\ start <= end /\ end <= Top.end
              /\ start = off + Len(Opening(tag, end - start))
              /\ At(data, off, Opening(tag, end - start))
<1>1. Len(stack) <= MaxDepth /\ Element = Header(Top.end) /\ Header(Top.end) # None
  BY TopIs, DepthIs DEF Element
<1> QED
  BY <1>1, TopIs, HeaderRead

LEMMA InitInvariant == Init => IInv
<1> SUFFICES ASSUME Init PROVE IInv
  OBVIOUS
<1> DEFINE c == [start |-> 0, end |-> Len(data), items |-> <<>>]
<1>1. data \in Seq(Octet) /\ data \in Wire /\ Len(data) \in Nat
  BY ByteReaderAssumption, WireOctets DEF Init
<1>2. c \in Call /\ stack = <<c>>
  <2>1. <<>> \in Seq(Item)
    OBVIOUS
  <2> QED
    BY <1>1, <2>1 DEF Init, Call
<1>3. c.start = 0 /\ c.end = Len(data) /\ c.items = <<>>
  OBVIOUS
<1> HIDE DEF c
<1>4. stack \in Seq(Call) /\ Len(stack) = 1 /\ stack[1] = c
  BY <1>2
<1>5. 1 \in 1 .. MaxDepth + 1 /\ Room(1) = MaxDepth /\ Room(1) \in Nat
  BY DepthIs DEF Room
<1>6. Joined(Room(1), c.items) = <<>> /\ Here(Room(1), c) = 0
  BY <1>3, <1>5, JoinedNone DEF Here
<1>7. Spelled(data, Room(1), c)
  <2>1. c.items \in Seq(ValuesTo(Room(1)))
    BY <1>3
  <2>2. At(data, c.start, <<>>)
    BY <1>1, <1>3, AtNone
  <2> QED
    BY <1>1, <1>3, <1>6, <2>1, <2>2 DEF Spelled
<1>8. Calls(data, stack)
  <2>1. \A i \in 1 .. 1 : i = 1
    OBVIOUS
  <2>2. 1 .. 1 - 1 = {}
    OBVIOUS
  <2> QED
    BY <1>3, <1>4, <1>5, <1>7, <2>1, <2>2 DEF Calls
<1>9. Sound
  BY DEF Sound, Init
<1>10. off = 0
  BY DEF Init
<1> QED
  BY <1>1, <1>4, <1>6, <1>8, <1>9, <1>10 DEF IInv

LEMMA OpenSequenceInvariant == IInv /\ OpenSequence => IInv'
<1> SUFFICES ASSUME IInv, OpenSequence PROVE IInv'
  OBVIOUS
<1> DEFINE n == Len(stack)
<1>1. Element # None /\ Element.tag = TAG_SEQUENCE /\ IsCalling
  BY DEF OpenSequence, OpensSequence
<1>2. PICK tag \in Octet, start \in Nat, end \in Nat :
        /\ Element = [tag |-> tag, start |-> start, end |-> end]
        /\ start <= end /\ end <= Top.end
        /\ start = off + Len(Opening(tag, end - start))
        /\ At(data, off, Opening(tag, end - start))
  BY <1>1, ElementIs
<1>3. n <= MaxDepth
  BY <1>1, ElementIs
<1>4. tag = TAG_SEQUENCE /\ Element.start = start /\ Element.end = end
  BY <1>1, <1>2
<1> DEFINE g == [start |-> start, end |-> end, items |-> <<>>]
<1>5. stack' = Append(stack, g) /\ off' = start /\ data' = data /\ verdict' = verdict
  BY <1>4 DEF OpenSequence
<1>6. g.start = start /\ g.end = end /\ g.items = <<>> /\ g \in Call
  <2>1. <<>> \in Seq(Item)
    OBVIOUS
  <2> QED
    BY <1>2, <2>1 DEF Call
<1>7. n = 1 => stack[1].items = <<>>
  BY <1>1, TopIs DEF IsCalling
<1> HIDE DEF g
<1>8. Opened(data, Room(n), stack[n], g)
  BY <1>2, <1>4, <1>6, TopIs DEF Opened
<1>9. Calls(data, stack)
  BY DEF IInv
<1>10. Calls(data, Append(stack, g)) /\ Here(Room(n + 1), g) = start
  BY <1>2, <1>3, <1>6, <1>7, <1>8, <1>9, TopIs, CallsOpen
<1>11. Len(stack') = n + 1 /\ stack'[n + 1] = g
  BY <1>5, <1>6, TopIs, AppendProperties
<1>12. Sound'
  BY <1>5 DEF IInv, Sound
<1>13. Calls(data, stack)'
  BY <1>5, <1>10
<1>14. (off = Here(Room(Len(stack)), stack[Len(stack)]))'
  BY <1>5, <1>10, <1>11
<1>15. (data \in Seq(Octet))'
  BY <1>5, TopIs
<1> QED
  BY <1>12, <1>13, <1>14, <1>15 DEF IInv

LEMMA ReadOneIs ==
  ASSUME IInv, Scalar # None
  PROVE  /\ Len(stack) <= MaxDepth /\ Scalar \in ValuesTo(Room(Len(stack)))
         /\ Element.end \in Nat /\ Element.end <= Top.end
         /\ At(data, off, Encode[Room(Len(stack))][Scalar])
         /\ off + Len(Encode[Room(Len(stack))][Scalar]) = Element.end
<1> DEFINE n == Len(stack)
           x == Scalar
<1>1. Element # None
  BY DEF Scalar
<1>2. PICK tag \in Octet, start \in Nat, end \in Nat :
        /\ Element = [tag |-> tag, start |-> start, end |-> end]
        /\ start <= end /\ end <= Top.end
        /\ start = off + Len(Opening(tag, end - start))
        /\ At(data, off, Opening(tag, end - start))
  BY <1>1, ElementIs
<1>3. n <= MaxDepth
  BY <1>1, ElementIs
<1> DEFINE body == SubSeq(data, start + 1, end)
<1>4. Scalar = ReadScalar(tag, body)
  BY <1>1, <1>2 DEF Scalar
<1>5. /\ data \in Wire /\ data \in Seq(Octet) /\ Len(data) \in Nat
      /\ end <= Len(data) /\ off \in Nat
  <2> DEFINE limit == Top.end
  <2>1. limit \in Nat /\ limit <= Len(data) /\ Len(data) \in Nat /\ end <= limit
    BY <1>2, TopIs
  <2> HIDE DEF limit
  <2>2. end <= Len(data)
    BY <1>2, <2>1
  <2> QED
    BY <2>2, TopIs
<1>6. Len(body) = end - start /\ At(data, start, body)
  BY <1>2, <1>5, AtSub
<1>7. body \in Seq(Octet)
  <2>1. ASSUME NEW i \in start + 1 .. end PROVE data[i] \in Octet
    <3>1. i \in 1 .. Len(data)
      BY <1>2, <1>5
    <3> QED
      BY <1>5, <3>1, ElementOfSeq
  <2> QED
    BY <1>2, <2>1, SubSeqProperties
<1> HIDE DEF body
<1>8. x \in Scalars /\ TagOf(x) = tag /\ Content(x) = body
  BY <1>2, <1>4, <1>7, ScalarRead
<1>9. Room(n) = Room(n + 1) + 1 /\ Room(n + 1) \in Nat
  BY <1>3, TopIs, RoomIs
<1> HIDE DEF x
<1>10. x \in ValuesTo(Room(n)) /\ Encode[Room(n)][x] = Spell(tag, body)
  BY <1>8, <1>9, ValuesAre
<1>11. body \in Wire
  BY <1>7, WireOctets
<1>12. At(data, off, Spell(tag, body))
  BY <1>2, <1>5, <1>6, <1>11, AtSpell
<1>13. off + Len(Spell(tag, body)) = end
  <2> DEFINE k == Len(Opening(tag, end - start))
  <2>1. Len(Spell(tag, body)) = k + (end - start)
    BY <1>6, <1>11, SpellIs
  <2>2. k \in Nat
    <3>1. end - start \in Nat
      BY <1>2
    <3> QED
      BY <3>1, OpeningIs
  <2>3. start = off + k
    BY <1>2
  <2> HIDE DEF k
  <2> QED
    BY <1>2, <1>5, <2>1, <2>2, <2>3
<1> QED
  BY <1>2, <1>3, <1>10, <1>12, <1>13 DEF x

LEMMA ReadOneInvariant == IInv /\ ReadOne => IInv'
<1> SUFFICES ASSUME IInv, ReadOne PROVE IInv'
  OBVIOUS
<1> DEFINE n == Len(stack)
           x == Scalar
           d == Room(n)
           s == stack
           more == WithItem(s, x)
<1>1. IsCalling /\ Scalar # None /\ stack' = more /\ off' = Element.end
      /\ data' = data /\ verdict' = verdict
  BY DEF ReadOne
<1>2. /\ x \in ValuesTo(d) /\ Element.end <= Top.end
      /\ At(data, off, Encode[d][x]) /\ off + Len(Encode[d][x]) = Element.end
  BY <1>1, ReadOneIs
<1>3. s[n] = Top /\ off = Here(d, s[n]) /\ data \in Wire /\ (n = 1 => s[1].items = <<>>)
  BY <1>1, TopIs DEF IsCalling
<1>4. Calls(data, s)
  BY DEF IInv
<1> HIDE DEF x
<1>5. /\ Calls(data, more) /\ Len(more) = n
      /\ Here(d, more[n]) = Here(d, s[n]) + Len(Encode[d][x])
  BY <1>2, <1>3, <1>4, CallsMore
<1> HIDE DEF more
<1>6. Calls(data, stack)' /\ (off = Here(Room(Len(stack)), stack[Len(stack)]))'
  BY <1>1, <1>2, <1>3, <1>5
<1>7. Sound' /\ (data \in Seq(Octet))'
  BY <1>1, TopIs DEF IInv, Sound
<1> QED
  BY <1>6, <1>7 DEF IInv

LEMMA CloseSequenceIs ==
  ASSUME IInv, CloseSequence
  PROVE  off = Top.end /\ Here(Room(Len(stack)), stack[Len(stack)]) = stack[Len(stack)].end
<1>1. Len(stack) > 1 /\ ~(off < Top.end)
  <2>1. Len(stack) > 1 /\ Len(stack) # 1 /\ verdict = Reading /\ ~IsCalling
    BY TopIs DEF CloseSequence
  <2> QED
    BY <2>1 DEF IsCalling
<1> DEFINE limit == Top.end
<1>2. limit \in Nat /\ off \in Nat /\ off <= limit /\ ~(off < limit)
  BY <1>1, TopIs
<1> HIDE DEF limit
<1>3. off = limit
  BY <1>2
<1> QED
  BY <1>3, TopIs DEF limit

LEMMA CloseSequenceInvariant == IInv /\ CloseSequence => IInv'
<1> SUFFICES ASSUME IInv, CloseSequence PROVE IInv'
  OBVIOUS
<1> DEFINE n == Len(stack)
           m == n - 1
           d == Room(m)
           s == Front(stack)
           x == Sequence(stack[n].items)
           more == WithItem(s, x)
<1>1. /\ n > 1 /\ off' = Top.end /\ data' = data /\ verdict' = verdict
      /\ stack' = WithItem(s, [kind |-> "seq", of |-> Top.items])
  BY DEF CloseSequence
<1>2. stack' = more /\ Top = stack[n] /\ data \in Wire
  BY <1>1, TopIs DEF Sequence
<1>3. Calls(data, stack) /\ Here(Room(n), stack[n]) = stack[n].end
  BY CloseSequenceIs DEF IInv
<1>4. /\ Calls(data, s) /\ Len(s) = m /\ \A i \in 1 .. m : s[i] = stack[i]
      /\ m = 1 => stack[1].items = <<>>
      /\ x \in ValuesTo(d)
      /\ At(data, Here(d, stack[m]), Encode[d][x])
      /\ Here(d, stack[m]) + Len(Encode[d][x]) = stack[n].end
      /\ stack[n].end <= stack[m].end
  BY <1>1, <1>2, <1>3, CallsClosed
<1>5. m \in 1 .. m /\ 1 \in 1 .. m
  <2>1. n \in Nat
    BY TopIs
  <2> HIDE DEF n
  <2> QED
    BY <1>1, <2>1
<1>6. s[m] = stack[m] /\ s[1] = stack[1]
  BY <1>4, <1>5
<1> HIDE DEF s, x, m, n
<1>7. /\ Calls(data, more) /\ Len(more) = m
      /\ Here(d, more[m]) = Here(d, s[m]) + Len(Encode[d][x])
  BY <1>2, <1>4, <1>6, CallsMore
<1> HIDE DEF more
<1>8. Calls(data, stack)' /\ (off = Here(Room(Len(stack)), stack[Len(stack)]))'
  BY <1>1, <1>2, <1>4, <1>6, <1>7
<1>9. Sound' /\ (data \in Seq(Octet))'
  BY <1>1, TopIs DEF IInv, Sound
<1> QED
  BY <1>8, <1>9 DEF IInv

LEMMA ReturnIs ==
  ASSUME IInv, Return
  PROVE  /\ Len(stack) = 1 /\ Top.items[1] \in ValuesTo(MaxDepth) /\ Top.items = <<Top.items[1]>>
         /\ off = Len(encode_value(Top.items[1]))
         /\ off = Len(data) => encode_value(Top.items[1]) = data
<1> DEFINE v == Top.items[1]
           e == Encode[MaxDepth][v]
<1>1. Len(stack) = 1 /\ Top.items # <<>>
  BY DEF Return, IsCalling
<1>2. Room(1) = MaxDepth /\ MaxDepth \in Nat
  BY DepthIs DEF Room
<1>3. stack[1] = Top /\ Top.start = 0 /\ Len(Top.items) <= 1
  BY <1>1, TopIs DEF IInv, Calls
<1>4. Top.items \in Seq(ValuesTo(MaxDepth)) /\ At(data, 0, Joined(MaxDepth, Top.items))
  BY <1>1, <1>2, <1>3, TopIs DEF Spelled
<1>5. off = 0 + Len(Joined(MaxDepth, Top.items))
  BY <1>1, <1>2, <1>3, TopIs DEF Here
<1>6. Len(Top.items) = 1
  <2> DEFINE items == Top.items
  <2>1. items \in Seq(ValuesTo(MaxDepth)) /\ items # <<>> /\ Len(items) <= 1
    BY <1>1, <1>3, <1>4
  <2> HIDE DEF items
  <2>2. Len(items) \in Nat \ {0}
    BY <2>1, EmptySeq
  <2>3. Len(items) = 1
    <3> DEFINE k == Len(items)
    <3>1. k \in Nat /\ k # 0 /\ k <= 1
      BY <2>1, <2>2
    <3> HIDE DEF k
    <3>2. k = 1
      BY <3>1
    <3> QED
      BY <3>2 DEF k
  <2> QED
    BY <2>3 DEF items
<1>7. v \in ValuesTo(MaxDepth) /\ Top.items = <<v>>
  BY <1>4, <1>6, OneElement
<1>8. Top.items = Append(<<>>, v)
  BY <1>7
<1> HIDE DEF v
<1>9. e \in Wire
  BY <1>2, <1>7, EncodingIs
<1>10. Joined(MaxDepth, Top.items) = e
  <2>1. <<>> \in Seq(ValuesTo(MaxDepth))
    OBVIOUS
  <2>2. Joined(MaxDepth, Append(<<>>, v)) = Joined(MaxDepth, <<>>) \o e
    BY <1>2, <1>7, <2>1, JoinedMore
  <2>3. <<>> \o e = e
    BY <1>9, ConcatEmptySeq DEF Wire
  <2> QED
    BY <1>2, <1>8, <2>2, <2>3, JoinedNone
<1> HIDE DEF e
<1>11. off = Len(e) /\ Len(e) \in Nat
  BY <1>5, <1>9, <1>10, LenProperties DEF Wire
<1>12. off = Len(data) => e = data
  BY <1>4, <1>9, <1>10, <1>11, AtAll, TopIs
<1> QED
  BY <1>1, <1>7, <1>11, <1>12 DEF v, e, encode_value

LEMMA ReturnInvariant == IInv /\ Return => IInv'
<1> SUFFICES ASSUME IInv, Return PROVE IInv'
  OBVIOUS
<1> DEFINE v == Top.items[1]
<1>1. data' = data /\ off' = off /\ stack' = stack
      /\ verdict' = IF off # Len(data) THEN Refused ELSE Read(v)
  BY DEF Return
<1>2. Calls(data, stack)' /\ (data \in Seq(Octet))' /\ (off = Here(Room(Len(stack)), stack[Len(stack)]))'
  BY <1>1 DEF IInv
<1>3. v \in ValuesTo(MaxDepth) /\ (off = Len(data) => encode_value(v) = data)
  BY ReturnIs
<1>4. Read(v).value = v
  BY DEF Read
<1> HIDE DEF v
<1>5. Sound'
  BY <1>1, <1>3, <1>4 DEF Sound
<1> QED
  BY <1>2, <1>5 DEF IInv

LEMMA NextInvariant == IInv /\ [Next]_vars => IInv'
<1> SUFFICES ASSUME IInv, [Next]_vars PROVE IInv'
  OBVIOUS
<1>1. CASE OpenSequence
  BY <1>1, OpenSequenceInvariant
<1>2. CASE ReadOne
  BY <1>2, ReadOneInvariant
<1>3. CASE Raise
  BY <1>3 DEF Raise, IInv, Sound
<1>4. CASE CloseSequence
  BY <1>4, CloseSequenceInvariant
<1>5. CASE Return
  BY <1>5, ReturnInvariant
<1>6. CASE UNCHANGED vars
  BY <1>6 DEF vars, IInv, Sound
<1> QED
  BY <1>1, <1>2, <1>3, <1>4, <1>5, <1>6 DEF Next

(* The octets read are always the spelling of what has been read of them, and  *)
(* parse_der returns a value only for the octets that encode_value makes of it. *)
THEOREM ReadAsSpelled == Spec => []IInv
BY InitInvariant, NextInvariant, PTL DEF Spec

(* No content is taken from beyond the SEQUENCE it stands in, at any depth     *)
(* (verify_vectors.py:89).                                                     *)
THEOREM AlwaysInsideContainers == Spec => []InsideContainers
<1>1. IInv => InsideContainers
  <2> SUFFICES ASSUME IInv PROVE InsideContainers
    OBVIOUS
  <2>1. off <= Top.end
    BY TopIs
  <2>2. \A i, j \in 1 .. Len(stack) : i < j => stack[j].end <= stack[i].end
    BY DEF IInv, Calls
  <2>3. DOMAIN stack = 1 .. Len(stack)
    BY TopIs, LenProperties
  <2> QED
    BY <2>1, <2>2, <2>3 DEF InsideContainers
<1> QED
  BY <1>1, ReadAsSpelled, PTL

-----------------------------------------------------------------------------
(* Of octets that encode_value spells, what is still to be read is known: of   *)
(* each call, the items that it will have when it returns.                     *)
Partly(o, d, c, t) ==
  /\ t \in Seq(ValuesTo(d))
  /\ Len(c.items) <= Len(t) /\ c.items = SubSeq(t, 1, Len(c.items))
  /\ At(o, c.start, Joined(d, t)) /\ c.end = c.start + Len(Joined(d, t))

Expected(o, s, T) ==
  /\ T \in Seq(Seq(Item)) /\ Len(T) = Len(s)
  /\ \A i \in 1 .. Len(s) : Partly(o, Room(i), s[i], T[i])
  /\ \A i \in 1 .. Len(s) - 1 : /\ Len(s[i].items) < Len(T[i])
                                /\ T[i][Len(s[i].items) + 1] = Sequence(T[i + 1])

Complete ==
  \A v \in Values : encode_value(v) = data =>
    /\ verdict # Refused
    /\ verdict = Reading => \E T : Expected(data, stack, T) /\ T[1] = <<v>>

(* The octets of a value to be read are within the caps. *)
Capped(o) == \A k \in Nat : k < Len(o) => k < High \/ Len(LengthOctets(k)) <= MAX_LENGTH_OCTETS

LEMMA ValuesAreCapped ==
  ASSUME NEW v \in Values
  PROVE  Capped(encode_value(v)) /\ v \in ValuesTo(MaxDepth)
<1> DEFINE n == Len(encode_value(v))
<1>1. v \in ValuesTo(MaxDepth) /\ (n < High \/ Len(LengthOctets(n)) <= MAX_LENGTH_OCTETS)
  BY ByteReaderAssumption DEF ValuesTo
<1>2. n \in Nat
  <2>1. encode_value(v) \in Wire
    BY <1>1, DepthIs, EncodingIs DEF encode_value
  <2> QED
    BY <2>1, LenProperties DEF Wire
<1> HIDE DEF n
<1>3. ASSUME NEW k \in Nat, k < n PROVE k < High \/ Len(LengthOctets(k)) <= MAX_LENGTH_OCTETS
  <2>1. CASE n < High
    BY <1>2, <1>3, <2>1, Halves
  <2>2. CASE Len(LengthOctets(n)) <= MAX_LENGTH_OCTETS
    <3>1. Len(LengthOctets(k)) <= Len(LengthOctets(n))
      BY <1>2, <1>3, LengthsGrow
    <3>2. Len(LengthOctets(k)) \in Nat /\ Len(LengthOctets(n)) \in Nat
      BY <1>2, LengthOctetsIs
    <3> QED
      BY <2>2, <3>1, <3>2, Caps
  <2> QED
    BY <1>1, <2>1, <2>2
<1> QED
  BY <1>1, <1>3 DEF Capped, n

(* What is read, the next item and a rest are all there is. *)
Leads(d, read, next, all) ==
  \E rest \in Wire : Joined(d, all) = (Joined(d, read) \o Encode[d][next]) \o rest

LEMMA PartlyMore ==
  ASSUME NEW o, NEW i \in 1 .. MaxDepth + 1, NEW c \in Call, NEW t, Partly(o, Room(i), c, t),
         Len(c.items) < Len(t)
  PROVE  /\ t[Len(c.items) + 1] \in ValuesTo(Room(i))
         /\ Partly(o, Room(i), Fuller(c, t[Len(c.items) + 1]), t)
         /\ Leads(Room(i), c.items, t[Len(c.items) + 1], t)
<1> DEFINE d == Room(i)
           items == c.items
           k == Len(items)
           x == t[k + 1]
<1>1. d \in Nat /\ items \in Seq(Item) /\ k \in Nat
  BY RoomIs, CallIs, LenProperties
<1>2. /\ t \in Seq(ValuesTo(d)) /\ k < Len(t) /\ items = SubSeq(t, 1, k)
      /\ At(o, c.start, Joined(d, t)) /\ c.end = c.start + Len(Joined(d, t))
  BY DEF Partly
<1> HIDE DEF d, k
<1>3. /\ items \in Seq(ValuesTo(d)) /\ x \in ValuesTo(d)
      /\ SubSeq(t, 1, k + 1) = Append(items, x)
      /\ \E rest \in Wire : Joined(d, t) = (Joined(d, items) \o Encode[d][x]) \o rest
  <2> DEFINE read == SubSeq(t, 1, k)
  <2>1. /\ read \in Seq(ValuesTo(d)) /\ x \in ValuesTo(d)
        /\ SubSeq(t, 1, k + 1) = Append(read, x)
        /\ \E rest \in Wire : Joined(d, t) = (Joined(d, read) \o Encode[d][x]) \o rest
    BY <1>1, <1>2, JoinedNext
  <2>2. read = items
    BY <1>2
  <2> HIDE DEF read, x
  <2> QED
    BY <2>1, <2>2
<1>4. Len(Append(items, x)) = k + 1 /\ k + 1 <= Len(t)
  <2>1. Len(Append(items, x)) = k + 1
    BY <1>3, AppendProperties DEF k
  <2>2. k + 1 <= Len(t)
    BY <1>1, <1>2, LenProperties
  <2> QED
    BY <2>1, <2>2
<1> DEFINE f == Fuller(c, x)
<1>5. f.start = c.start /\ f.end = c.end /\ f.items = Append(items, x)
  BY DEF Fuller
<1> HIDE DEF x, f
<1>6. Partly(o, d, f, t)
  BY <1>2, <1>3, <1>4, <1>5 DEF Partly
<1>7. Leads(d, items, x, t)
  BY <1>3 DEF Leads
<1> QED
  BY <1>3, <1>6, <1>7 DEF d, k, x, f

LEMMA ExpectedIs ==
  ASSUME NEW o, NEW s \in Seq(Call), Len(s) \in 1 .. MaxDepth + 1, NEW T, Expected(o, s, T),
         NEW i \in 1 .. Len(s)
  PROVE  /\ i \in 1 .. MaxDepth + 1 /\ s[i] \in Call /\ Len(s) \in Nat
         /\ Partly(o, Room(i), s[i], T[i])
         /\ T \in Seq(Seq(Item)) /\ Len(T) = Len(s) /\ T[i] \in Seq(Item)
<1>1. i \in 1 .. MaxDepth + 1 /\ Len(s) \in Nat
  <2> DEFINE n == Len(s)
  <2>1. n \in 1 .. MaxDepth + 1 /\ i \in 1 .. n
    OBVIOUS
  <2> HIDE DEF n
  <2>2. i \in 1 .. MaxDepth + 1 /\ n \in Nat
    BY <2>1, DepthIs
  <2> QED
    BY <2>2 DEF n
<1>2. s[i] \in Call
  BY ElementOfSeq
<1>3. T \in Seq(Seq(Item)) /\ Len(T) = Len(s)
  BY DEF Expected
<1>4. T[i] \in Seq(Item)
  BY <1>3, ElementOfSeq
<1> QED
  BY <1>1, <1>2, <1>3, <1>4 DEF Expected

LEMMA ExpectedMore ==
  ASSUME NEW o, NEW s \in Seq(Call), Len(s) \in 1 .. MaxDepth + 1, NEW T, Expected(o, s, T),
         Len(s[Len(s)].items) < Len(T[Len(s)]),
         NEW m, Len(m) = Len(s),
         m[Len(s)] = Fuller(s[Len(s)], T[Len(s)][Len(s[Len(s)].items) + 1]),
         \A i \in 1 .. Len(s) - 1 : m[i] = s[i]
  PROVE  Expected(o, m, T)
<1> DEFINE n == Len(s)
<1>1. n \in 1 .. n /\ n \in Nat
  <2>1. n \in 1 .. MaxDepth + 1
    OBVIOUS
  <2> HIDE DEF n
  <2> QED
    BY <2>1, DepthIs
<1>2. Partly(o, Room(n), m[n], T[n])
  <2> DEFINE c == s[n]
             t == T[n]
  <2>1. n \in 1 .. MaxDepth + 1 /\ c \in Call /\ Partly(o, Room(n), c, t) /\ Len(c.items) < Len(t)
        /\ m[n] = Fuller(c, t[Len(c.items) + 1])
    BY <1>1, ExpectedIs
  <2> HIDE DEF c, t, n
  <2>2. Partly(o, Room(n), Fuller(c, t[Len(c.items) + 1]), t)
    BY <2>1, PartlyMore
  <2> QED
    BY <2>1, <2>2 DEF t
<1>3. /\ T \in Seq(Seq(Item)) /\ Len(T) = n /\ Len(m) = n
      /\ \A i \in 1 .. n : Partly(o, Room(i), s[i], T[i])
      /\ \A i \in 1 .. n - 1 : m[i] = s[i]
      /\ \A i \in 1 .. n - 1 : /\ Len(s[i].items) < Len(T[i])
                               /\ T[i][Len(s[i].items) + 1] = Sequence(T[i + 1])
  BY DEF Expected
<1> HIDE DEF n
<1>4. \A i \in 1 .. n : i = n \/ i \in 1 .. n - 1
  BY <1>1
<1>5. \A i \in 1 .. n : Partly(o, Room(i), m[i], T[i])
  BY <1>2, <1>3, <1>4
<1> QED
  BY <1>3, <1>5 DEF Expected

LEMMA ExpectedFront ==
  ASSUME NEW o, NEW s \in Seq(Call), Len(s) \in 1 .. MaxDepth + 1, Len(s) > 1,
         NEW T, Expected(o, s, T),
         NEW f, Len(f) = Len(s) - 1, \A i \in 1 .. Len(s) - 1 : f[i] = s[i]
  PROVE  /\ Expected(o, f, SubSeq(T, 1, Len(s) - 1))
         /\ \A i \in 1 .. Len(s) - 1 : SubSeq(T, 1, Len(s) - 1)[i] = T[i]
<1> DEFINE n == Len(s)
           m == n - 1
           F == SubSeq(T, 1, m)
<1>1. /\ T \in Seq(Seq(Item)) /\ Len(T) = n /\ Len(f) = m
      /\ \A i \in 1 .. n : Partly(o, Room(i), s[i], T[i])
      /\ \A i \in 1 .. m : f[i] = s[i]
      /\ \A i \in 1 .. n - 1 : /\ Len(s[i].items) < Len(T[i])
                               /\ T[i][Len(s[i].items) + 1] = Sequence(T[i + 1])
  BY DEF Expected
<1>2. /\ m \in 0 .. n /\ 1 .. m \subseteq 1 .. n /\ 1 .. m - 1 \subseteq 1 .. n - 1
      /\ 1 .. m - 1 \subseteq 1 .. m /\ \A i \in 1 .. m - 1 : i + 1 \in 1 .. m
  <2>1. n \in 1 .. MaxDepth + 1 /\ n > 1
    OBVIOUS
  <2> HIDE DEF n
  <2> QED
    BY <2>1, DepthIs
<1>3. F \in Seq(Seq(Item)) /\ Len(F) = m /\ \A i \in 1 .. m : F[i] = T[i]
  BY <1>1, <1>2, SubSeqIs
<1> HIDE DEF F, m, n
<1>4. Expected(o, f, F)
  BY <1>1, <1>2, <1>3 DEF Expected
<1> QED
  BY <1>3, <1>4 DEF F, m, n

LEMMA ExpectedOpen ==
  ASSUME NEW o, NEW s \in Seq(Call), Len(s) \in 1 .. MaxDepth, NEW T, Expected(o, s, T),
         Len(s[Len(s)].items) < Len(T[Len(s)]),
         NEW items \in Seq(ValuesTo(Room(Len(s) + 1))),
         T[Len(s)][Len(s[Len(s)].items) + 1] = Sequence(items),
         NEW g \in Call, g.items = <<>>,
         At(o, g.start, Joined(Room(Len(s) + 1), items)),
         g.end = g.start + Len(Joined(Room(Len(s) + 1), items))
  PROVE  Expected(o, Append(s, g), Append(T, items)) /\ Append(T, items)[1] = T[1]
<1> DEFINE n == Len(s)
           m == Append(s, g)
           M == Append(T, items)
<1>1. /\ T \in Seq(Seq(Item)) /\ Len(T) = n
      /\ \A i \in 1 .. n : Partly(o, Room(i), s[i], T[i])
      /\ \A i \in 1 .. n - 1 : /\ Len(s[i].items) < Len(T[i])
                               /\ T[i][Len(s[i].items) + 1] = Sequence(T[i + 1])
  BY DEF Expected
<1>2. /\ n + 1 \in 1 .. MaxDepth + 1 /\ n \in 1 .. n /\ 1 \in 1 .. n /\ n \in Nat
      /\ (n + 1) - 1 = n
      /\ \A i \in 1 .. n + 1 : i = n + 1 \/ i \in 1 .. n
      /\ \A i \in 1 .. n : i = n \/ (i \in 1 .. n - 1 /\ i + 1 \in 1 .. n)
  <2>1. n \in 1 .. MaxDepth
    OBVIOUS
  <2> HIDE DEF n
  <2> QED
    BY <2>1, DepthIs
<1>3. items \in Seq(Item)
  <2>1. items \in Seq(ValuesTo(Room(n + 1)))
    OBVIOUS
  <2> HIDE DEF n
  <2>2. ValuesTo(Room(n + 1)) \subseteq Item
    BY <1>2, RoomIs
  <2> QED
    BY <2>1, <2>2, SeqMonotonic
<1>4. Len(m) = n + 1 /\ m[n + 1] = g /\ \A i \in 1 .. n : m[i] = s[i]
  BY AppendProperties
<1>5. M \in Seq(Seq(Item)) /\ Len(M) = n + 1 /\ M[n + 1] = items /\ \A i \in 1 .. n : M[i] = T[i]
  BY <1>1, <1>3, AppendProperties
<1>6. Len(s[n].items) < Len(T[n]) /\ T[n][Len(s[n].items) + 1] = Sequence(items)
  OBVIOUS
<1>7. Partly(o, Room(n + 1), g, items)
  <2>1. SubSeq(items, 1, 0) = <<>> /\ Len(<<>>) = 0
    BY SubSeqEmpty
  <2>2. 0 <= Len(items)
    BY <1>3, LenProperties
  <2> QED
    BY <2>1, <2>2 DEF Partly
<1> HIDE DEF n, m, M
<1>8. \A i \in 1 .. n + 1 : Partly(o, Room(i), m[i], M[i])
  BY <1>1, <1>2, <1>4, <1>5, <1>7
<1>9. ASSUME NEW i \in 1 .. n
      PROVE  Len(m[i].items) < Len(M[i]) /\ M[i][Len(m[i].items) + 1] = Sequence(M[i + 1])
  <2>1. m[i] = s[i] /\ M[i] = T[i]
    BY <1>4, <1>5
  <2>2. CASE i = n
    BY <1>5, <1>6, <2>1, <2>2
  <2>3. CASE i \in 1 .. n - 1 /\ i + 1 \in 1 .. n
    <3>1. M[i + 1] = T[i + 1]
      BY <1>5, <2>3
    <3> QED
      BY <1>1, <2>1, <2>3, <3>1
  <2>4. i = n \/ (i \in 1 .. n - 1 /\ i + 1 \in 1 .. n)
    BY <1>2
  <2> QED
    BY <2>2, <2>3, <2>4
<1>10. Expected(o, m, M)
  BY <1>2, <1>4, <1>5, <1>8, <1>9 DEF Expected
<1> QED
  BY <1>2, <1>5, <1>10 DEF m, M

(* A call that has read all its items is at its end, and no other is. *)
LEMMA PartlyNext ==
  ASSUME NEW o \in Wire, NEW i \in 1 .. MaxDepth + 1, NEW c \in Call, NEW t,
         Partly(o, Room(i), c, t), Len(c.items) < Len(t)
  PROVE  LET e == Encode[Room(i)][t[Len(c.items) + 1]]
         IN  /\ At(o, Here(Room(i), c), e)
             /\ Here(Room(i), c) + Len(e) <= c.end /\ Here(Room(i), c) < c.end
<1> DEFINE d == Room(i)
           x == t[Len(c.items) + 1]
           e == Encode[d][x]
           j == Joined(d, c.items)
           all == Joined(d, t)
<1>1. d \in Nat /\ x \in ValuesTo(d)
  BY RoomIs, PartlyMore
<1>2. PICK rest \in Wire : all = (j \o e) \o rest
  <2>1. Leads(Room(i), c.items, t[Len(c.items) + 1], t)
    BY PartlyMore
  <2> QED
    BY <2>1 DEF Leads
<1>3. At(o, c.start, all) /\ c.end = c.start + Len(all) /\ Here(d, c) = c.start + Len(j)
  BY DEF Partly, Here
<1>4. j \in Wire
  <2>1. t \in Seq(ValuesTo(d)) /\ Len(c.items) \in 0 .. Len(t) /\ c.items = SubSeq(t, 1, Len(c.items))
    BY CallIs, LenProperties DEF Partly
  <2>2. c.items \in Seq(ValuesTo(d))
    BY <2>1, SubSeqIs
  <2> QED
    BY <1>1, <2>2, JoinedMore
<1>5. c.start \in Nat
  BY CallIs
<1> HIDE DEF x
<1>6. e \in Wire /\ Len(e) > 1
  BY <1>1, EncodingIs
<1> HIDE DEF e, j, all, d
<1> DEFINE je == j \o e
<1>7. je \in Wire /\ Len(je) = Len(j) + Len(e) /\ Len(j) \in Nat /\ Len(e) \in Nat
  BY <1>4, <1>6, WireJoin, LenProperties DEF Wire
<1>8. At(o, c.start, je) <=> At(o, c.start, j) /\ At(o, c.start + Len(j), e)
  BY <1>4, <1>5, <1>6, AtBoth
<1> HIDE DEF je
<1>9. all = je \o rest
  BY <1>2 DEF je
<1>10. Len(je \o rest) = Len(je) + Len(rest) /\ Len(rest) \in Nat
  BY <1>7, WireJoin, LenProperties DEF Wire
<1>11. At(o, c.start, je)
  <2>1. At(o, c.start, je \o rest) <=> At(o, c.start, je) /\ At(o, c.start + Len(je), rest)
    BY <1>5, <1>7, AtBoth
  <2> QED
    BY <1>3, <1>9, <2>1
<1>12. At(o, Here(d, c), e)
  BY <1>3, <1>8, <1>11
<1>13. Here(d, c) + Len(e) <= c.end /\ Here(d, c) < c.end
  <2> DEFINE a == Len(j)
             b == Len(e)
             r == Len(rest)
             s == c.start
  <2>1. /\ a \in Nat /\ b \in Nat /\ r \in Nat /\ s \in Nat /\ b > 1
        /\ Here(d, c) = s + a /\ c.end = s + ((a + b) + r)
    BY <1>3, <1>5, <1>6, <1>7, <1>9, <1>10
  <2> HIDE DEF a, b, r, s
  <2>2. (s + a) + b <= s + ((a + b) + r) /\ s + a < s + ((a + b) + r)
    BY <2>1
  <2> QED
    BY <2>1, <2>2 DEF b
<1> QED
  BY <1>12, <1>13 DEF d, e, x

LEMMA PartlyDone ==
  ASSUME NEW o, NEW d, NEW c \in Call, NEW t, Partly(o, d, c, t), ~(Len(c.items) < Len(t))
  PROVE  c.items = t /\ Here(d, c) = c.end
<1>1. t \in Seq(ValuesTo(d)) /\ Len(c.items) <= Len(t) /\ c.items = SubSeq(t, 1, Len(c.items))
      /\ c.end = c.start + Len(Joined(d, t))
  BY DEF Partly
<1>2. Len(t) \in Nat /\ Len(c.items) \in Nat
  BY <1>1, CallIs, LenProperties
<1>3. Len(c.items) = Len(t)
  BY <1>1, <1>2
<1>4. c.items = t
  BY <1>1, <1>3, SubSeqFull
<1> QED
  BY <1>1, <1>4 DEF Here

(* The item that a call under way has still to read, and the element it is in. *)
LEMMA NextItem ==
  ASSUME IInv, NEW T, Expected(data, stack, T), Len(T[1]) = 1, IsCalling
  PROVE  LET n == Len(stack)
             x == T[n][Len(Top.items) + 1]
         IN  /\ n <= MaxDepth /\ Len(Top.items) < Len(T[n])
             /\ x \in ValuesTo(Room(n)) /\ Partly(data, Room(n), Top, T[n])
             /\ At(data, off, Encode[Room(n)][x])
             /\ off + Len(Encode[Room(n)][x]) <= Top.end
<1> DEFINE n == Len(stack)
           c == Top
           t == T[n]
           x == t[Len(c.items) + 1]
<1>1. /\ n \in 1 .. MaxDepth + 1 /\ n \in Nat /\ n > 0 /\ stack \in Seq(Call) /\ data \in Wire
      /\ c = stack[n] /\ c \in Call /\ off = Here(Room(n), c)
  BY TopIs
<1>2. Partly(data, Room(n), c, t)
  <2>1. n \in 1 .. n
    <3> HIDE DEF n
    <3> QED
      BY <1>1
  <2> QED
    BY <1>1, <2>1, ExpectedIs
<1>3. Len(c.items) < Len(t)
  <2>1. CASE n = 1
    <3>1. c.items = <<>> /\ Len(<<>>) = 0
      BY <2>1 DEF IsCalling
    <3> QED
      BY <2>1, <3>1
  <2>2. CASE n # 1
    <3>1. off < c.end
      BY <2>2 DEF IsCalling
    <3>2. off \in Nat /\ c.end \in Nat
      BY TopIs
    <3>3. ~(Len(c.items) < Len(t)) => off = c.end
      BY <1>1, <1>2, PartlyDone
    <3> HIDE DEF c, t
    <3> QED
      BY <3>1, <3>2, <3>3
  <2> QED
    BY <2>1, <2>2
<1> HIDE DEF n, c, t
<1>4. x \in ValuesTo(Room(n))
  BY <1>1, <1>2, <1>3, PartlyMore
<1>5. At(data, off, Encode[Room(n)][x]) /\ off + Len(Encode[Room(n)][x]) <= c.end
  BY <1>1, <1>2, <1>3, PartlyNext
<1>6. n <= MaxDepth
  <2>1. n = MaxDepth + 1 => Room(n) = 0
    BY DepthIs DEF Room
  <2>2. n # MaxDepth + 1
    BY <1>4, <2>1, NoValues
  <2> QED
    BY <1>1, <2>2, DepthIs
<1> QED
  BY <1>2, <1>3, <1>4, <1>5, <1>6 DEF n, c, t

LEMMA ElementSpelled ==
  ASSUME IInv, Capped(data), Len(stack) <= MaxDepth, NEW tag \in Octet, NEW body \in Wire,
         At(data, off, Spell(tag, body)), off + Len(Spell(tag, body)) <= Top.end
  PROVE  /\ Element # None /\ Element.tag = tag
         /\ Element.start \in Nat /\ Element.end = Element.start + Len(body)
         /\ At(data, Element.start, body)
         /\ SubSeq(data, Element.start + 1, Element.end) = body
<1> DEFINE n == Len(body)
           w == Opening(tag, n)
           k == Len(w)
           limit == Top.end
<1>1. n \in Nat /\ Len(Spell(tag, body)) = k + n
  BY SpellIs
<1>2. k \in Nat /\ k > 1
  BY <1>1, OpeningIs
<1>3. /\ data \in Seq(Octet) /\ data \in Wire /\ Len(data) \in Nat /\ off \in Nat
      /\ limit \in Nat /\ limit <= Len(data)
  BY TopIs
<1>4. At(data, off, w) /\ At(data, off + k, body)
  BY <1>3, AtSpell
<1>5. off + (k + n) <= limit
  BY <1>1
<1>6. Element = Header(limit)
  <2>1. ~(Len(stack) > MaxDepth)
    BY TopIs, DepthIs
  <2> QED
    BY <2>1 DEF Element
<1> HIDE DEF n, k, limit
<1>7. n < Len(data) /\ off + k + n <= limit /\ off + k \in Nat /\ off + k + n \in Nat
      /\ off + k <= off + k + n /\ off + k + n <= Len(data) /\ (off + k + n) - (off + k) = n
  BY <1>1, <1>2, <1>3, <1>5
<1>8. n < High \/ Len(LengthOctets(n)) <= MAX_LENGTH_OCTETS
  BY <1>1, <1>7 DEF Capped
<1>9. Header(limit) = [tag |-> tag, start |-> off + k, end |-> off + k + n]
  BY <1>1, <1>3, <1>4, <1>7, <1>8, HeaderSpelled DEF k
<1> HIDE DEF w
<1> DEFINE p == off + k
           q == off + k + n
<1>10. body = SubSeq(data, p + 1, q)
  <2>1. p \in Nat /\ q \in Nat /\ p <= q /\ q <= Len(data) /\ q - p = n /\ At(data, p, body) /\ Len(body) = n
    BY <1>4, <1>7 DEF n
  <2> HIDE DEF p, q
  <2>2. \A s \in Wire : At(data, p, s) /\ Len(s) = q - p => s = SubSeq(data, p + 1, q)
    BY <1>3, <2>1, AtSub
  <2> QED
    BY <2>1, <2>2
<1>11. Element # None /\ Element.tag = tag /\ Element.start = p /\ Element.end = q
  <2>1. Element = [tag |-> tag, start |-> p, end |-> q]
    BY <1>6, <1>9
  <2> HIDE DEF p, q
  <2> QED
    BY <2>1 DEF None
<1> QED
  BY <1>4, <1>7, <1>10, <1>11 DEF n

(* The next item is read, or opened, as what it is. *)
LEMMA ItemSpelled ==
  ASSUME IInv, Capped(data), NEW T, Expected(data, stack, T), Len(T[1]) = 1, IsCalling
  PROVE  LET n == Len(stack)
             x == T[n][Len(Top.items) + 1]
         IN  \/ x \in Scalars /\ Scalar = x /\ Scalar # None /\ ~OpensSequence
             \/ \E items \in Seq(ValuesTo(Room(n + 1))) :
                  /\ x = Sequence(items) /\ OpensSequence /\ Scalar = None
                  /\ Room(n + 1) \in Nat
                  /\ At(data, Element.start, Joined(Room(n + 1), items))
                  /\ Element.end = Element.start + Len(Joined(Room(n + 1), items))
<1> DEFINE n == Len(stack)
           x == T[n][Len(Top.items) + 1]
           e == Encode[Room(n)][x]
<1>1. /\ n <= MaxDepth /\ x \in ValuesTo(Room(n))
      /\ At(data, off, e) /\ off + Len(e) <= Top.end
  BY NextItem
<1>2. Room(n) = Room(n + 1) + 1 /\ Room(n + 1) \in Nat
  BY <1>1, TopIs, RoomIs
<1> HIDE DEF x
<1>3. CASE x \in Scalars
  <2>1. e = Spell(TagOf(x), Content(x))
    BY <1>2, <1>3, ValuesAre
  <2>2. /\ TagOf(x) \in Octet /\ TagOf(x) # TAG_SEQUENCE /\ x # None
        /\ Content(x) \in Wire
    BY <1>3, ScalarIs, WireOctets
  <2>3. /\ Element # None /\ Element.tag = TagOf(x)
        /\ SubSeq(data, Element.start + 1, Element.end) = Content(x)
    BY <1>1, <2>1, <2>2, ElementSpelled
  <2>4. Scalar = x
    BY <1>3, <2>3, ScalarSpelled DEF Scalar
  <2> QED
    BY <1>3, <2>2, <2>3, <2>4 DEF OpensSequence, x
<1>4. CASE x \in {Sequence(items) : items \in Seq(ValuesTo(Room(n + 1)))}
  <2>1. PICK items \in Seq(ValuesTo(Room(n + 1))) : x = Sequence(items)
    BY <1>4
  <2> DEFINE j == Joined(Room(n + 1), items)
  <2>2. e = Spell(TAG_SEQUENCE, j)
    BY <1>2, <2>1, ValuesAre
  <2>3. j \in Wire /\ TAG_SEQUENCE \in Octet
    BY <1>2, JoinedMore, Tags
  <2> HIDE DEF j
  <2>4. /\ Element # None /\ Element.tag = TAG_SEQUENCE
        /\ Element.end = Element.start + Len(j) /\ At(data, Element.start, j)
    BY <1>1, <2>2, <2>3, ElementSpelled
  <2>5. Scalar = None
    BY <2>4, SequenceIsNoScalar DEF Scalar
  <2> QED
    BY <1>2, <2>1, <2>4, <2>5 DEF OpensSequence, x, j
<1> QED
  BY <1>1, <1>2, <1>3, <1>4, ValuesAre

Ongoing(T, v) ==
  /\ v \in Values /\ encode_value(v) = data
  /\ Expected(data, stack, T) /\ T[1] = <<v>>

LEMMA OngoingIs ==
  ASSUME IInv, NEW T, NEW v, Ongoing(T, v)
  PROVE  /\ Capped(data) /\ Len(T[1]) = 1 /\ Len(T) = Len(stack)
         /\ Partly(data, Room(Len(stack)), Top, T[Len(stack)])
         /\ Len(stack) \in 1 .. Len(stack)
<1>1. Len(T[1]) = 1 /\ Capped(data)
  BY ValuesAreCapped DEF Ongoing
<1>2. Len(stack) \in 1 .. Len(stack)
  <2> DEFINE n == Len(stack)
  <2>1. n \in Nat /\ n > 0
    BY TopIs
  <2> HIDE DEF n
  <2> QED
    BY <2>1 DEF n
<1> QED
  BY <1>1, <1>2, TopIs DEF Ongoing, Expected

LEMMA InitOngoing == Init => Complete
<1> SUFFICES ASSUME Init, NEW v \in Values, encode_value(v) = data
             PROVE  verdict # Refused /\ \E T : Expected(data, stack, T) /\ T[1] = <<v>>
  BY DEF Complete
<1>1. verdict # Refused
  BY DEF Init, Reading, Refused
<1> DEFINE t == <<v>>
           T == <<t>>
           c == [start |-> 0, end |-> Len(data), items |-> <<>>]
<1>2. stack = <<c>> /\ Len(stack) = 1 /\ stack[1] = c
  BY DEF Init
<1>3. c.start = 0 /\ c.end = Len(data) /\ c.items = <<>>
  OBVIOUS
<1>4. v \in ValuesTo(MaxDepth) /\ MaxDepth \in Nat /\ Room(1) = MaxDepth
      /\ ValuesTo(Room(1)) \subseteq Item
  <2>1. 1 \in 1 .. MaxDepth + 1
    BY DepthIs
  <2> QED
    BY <2>1, ValuesAreCapped, DepthIs, RoomIs DEF Room
<1>5. t = Append(<<>>, v) /\ t \in Seq(ValuesTo(MaxDepth)) /\ Len(t) = 1 /\ t \in Seq(Item)
  BY <1>4
<1>6. T \in Seq(Seq(Item)) /\ Len(T) = 1 /\ T[1] = t
  BY <1>5
<1> HIDE DEF c, t, T
<1>7. Joined(MaxDepth, t) = data
  <2> DEFINE e == Encode[MaxDepth][v]
  <2>1. <<>> \in Seq(ValuesTo(MaxDepth))
    OBVIOUS
  <2>2. e \in Wire
    BY <1>4, EncodingIs
  <2>3. Joined(MaxDepth, Append(<<>>, v)) = Joined(MaxDepth, <<>>) \o e
    BY <1>4, <2>1, JoinedMore
  <2> HIDE DEF e
  <2>4. <<>> \o e = e
    BY <2>2, ConcatEmptySeq DEF Wire
  <2>5. e = data
    BY DEF e, encode_value
  <2> QED
    BY <1>4, <1>5, <2>3, <2>4, <2>5, JoinedNone
<1>8. Partly(data, Room(1), c, t)
  <2>1. SubSeq(t, 1, 0) = <<>> /\ Len(<<>>) = 0
    BY SubSeqEmpty
  <2>2. data \in Wire /\ Len(data) \in Nat
    BY ByteReaderAssumption, WireOctets DEF Init
  <2>3. At(data, 0, data)
    BY <2>2 DEF At
  <2> QED
    BY <1>3, <1>4, <1>5, <1>7, <2>1, <2>2, <2>3 DEF Partly
<1>9. Expected(data, stack, T)
  <2>1. 1 .. 1 - 1 = {} /\ \A i \in 1 .. 1 : i = 1
    OBVIOUS
  <2> QED
    BY <1>2, <1>6, <1>8, <2>1 DEF Expected
<1> QED
  BY <1>1, <1>6, <1>9 DEF t

LEMMA OpenSequenceOngoing ==
  ASSUME IInv, NEW T, NEW v, Ongoing(T, v), OpenSequence
  PROVE  \E M : Expected(data', stack', M) /\ M[1] = <<v>>
<1> DEFINE n == Len(stack)
           x == T[n][Len(Top.items) + 1]
           g == [start |-> Element.start, end |-> Element.end, items |-> <<>>]
<1>1. /\ IsCalling /\ OpensSequence /\ data' = data /\ stack' = Append(stack, g)
  BY DEF OpenSequence
<1>2. Capped(data) /\ Len(T[1]) = 1 /\ Expected(data, stack, T) /\ T[1] = <<v>>
  BY OngoingIs DEF Ongoing
<1>3. n <= MaxDepth /\ Len(Top.items) < Len(T[n])
  BY <1>1, <1>2, NextItem
<1>4. PICK items \in Seq(ValuesTo(Room(n + 1))) :
        /\ x = Sequence(items)
        /\ At(data, Element.start, Joined(Room(n + 1), items))
        /\ Element.end = Element.start + Len(Joined(Room(n + 1), items))
  BY <1>1, <1>2, ItemSpelled
<1>5. g \in Call /\ g.start = Element.start /\ g.end = Element.end /\ g.items = <<>>
  <2>1. Element # None
    BY <1>1 DEF OpensSequence
  <2>2. Element.start \in Nat /\ Element.end \in Nat
    BY <2>1, ElementIs
  <2>3. <<>> \in Seq(Item)
    OBVIOUS
  <2> QED
    BY <2>2, <2>3 DEF Call
<1> HIDE DEF g
<1>6. n \in 1 .. MaxDepth /\ stack \in Seq(Call) /\ stack[n] = Top
  <2>1. n \in 1 .. MaxDepth + 1 /\ stack \in Seq(Call) /\ stack[n] = Top
    BY TopIs
  <2>2. n <= MaxDepth
    BY <1>3
  <2> HIDE DEF n
  <2>3. n \in 1 .. MaxDepth
    BY <2>1, <2>2, DepthIs
  <2> QED
    BY <2>1, <2>3
<1>7. /\ Len(stack) \in 1 .. MaxDepth /\ stack \in Seq(Call) /\ Expected(data, stack, T)
      /\ Len(stack[Len(stack)].items) < Len(T[Len(stack)])
      /\ T[Len(stack)][Len(stack[Len(stack)].items) + 1] = Sequence(items)
  BY <1>2, <1>3, <1>4, <1>6
<1>8. /\ g \in Call /\ g.items = <<>>
      /\ At(data, g.start, Joined(Room(Len(stack) + 1), items))
      /\ g.end = g.start + Len(Joined(Room(Len(stack) + 1), items))
  BY <1>4, <1>5
<1>9. items \in Seq(ValuesTo(Room(Len(stack) + 1)))
  BY <1>4
<1>10. Expected(data, Append(stack, g), Append(T, items)) /\ Append(T, items)[1] = T[1]
  BY ONLY <1>7, <1>8, <1>9, ExpectedOpen, Zenon
<1> QED
  BY <1>1, <1>2, <1>10

LEMMA ReadOneOngoing ==
  ASSUME IInv, NEW T, NEW v, Ongoing(T, v), ReadOne
  PROVE  Expected(data', stack', T)
<1> DEFINE n == Len(stack)
           x == T[n][Len(Top.items) + 1]
           more == WithItem(stack, x)
<1>1. IsCalling /\ Scalar # None /\ data' = data /\ stack' = WithItem(stack, Scalar)
  BY DEF ReadOne
<1>2. Capped(data) /\ Len(T[1]) = 1 /\ Expected(data, stack, T)
  BY OngoingIs DEF Ongoing
<1>3. /\ Len(Top.items) < Len(T[n]) /\ x \in ValuesTo(Room(n))
      /\ At(data, off, Encode[Room(n)][x]) /\ off + Len(Encode[Room(n)][x]) <= Top.end
  BY <1>1, <1>2, NextItem
<1>4. Scalar = x
  BY <1>1, <1>2, ItemSpelled
<1>5. /\ stack \in Seq(Call) /\ n \in 1 .. MaxDepth + 1 /\ stack[n] = Top /\ data \in Wire
      /\ off = Here(Room(n), stack[n]) /\ Calls(data, stack)
  BY TopIs DEF IInv
<1>6. n = 1 => stack[1].items = <<>>
  BY <1>1, <1>5 DEF IsCalling
<1>7. x = T[n][Len(stack[n].items) + 1]
  BY <1>5
<1> HIDE DEF x
<1>8. /\ Len(more) = n /\ more[n] = Fuller(stack[n], x)
      /\ \A i \in 1 .. n - 1 : more[i] = stack[i]
  BY <1>3, <1>5, <1>6, CallsMore
<1>9. stack' = more
  BY <1>1, <1>4
<1> HIDE DEF more
<1>10. Expected(data, more, T)
  BY <1>2, <1>3, <1>5, <1>7, <1>8, ExpectedMore
<1> QED
  BY <1>1, <1>9, <1>10

LEMMA RaiseNever ==
  ASSUME IInv, NEW T, NEW v, Ongoing(T, v) PROVE ~Raise
<1>1. Capped(data) /\ Len(T[1]) = 1 /\ Expected(data, stack, T)
  BY OngoingIs DEF Ongoing
<1>2. ASSUME IsCalling PROVE Scalar # None \/ OpensSequence
  BY <1>1, <1>2, ItemSpelled
<1> QED
  BY <1>2 DEF Raise

LEMMA CloseSequenceOngoing ==
  ASSUME IInv, NEW T, NEW v, Ongoing(T, v), CloseSequence
  PROVE  \E M : Expected(data', stack', M) /\ M[1] = <<v>>
<1> DEFINE n == Len(stack)
           m == n - 1
           s == Front(stack)
           x == Sequence(stack[n].items)
           more == WithItem(s, x)
           M == SubSeq(T, 1, m)
<1>1. /\ n > 1 /\ data' = data /\ stack' = WithItem(s, [kind |-> "seq", of |-> Top.items])
  BY DEF CloseSequence
<1>2. /\ stack \in Seq(Call) /\ n \in 1 .. MaxDepth + 1 /\ Top = stack[n] /\ data \in Wire
      /\ Calls(data, stack) /\ Top \in Call /\ off = Here(Room(n), Top)
  BY TopIs DEF IInv
<1>3. off = Top.end /\ Here(Room(n), stack[n]) = stack[n].end
  BY CloseSequenceIs
<1>4. Expected(data, stack, T) /\ T[1] = <<v>> /\ Partly(data, Room(n), Top, T[n])
  BY OngoingIs DEF Ongoing
<1>5. stack[n].items = T[n]
  <2> DEFINE c == Top
             t == T[n]
  <2>1. c.end \in Nat /\ Here(Room(n), c) = c.end
    BY <1>2, <1>3, TopIs
  <2>2. Len(c.items) < Len(t) => Here(Room(n), c) < c.end
    BY <1>2, <1>4, PartlyNext
  <2>3. ~(Len(c.items) < Len(t)) => c.items = t
    BY <1>2, <1>4, PartlyDone
  <2> HIDE DEF c, t
  <2>4. ~(Len(c.items) < Len(t))
    BY <2>1, <2>2
  <2>5. c.items = t
    BY <2>3, <2>4
  <2> QED
    BY <1>2, <2>5 DEF c, t
<1>6. /\ Calls(data, s) /\ Len(s) = m /\ \A i \in 1 .. m : s[i] = stack[i]
      /\ m = 1 => stack[1].items = <<>>
      /\ x \in ValuesTo(Room(m))
      /\ At(data, Here(Room(m), stack[m]), Encode[Room(m)][x])
      /\ Here(Room(m), stack[m]) + Len(Encode[Room(m)][x]) = stack[n].end
      /\ stack[n].end <= stack[m].end
  BY <1>1, <1>2, <1>3, CallsClosed
<1>7. m \in 1 .. m /\ 1 \in 1 .. m /\ m \in 1 .. MaxDepth + 1 /\ m \in 1 .. n - 1 /\ m + 1 = n
  <2> HIDE DEF n
  <2> QED
    BY <1>1, <1>2, DepthIs
<1>8. Expected(data, s, M) /\ \A i \in 1 .. m : M[i] = T[i]
  BY <1>1, <1>2, <1>4, <1>6, ExpectedFront
<1>9. Len(stack[m].items) < Len(T[m]) /\ T[m][Len(stack[m].items) + 1] = Sequence(T[m + 1])
  BY <1>4, <1>7 DEF Expected
<1>10. x = T[m][Len(stack[m].items) + 1]
  BY <1>5, <1>7, <1>9
<1>11. stack' = more
  BY <1>1, <1>2 DEF Sequence
<1> HIDE DEF s, x, m, n, M
<1>12. s[m] = stack[m] /\ s[1] = stack[1] /\ M[m] = T[m] /\ M[1] = T[1]
  BY <1>6, <1>7, <1>8
<1>13. /\ Len(more) = m /\ more[m] = Fuller(s[m], x)
       /\ \A i \in 1 .. m - 1 : more[i] = s[i]
  BY <1>2, <1>6, <1>12, CallsMore
<1> HIDE DEF more
<1>14. s \in Seq(Call)
  BY <1>6 DEF Calls
<1>15. Len(s[m].items) < Len(M[m]) /\ x = M[m][Len(s[m].items) + 1]
  BY <1>9, <1>10, <1>12
<1>16. Expected(data, more, M)
  BY <1>6, <1>7, <1>8, <1>13, <1>14, <1>15, ExpectedMore
<1> QED
  BY <1>1, <1>4, <1>11, <1>12, <1>16

LEMMA ReturnOngoing ==
  ASSUME IInv, NEW T, NEW v, Ongoing(T, v), Return
  PROVE  verdict' = Read(v)
<1> DEFINE x == Top.items[1]
<1>1. Len(stack) = 1 /\ Top.items = <<x>> /\ off = Len(encode_value(x))
  BY ReturnIs
<1>2. Partly(data, Room(1), Top, <<v>>) /\ v \in Values /\ encode_value(v) = data
  BY <1>1, OngoingIs DEF Ongoing
<1>3. x = v
  <2>1. Top.items = SubSeq(<<v>>, 1, 1)
    BY <1>1, <1>2 DEF Partly
  <2>2. SubSeq(<<v>>, 1, 1) = <<v>>
    <3>1. <<v>> \in Seq({v}) /\ Len(<<v>>) = 1
      OBVIOUS
    <3> QED
      BY <3>1, SubSeqFull
  <2> QED
    BY <2>1, <2>2
<1>4. off = Len(data)
  BY <1>1, <1>2, <1>3
<1> QED
  BY <1>3, <1>4 DEF Return

LEMMA NextComplete == IInv /\ Complete /\ [Next]_vars => Complete'
<1> SUFFICES ASSUME IInv, Complete, [Next]_vars PROVE Complete'
  OBVIOUS
<1>1. ASSUME UNCHANGED vars PROVE Complete'
  BY <1>1 DEF vars, Complete
<1>2. ASSUME Next PROVE Complete'
  <2>1. verdict = Reading /\ data' = data
    BY <1>2 DEF Next, OpenSequence, ReadOne, Raise, CloseSequence, Return, IsCalling
  <2>2. ASSUME NEW v \in Values, encode_value(v) = data'
        PROVE  /\ verdict' # Refused
               /\ verdict' = Reading => \E T : Expected(data', stack', T) /\ T[1] = <<v>>
    <3>1. PICK T : Ongoing(T, v)
      BY <2>1, <2>2 DEF Complete, Ongoing
    <3>2. Reading # Refused /\ Read(v) # Refused /\ Read(v) # Reading
      BY DEF Reading, Refused, Read
    <3>3. T[1] = <<v>>
      BY <3>1 DEF Ongoing
    <3>4. CASE OpenSequence
      <4>1. verdict' = Reading
        BY <2>1, <3>4 DEF OpenSequence
      <4> QED
        BY <3>1, <3>2, <3>4, <4>1, OpenSequenceOngoing
    <3>5. CASE ReadOne
      <4>1. verdict' = Reading
        BY <2>1, <3>5 DEF ReadOne
      <4> QED
        BY <3>1, <3>2, <3>3, <3>5, <4>1, ReadOneOngoing
    <3>6. CASE Raise
      BY <3>1, <3>6, RaiseNever
    <3>7. CASE CloseSequence
      <4>1. verdict' = Reading
        BY <2>1, <3>7 DEF CloseSequence
      <4> QED
        BY <3>1, <3>2, <3>7, <4>1, CloseSequenceOngoing
    <3>8. CASE Return
      BY <3>1, <3>2, <3>8, ReturnOngoing
    <3> QED
      BY <1>2, <3>4, <3>5, <3>6, <3>7, <3>8 DEF Next
  <2> QED
    BY <2>2 DEF Complete
<1> QED
  BY <1>1, <1>2

(* No encoding of a value within the caps is refused: while it is read, what   *)
(* is still to come is what encode_value has spelled.                          *)
THEOREM NothingSpelledIsRefused == Spec => []Complete
BY InitOngoing, NextComplete, ReadAsSpelled, PTL DEF Spec

(***************************************************************************)
(* The answer the reader owes: each step that answers is one of Codec's,   *)
(* every other leaves input and verdict alone.                             *)
(***************************************************************************)
LEMMA InitAnswers == Init => Answer!Init
BY DEF Init, Answer!Init, Reading, Answer!Reading

LEMMA RefusedRightly ==
  ASSUME Complete', verdict' = Refused, data' = data
  PROVE  Answer!Refuse
<1>1. ASSUME NEW v \in Values PROVE encode_value(v) # data
  BY DEF Complete
<1> QED
  BY <1>1 DEF Answer!Refuse, Answer!Encodings, Refused, Answer!Refused

LEMMA NextAnswers ==
  IInv /\ Complete' /\ [Next]_vars => [Answer!Decide]_<<data, verdict>>
<1> SUFFICES ASSUME IInv, Complete', [Next]_vars, ~(UNCHANGED <<data, verdict>>)
             PROVE  Answer!Decide
  OBVIOUS
<1>1. Raise \/ Return
  BY DEF Next, vars, OpenSequence, ReadOne, CloseSequence
<1>2. verdict = Answer!Reading /\ data' = data
  BY <1>1 DEF Raise, Return, IsCalling, Reading, Answer!Reading
<1>3. CASE verdict' = Refused
  BY <1>2, <1>3, RefusedRightly DEF Answer!Decide
<1>4. CASE verdict' # Refused
  <2> DEFINE v == Top.items[1]
  <2>1. Return
    BY <1>1, <1>4 DEF Raise
  <2>2. off = Len(data) /\ verdict' = Read(v)
    BY <1>4, <2>1 DEF Return
  <2>3. encode_value(v) = data
    BY <2>1, <2>2, ReturnIs
  <2> HIDE DEF v
  <2>4. verdict'.err = "ok" /\ verdict'.value = v /\ verdict' = Answer!Read(v)
    BY <2>2 DEF Read, Answer!Read
  <2>5. Answer!Accept
    BY <2>3, <2>4, <1>2 DEF Answer!Accept
  <2> QED
    BY <1>2, <2>5 DEF Answer!Decide
<1> QED
  BY <1>3, <1>4

(* A value is read from its one encoding and from nothing else, and no         *)
(* encoding within the caps is refused: the reader implements its promise.     *)
THEOREM ReaderKeepsAnswer == Spec => AnswerKept
<1>1. Init => Answer!Init
  BY InitAnswers
<1>2. IInv /\ Complete' /\ [Next]_vars => [Answer!Decide]_<<data, verdict>>
  BY NextAnswers
<1> QED
  BY <1>1, <1>2, ReadAsSpelled, NothingSpelledIsRefused, PTL
     DEF Spec, AnswerKept, Answer!Spec

-----------------------------------------------------------------------------
(* What is left to do: each octet may open a SEQUENCE, which closes later.     *)
ToDo == 2 * (Len(data) - off) + Len(stack) + (IF verdict = Reading THEN 1 ELSE 0)

LEMMA ToDoIs ==
  ASSUME IInv
  PROVE  /\ Len(data) \in Nat /\ off \in Nat /\ off <= Len(data) /\ Len(stack) \in Nat
         /\ ToDo \in Nat
<1> DEFINE size  == Len(data)
           depth == Len(stack)
           limit == Top.end
<1>1. /\ size \in Nat /\ depth \in Nat /\ off \in Nat /\ limit \in Nat
      /\ off <= limit /\ limit <= size
  BY TopIs
<1>2. ToDo = 2 * (size - off) + depth + (IF verdict = Reading THEN 1 ELSE 0)
  BY DEF ToDo
<1> HIDE DEF size, depth, limit
<1>3. off <= size
  BY <1>1
<1>4. 2 * (size - off) + depth + (IF verdict = Reading THEN 1 ELSE 0) \in Nat
  BY <1>1, <1>3
<1> QED
  BY <1>1, <1>2, <1>3, <1>4 DEF size, depth

LEMMA FrontLength ==
  ASSUME NEW s \in Seq(Call), Len(s) > 0
  PROVE  Front(s) \in Seq(Call) /\ Len(Front(s)) = Len(s) - 1 /\ Len(s) - 1 \in Nat
<1> DEFINE m == Len(s) - 1
<1>1. m \in 0 .. Len(s) /\ m \in Nat
  BY LenProperties
<1>2. Front(s) = SubSeq(s, 1, m)
  BY DEF Front
<1> HIDE DEF m
<1>3. SubSeq(s, 1, m) \in Seq(Call) /\ Len(SubSeq(s, 1, m)) = m
  BY <1>1, SubSeqIs
<1> QED
  BY <1>1, <1>2, <1>3 DEF m

LEMMA WithItemLength ==
  ASSUME NEW s \in Seq(Call), Len(s) > 0, NEW x
  PROVE  Len(WithItem(s, x)) = Len(s)
<1> DEFINE f == Front(s)
           y == [Last(s) EXCEPT !.items = Append(@, x)]
<1>1. f \in Seq(Call) /\ Len(f) = Len(s) - 1
  BY FrontLength
<1>2. WithItem(s, x) = f \o <<y>> /\ Len(s) \in Nat
  BY LenProperties DEF WithItem
<1> HIDE DEF f, y
<1>3. Len(f \o <<y>>) = Len(f) + 1
  BY <1>1
<1> QED
  BY <1>1, <1>2, <1>3

LEMMA NextToDo == IInv /\ Next => ToDo' < ToDo
<1> SUFFICES ASSUME IInv, Next PROVE ToDo' < ToDo
  OBVIOUS
<1> DEFINE size   == Len(data)
           depth  == Len(stack)
           depth2 == Len(stack')
           off2   == off'
<1>1. size \in Nat /\ off \in Nat /\ off <= size /\ depth \in Nat
  BY ToDoIs
<1>2. data' = data /\ verdict = Reading
  BY DEF Next, OpenSequence, ReadOne, Raise, CloseSequence, Return, IsCalling
<1>3. /\ ToDo = 2 * (size - off) + depth + 1
      /\ ToDo' = 2 * (size - off2) + depth2 + (IF verdict' = Reading THEN 1 ELSE 0)
  BY <1>2 DEF ToDo
<1>4. CASE OpenSequence
  <2>1. depth2 = depth + 1
    <3>1. stack \in Seq(Call)
      BY TopIs
    <3> QED
      BY <1>4, <3>1, AppendProperties DEF OpenSequence
  <2>2. off2 \in Nat /\ off2 > off
    <3>1. Element # None
      BY <1>4 DEF OpenSequence, OpensSequence
    <3>2. PICK tag \in Octet, start \in Nat, end \in Nat :
            /\ Element = [tag |-> tag, start |-> start, end |-> end]
            /\ start <= end /\ end <= Top.end
            /\ start = off + Len(Opening(tag, end - start))
            /\ At(data, off, Opening(tag, end - start))
      BY <3>1, ElementIs
    <3> DEFINE w == Len(Opening(tag, end - start))
    <3>3. w \in Nat /\ w > 1
      <4>1. end - start \in Nat
        BY <3>2
      <4> QED
        BY <4>1, OpeningIs
    <3> HIDE DEF w
    <3>4. off2 = start /\ start = off + w
      BY <1>4, <3>2 DEF OpenSequence, w
    <3> QED
      BY <1>1, <3>3, <3>4
  <2>3. verdict' = Reading
    BY <1>2, <1>4 DEF OpenSequence
  <2> HIDE DEF size, depth, depth2, off2
  <2> QED
    BY <1>1, <1>3, <2>1, <2>2, <2>3
<1>5. CASE ReadOne
  <2>1. depth2 = depth /\ off2 = Element.end
    <3>1. stack \in Seq(Call) /\ Len(stack) > 0 /\ Scalar # None
      BY <1>5, TopIs DEF ReadOne
    <3> QED
      BY <1>5, <3>1, WithItemLength DEF ReadOne
  <2>2. off2 \in Nat /\ off2 > off
    <3> DEFINE e == Len(Encode[Room(Len(stack))][Scalar])
               d == Room(Len(stack))
    <3>1. /\ Scalar # None /\ Element.end \in Nat /\ off + e = Element.end
          /\ Len(stack) <= MaxDepth /\ Scalar \in ValuesTo(d)
      BY <1>5, ReadOneIs DEF ReadOne
    <3>2. d \in Nat
      BY <3>1, TopIs, RoomIs
    <3>3. e \in Nat /\ e > 0
      BY <3>1, <3>2, EncodingIs
    <3> HIDE DEF e
    <3> QED
      BY <1>1, <2>1, <3>1, <3>3
  <2>3. verdict' = Reading
    BY <1>2, <1>5 DEF ReadOne
  <2> HIDE DEF size, depth, depth2, off2
  <2> QED
    BY <1>1, <1>3, <2>1, <2>2, <2>3
<1>6. CASE CloseSequence
  <2>1. depth2 = depth - 1
    <3>1. /\ stack \in Seq(Call) /\ Len(stack) > 1
          /\ stack' = WithItem(Front(stack), [kind |-> "seq", of |-> Top.items])
      BY <1>6, TopIs DEF CloseSequence
    <3>2. /\ Front(stack) \in Seq(Call) /\ Len(Front(stack)) = depth - 1
          /\ Len(Front(stack)) > 0
      <4>1. Front(stack) \in Seq(Call) /\ Len(Front(stack)) = depth - 1 /\ depth \in Nat
        BY <3>1, TopIs, FrontLength
      <4> HIDE DEF depth
      <4>2. depth > 1
        BY <3>1 DEF depth
      <4> QED
        BY <4>1, <4>2
    <3> QED
      BY <3>1, <3>2, WithItemLength
  <2>2. off2 = off /\ verdict' = Reading
    BY <1>2, <1>6, CloseSequenceIs DEF CloseSequence
  <2> HIDE DEF size, depth, depth2, off2
  <2> QED
    BY <1>1, <1>3, <2>1, <2>2
<1>7. CASE Raise \/ Return
  <2>1. depth2 = depth /\ off2 = off
    BY <1>7 DEF Raise, Return
  <2>2. verdict' # Reading
    <3>1. Reading # Refused /\ Read(Top.items[1]) # Reading
      BY DEF Reading, Refused, Read
    <3> QED
      BY <1>7, <3>1 DEF Raise, Return
  <2> HIDE DEF size, depth, depth2, off2
  <2> QED
    BY <1>1, <1>3, <2>1, <2>2
<1> QED
  BY <1>4, <1>5, <1>6, <1>7 DEF Next

(* Every step of parse_der leaves less to do: whatever the octets, no loop over *)
(* a SEQUENCE stands still, and a read takes at most two steps an octet and two *)
(* more (verify_vectors.py:94).                                                 *)
THEOREM EveryStepLeavesLess == Spec => [](ToDo \in Nat) /\ [][ToDo' < ToDo]_vars
<1>1. IInv => ToDo \in Nat
  BY ToDoIs
<1>2. IInv /\ [Next]_vars => [ToDo' < ToDo]_vars
  BY NextToDo
<1> QED
  BY <1>1, <1>2, ReadAsSpelled, PTL DEF Spec
=============================================================================
