----------------------------- MODULE MerkleProofs -----------------------------
(***************************************************************************)
(* Digests name nodes one to one, for every tree, depth, key, value and    *)
(* child, and whatever the widths: from the layouts being injective.       *)
(***************************************************************************)
EXTENDS Merkle, SequenceTheorems, TLAPS

(* Sequences joined from parts of which the first are equally long are *)
(* equal only if their parts are.                                      *)
LEMMA Split ==
  ASSUME NEW a \in Seq(Int), NEW b \in Seq(Int), NEW c \in Seq(Int), NEW d \in Seq(Int),
         Len(a) = Len(c), a \o b = c \o d
  PROVE  a = c /\ b = d
<1>1. Len(b) = Len(d)
  BY ConcatProperties, LenProperties
<1>2. \A i \in 1 .. Len(a) : a[i] = c[i]
  <2>1. ASSUME NEW i \in 1 .. Len(a) PROVE a[i] = c[i]
    <3>1. (a \o b)[i] = a[i] /\ (c \o d)[i] = c[i]
      BY ConcatProperties, LenProperties
    <3>. QED BY <3>1
  <2>. QED BY <2>1
<1>3. \A i \in 1 .. Len(b) : b[i] = d[i]
  <2>1. ASSUME NEW i \in 1 .. Len(b) PROVE b[i] = d[i]
    <3>. DEFINE j == Len(a) + i
    <3>1. Len(a) \in Nat /\ Len(b) \in Nat
      BY LenProperties
    <3>2. j \in 1 .. Len(a) + Len(b) /\ ~(j <= Len(a)) /\ j - Len(a) = i
      BY <3>1
    <3>. HIDE DEF j
    <3>3. (a \o b)[j] = b[i]
      BY <3>2, ConcatProperties, Zenon
    <3>4. j \in 1 .. Len(c) + Len(d) /\ ~(j <= Len(c)) /\ j - Len(c) = i
      BY <1>1, <3>2
    <3>5. (c \o d)[j] = d[i]
      BY <3>4, ConcatProperties, Zenon
    <3>. QED BY <3>3, <3>5
  <2>. QED BY <2>1
<1>. QED BY <1>1, <1>2, <1>3, SeqEqual

LEMMA Regroup ==
  \A a, b, c \in Seq(Int) : (a \o b) \o c = a \o (b \o c)
<1>. SUFFICES ASSUME NEW a \in Seq(Int), NEW b \in Seq(Int), NEW c \in Seq(Int)
              PROVE  (a \o b) \o c = a \o (b \o c)
  OBVIOUS
<1>. QED BY ConcatAssociative

(* Words have one width and stand for one number each. *)
LEMMA Words ==
  ASSUME NEW m \in Uint64
  PROVE  /\ PutUint64(m) \in Seq(Int) /\ Len(PutUint64(m)) = Len(PutUint64(0))
         /\ \A n \in Uint64 : PutUint64(m) = PutUint64(n) => m = n
<1>1. PutUint64(m) \in Seq(Byte)
  BY MerkleAssumption
<1>2. Byte \subseteq Int
  BY DEF Byte
<1>. QED BY <1>1, <1>2, SeqMonotonic, MerkleAssumption

(* The parts of a node, for each form. *)
LEMMA NodeParts ==
  ASSUME NEW n \in Nodes
  PROVE  /\ n.form \in {"leaf", "internal", "empty"}
         /\ n.tree \in Uint64 /\ n.depth \in Uint8 /\ n.depth \in Int
         /\ n.form = "leaf" =>
              /\ n \in Leaves
              /\ n = [form |-> "leaf", tree |-> n.tree, depth |-> n.depth,
                      key |-> n.key, val |-> n.val]
              /\ n.key \in Seq(Int) /\ n.val \in Seq(Int)
              /\ Len(n.key) \in Uint64 /\ Len(n.val) \in Uint64
         /\ n.form = "internal" =>
              /\ n \in Internals
              /\ n = [form |-> "internal", tree |-> n.tree, depth |-> n.depth,
                      left |-> n.left, right |-> n.right]
              /\ n.left \in Seq(Int) /\ n.right \in Seq(Int)
              /\ Len(n.left) = DigestLen /\ Len(n.right) = DigestLen
         /\ n.form = "empty" =>
              n \in Empties /\ n = [form |-> "empty", tree |-> n.tree, depth |-> n.depth]
<1>1. \A q \in Seq(Byte) : q \in Seq(Int)
  <2>1. Byte \subseteq Int
    BY DEF Byte
  <2>. QED BY <2>1, SeqMonotonic
<1>2. TreeIDs \subseteq Uint64 /\ Depths \intersect Uint8 \subseteq Int
  BY MerkleAssumption DEF Uint8
<1>3. \A b \in Blobs : b \in Seq(Int) /\ Len(b) \in Uint64
  BY <1>1, MerkleAssumption
<1>4. \A c \in ChildDigests : c \in Seq(Int) /\ Len(c) = DigestLen
  BY <1>1, MerkleAssumption DEF ChildDigests
<1>5. CASE n \in Leaves
  BY <1>2, <1>3, <1>5 DEF Leaves, LeavesAt
<1>6. CASE n \in Internals
  BY <1>2, <1>4, <1>6 DEF Internals, InternalsAt
<1>7. CASE n \in Empties
  BY <1>2, <1>7 DEF Empties, EmptiesAt
<1>. QED BY <1>5, <1>6, <1>7 DEF Nodes

(* The octets bound into every node: form, tree and depth. *)
LEMMA BoundIsInjective ==
  ASSUME NEW m \in Nodes, NEW n \in Nodes, NEW p \in Int, NEW q \in Int
  PROVE  /\ Bound(p, m) \in Seq(Int) /\ Len(Bound(p, m)) = Len(Bound(q, n))
         /\ Bound(p, m) = Bound(q, n) => p = q /\ m.tree = n.tree /\ m.depth = n.depth
<1>. DEFINE W(k) == PutUint64(k)
<1>1. /\ W(m.tree) \in Seq(Int) /\ W(n.tree) \in Seq(Int)
      /\ Len(W(m.tree)) = Len(W(n.tree))
      /\ W(m.tree) = W(n.tree) => m.tree = n.tree
  BY NodeParts, Words
<1>2. m.depth \in Int /\ n.depth \in Int
  BY NodeParts
<1>. DEFINE wm == W(m.tree)
            wn == W(n.tree)
<1>. HIDE DEF W
<1>3. /\ <<p>> \in Seq(Int) /\ <<q>> \in Seq(Int) /\ Len(<<p>>) = 1 /\ Len(<<q>>) = 1
      /\ <<m.depth>> \in Seq(Int) /\ <<n.depth>> \in Seq(Int)
      /\ Len(<<m.depth>>) = 1 /\ Len(<<n.depth>>) = 1
  BY <1>2
<1>4. /\ <<p>> \o wm \in Seq(Int) /\ <<q>> \o wn \in Seq(Int)
      /\ Len(<<p>> \o wm) = 1 + Len(wm) /\ Len(<<q>> \o wn) = 1 + Len(wn)
  BY <1>1, <1>3, ConcatProperties
<1>5. Bound(p, m) = (<<p>> \o wm) \o <<m.depth>> /\ Bound(q, n) = (<<q>> \o wn) \o <<n.depth>>
  BY DEF Bound, W
<1>6. /\ (<<p>> \o wm) \o <<m.depth>> \in Seq(Int)
      /\ Len((<<p>> \o wm) \o <<m.depth>>) = Len(<<p>> \o wm) + 1
      /\ Len((<<q>> \o wn) \o <<n.depth>>) = Len(<<q>> \o wn) + 1
  BY <1>3, <1>4, ConcatProperties
<1>7. ASSUME Bound(p, m) = Bound(q, n)
      PROVE  p = q /\ m.tree = n.tree /\ m.depth = n.depth
  <2>. DEFINE hm == <<p>> \o wm
              hn == <<q>> \o wn
              um == <<m.depth>>
              un == <<n.depth>>
  <2>3. hm \in Seq(Int) /\ hn \in Seq(Int) /\ Len(hm) = Len(hn) /\ hm \o um = hn \o un
    BY <1>1, <1>4, <1>5, <1>7
  <2>4. um \in Seq(Int) /\ un \in Seq(Int)
    BY <1>3
  <2>1. hm = hn /\ um = un
    <3>. HIDE DEF hm, hn, um, un
    <3>. QED BY <2>3, <2>4, Split, Zenon
  <2>2. <<p>> = <<q>> /\ wm = wn
    BY <1>1, <1>3, <2>1, Split
  <2>. QED BY <1>1, <2>1, <2>2
<1>. QED BY <1>1, <1>4, <1>5, <1>6, <1>7

(* A component of a leaf ends where its length says. *)
LEMMA LengthPrefixes ==
  ASSUME NEW a \in Seq(Int), NEW b \in Seq(Int), NEW c \in Seq(Int), NEW d \in Seq(Int),
         Len(a) \in Uint64, Len(b) \in Uint64, Len(c) \in Uint64, Len(d) \in Uint64
  PROVE  /\ LengthPrefixed(a) \o LengthPrefixed(b) \in Seq(Int)
         /\ LengthPrefixed(a) \o LengthPrefixed(b) = LengthPrefixed(c) \o LengthPrefixed(d)
              => a = c /\ b = d
<1>. DEFINE wa == PutUint64(Len(a))
            wb == PutUint64(Len(b))
            wc == PutUint64(Len(c))
            wd == PutUint64(Len(d))
<1>1. /\ wa \in Seq(Int) /\ wb \in Seq(Int) /\ wc \in Seq(Int) /\ wd \in Seq(Int)
      /\ Len(wa) = Len(wc) /\ Len(wb) = Len(wd)
  BY Words
<1>2. wa = wc => Len(a) = Len(c)
  BY Words
<1>3. /\ LengthPrefixed(a) = wa \o a /\ LengthPrefixed(b) = wb \o b
      /\ LengthPrefixed(c) = wc \o c /\ LengthPrefixed(d) = wd \o d
  BY DEF LengthPrefixed
<1>. HIDE DEF wa, wb, wc, wd
<1>. DEFINE pb == wb \o b
            pd == wd \o d
<1>4. /\ wa \o a \in Seq(Int) /\ wc \o c \in Seq(Int) /\ pb \in Seq(Int) /\ pd \in Seq(Int)
  BY <1>1, ConcatProperties
<1>5. ASSUME pb = pd PROVE b = d
  BY <1>1, <1>5, Split, Zenon
<1>. HIDE DEF pb, pd
<1>6. (wa \o a) \o pb = wa \o (a \o pb)
  <2>1. wa \in Seq(Int) /\ a \in Seq(Int) /\ pb \in Seq(Int)
    BY <1>1, <1>4
  <2>2. \A y \in Seq(Int) : (wa \o a) \o y = wa \o (a \o y)
    BY <2>1, Regroup
  <2>. QED BY <2>1, <2>2
<1>9. (wc \o c) \o pd = wc \o (c \o pd)
  <2>1. wc \in Seq(Int) /\ c \in Seq(Int) /\ pd \in Seq(Int)
    BY <1>1, <1>4
  <2>2. \A y \in Seq(Int) : (wc \o c) \o y = wc \o (c \o y)
    BY <2>1, Regroup
  <2>. QED BY <2>1, <2>2
<1>7. a \o pb \in Seq(Int) /\ c \o pd \in Seq(Int) /\ (wa \o a) \o pb \in Seq(Int)
  BY <1>4, ConcatProperties, Zenon
<1>8. ASSUME (wa \o a) \o pb = (wc \o c) \o pd PROVE a = c /\ b = d
  <2>1. wa \o (a \o pb) = wc \o (c \o pd)
    BY <1>6, <1>8, <1>9
  <2>2. wa = wc /\ a \o pb = c \o pd
    BY <1>1, <1>7, <2>1, Split, Zenon
  <2>3. a = c /\ pb = pd
    BY <1>2, <1>4, <2>2, Split, Zenon
  <2>. QED BY <1>5, <2>3
<1>. QED BY <1>3, <1>7, <1>8 DEF pb, pd

(* Both implementations lay a node out alike. *)
LEMMA LayoutsAgree ==
  ASSUME NEW n \in Nodes
  PROVE  /\ n.form = "leaf" => merklePreimage(n) = LeafPreimage(n)
         /\ n.form = "internal" => merklePreimage(n) = InternalPreimage(n)
         /\ n.form = "empty" => merklePreimage(n) = EmptyPreimage(n)
<1>1. Bound(prefixLeaf, n) \in Seq(Int) /\ Bound(prefixInternal, n) \in Seq(Int)
  BY BoundIsInjective DEF prefixLeaf, prefixInternal
<1>2. CASE n.form = "leaf"
  <2>. DEFINE h == Bound(prefixLeaf, n)
              kw == PutUint64(Len(n.key))
              vw == PutUint64(Len(n.val))
              k == n.key
              v == n.val
  <2>1. /\ h \in Seq(Int) /\ kw \in Seq(Int) /\ vw \in Seq(Int)
        /\ k \in Seq(Int) /\ v \in Seq(Int)
    BY <1>1, <1>2, NodeParts, Words
  <2>2. /\ merklePreimage(n) = (((h \o kw) \o k) \o vw) \o v
        /\ LeafPreimage(n) = h \o ((kw \o k) \o (vw \o v))
    BY <1>2 DEF merklePreimage, LeafPreimage, LengthPrefixed, Bound, prefixLeaf
  <2>. HIDE DEF h, kw, vw, k, v
  <2>3. h \o kw \in Seq(Int) /\ kw \o k \in Seq(Int) /\ vw \o v \in Seq(Int)
    BY <2>1, ConcatProperties
  <2>4. (h \o kw) \o k = h \o (kw \o k)
    BY <2>1, Regroup, Zenon
  <2>5. h \o (kw \o k) \in Seq(Int)
    BY <2>1, <2>3, ConcatProperties
  <2>6. ((h \o (kw \o k)) \o vw) \o v = (h \o (kw \o k)) \o (vw \o v)
    BY <2>1, <2>5, Regroup, Zenon
  <2>7. (h \o (kw \o k)) \o (vw \o v) = h \o ((kw \o k) \o (vw \o v))
    <3>1. h \in Seq(Int) /\ kw \o k \in Seq(Int) /\ vw \o v \in Seq(Int)
      BY <2>1, <2>3
    <3>. QED BY <3>1, Regroup, Zenon
  <2>. QED BY <1>2, <2>2, <2>4, <2>6, <2>7
<1>3. CASE n.form = "internal"
  <2>. DEFINE h == Bound(prefixInternal, n)
  <2>1. h \in Seq(Int) /\ n.left \in Seq(Int) /\ n.right \in Seq(Int)
    BY <1>1, <1>3, NodeParts
  <2>2. /\ merklePreimage(n) = (h \o n.left) \o n.right
        /\ InternalPreimage(n) = h \o (n.left \o n.right)
    BY <1>3 DEF merklePreimage, InternalPreimage, Bound, prefixInternal
  <2>. HIDE DEF h
  <2>3. (h \o n.left) \o n.right = h \o (n.left \o n.right)
    BY <2>1, Regroup, Zenon
  <2>. QED BY <1>3, <2>2, <2>3
<1>4. CASE n.form = "empty"
  BY <1>4 DEF merklePreimage, EmptyPreimage, Bound, prefixEmpty
<1>. QED BY <1>2, <1>3, <1>4, NodeParts

(* The prefix of a form, and what follows form, tree and depth. *)
Prefix(n) == CASE n.form = "leaf"     -> prefixLeaf
               [] n.form = "internal" -> prefixInternal
               [] n.form = "empty"    -> prefixEmpty

Body(n) == CASE n.form = "leaf"     -> LengthPrefixed(n.key) \o LengthPrefixed(n.val)
             [] n.form = "internal" -> n.left \o n.right
             [] n.form = "empty"    -> <<>>

LEMMA Layout ==
  ASSUME NEW n \in Nodes
  PROVE  /\ Prefix(n) \in Int /\ Body(n) \in Seq(Int)
         /\ merklePreimage(n) = Bound(Prefix(n), n) \o Body(n)
<1>1. CASE n.form = "leaf"
  <2>1. LengthPrefixed(n.key) \o LengthPrefixed(n.val) \in Seq(Int)
    BY <1>1, NodeParts, LengthPrefixes
  <2>2. Prefix(n) = prefixLeaf /\ Body(n) = LengthPrefixed(n.key) \o LengthPrefixed(n.val)
    BY <1>1 DEF Prefix, Body
  <2>3. merklePreimage(n) = LeafPreimage(n) /\ prefixLeaf \in Int
    BY <1>1, LayoutsAgree DEF prefixLeaf
  <2>. QED BY <2>1, <2>2, <2>3 DEF LeafPreimage
<1>2. CASE n.form = "internal"
  <2>1. n.left \o n.right \in Seq(Int)
    BY <1>2, NodeParts, ConcatProperties
  <2>2. Prefix(n) = prefixInternal /\ Body(n) = n.left \o n.right
    BY <1>2 DEF Prefix, Body
  <2>3. merklePreimage(n) = InternalPreimage(n) /\ prefixInternal \in Int
    BY <1>2, LayoutsAgree DEF prefixInternal
  <2>. QED BY <2>1, <2>2, <2>3 DEF InternalPreimage
<1>3. CASE n.form = "empty"
  <2>1. Prefix(n) = prefixEmpty /\ Body(n) = <<>> /\ <<>> \in Seq(Int)
    BY <1>3 DEF Prefix, Body
  <2>2. prefixEmpty \in Int
    BY DEF prefixEmpty
  <2>3. Bound(prefixEmpty, n) \o <<>> = Bound(prefixEmpty, n)
    BY <2>2, BoundIsInjective, ConcatEmptySeq
  <2>. QED BY <1>3, <2>1, <2>2, <2>3, LayoutsAgree DEF EmptyPreimage
<1>. QED BY <1>1, <1>2, <1>3, NodeParts

(* Nodes of one preimage are one node: the layouts of merkle.go separate forms, *)
(* trees, depths and the places where a component ends.                         *)
THEOREM PreimageNamesNode ==
  ASSUME NEW m \in Nodes, NEW n \in Nodes, merklePreimage(m) = merklePreimage(n)
  PROVE  m = n
<1>1. /\ Prefix(m) = Prefix(n) /\ m.tree = n.tree /\ m.depth = n.depth
      /\ Body(m) = Body(n)
  <2>. DEFINE hm == Bound(Prefix(m), m)
              hn == Bound(Prefix(n), n)
  <2>1. /\ hm \in Seq(Int) /\ hn \in Seq(Int) /\ Len(hm) = Len(hn)
        /\ hm = hn => Prefix(m) = Prefix(n) /\ m.tree = n.tree /\ m.depth = n.depth
    BY Layout, BoundIsInjective
  <2>2. hm \o Body(m) = hn \o Body(n) /\ Body(m) \in Seq(Int) /\ Body(n) \in Seq(Int)
    BY Layout
  <2>. HIDE DEF hm, hn
  <2>3. hm = hn /\ Body(m) = Body(n)
    BY <2>1, <2>2, Split
  <2>. QED BY <2>1, <2>3
<1>2. m.form = n.form
  BY <1>1, NodeParts DEF Prefix, prefixLeaf, prefixInternal, prefixEmpty
<1>3. CASE m.form = "leaf"
  <2>1. LengthPrefixed(m.key) \o LengthPrefixed(m.val) =
        LengthPrefixed(n.key) \o LengthPrefixed(n.val)
    BY <1>1, <1>2, <1>3 DEF Body
  <2>2. /\ m.key \in Seq(Int) /\ m.val \in Seq(Int)
        /\ n.key \in Seq(Int) /\ n.val \in Seq(Int)
        /\ Len(m.key) \in Uint64 /\ Len(m.val) \in Uint64
        /\ Len(n.key) \in Uint64 /\ Len(n.val) \in Uint64
    BY <1>2, <1>3, NodeParts
  <2>3. m.key = n.key /\ m.val = n.val
    <3>. DEFINE a == m.key
                b == m.val
                c == n.key
                d == n.val
    <3>1. /\ a \in Seq(Int) /\ b \in Seq(Int) /\ c \in Seq(Int) /\ d \in Seq(Int)
          /\ Len(a) \in Uint64 /\ Len(b) \in Uint64 /\ Len(c) \in Uint64 /\ Len(d) \in Uint64
          /\ LengthPrefixed(a) \o LengthPrefixed(b) = LengthPrefixed(c) \o LengthPrefixed(d)
      BY <2>1, <2>2
    <3>. HIDE DEF a, b, c, d
    <3>2. a = c /\ b = d
      BY <3>1, LengthPrefixes
    <3>. QED BY <3>2 DEF a, b, c, d
  <2>. QED BY <1>1, <1>2, <1>3, <2>3, NodeParts
<1>4. CASE m.form = "internal"
  <2>1. m.left \o m.right = n.left \o n.right
    BY <1>1, <1>2, <1>4 DEF Body
  <2>2. /\ m.left \in Seq(Int) /\ m.right \in Seq(Int) /\ Len(m.left) = Len(n.left)
        /\ n.left \in Seq(Int) /\ n.right \in Seq(Int)
    BY <1>2, <1>4, NodeParts
  <2>3. m.left = n.left /\ m.right = n.right
    BY <2>1, <2>2, Split, Zenon
  <2>. QED BY <1>1, <1>2, <1>4, <2>3, NodeParts
<1>5. CASE m.form = "empty"
  BY <1>1, <1>2, <1>5, NodeParts
<1>. QED BY <1>3, <1>4, <1>5, NodeParts

-----------------------------------------------------------------------------
(* What SHA-256 answered differs where the preimages do, and every name given *)
(* is its answer to the node's preimage.                                      *)
Answers == \A p, q \in DOMAIN sha : sha[p] = sha[q] => p = q

Named(r) == /\ r.node \in Nodes /\ r.name \in Digests
            /\ r = [node |-> r.node, name |-> r.name]
            /\ merklePreimage(r.node) \in DOMAIN sha
            /\ sha[merklePreimage(r.node)] = r.name

IInv == Answers /\ \A r \in hashed : Named(r)

(* Whoever calls, a node is hashed, by the one layout it has. *)
LEMMA StepHashes ==
  ASSUME Next
  PROVE  \E n \in Nodes : Hash(n, merklePreimage(n))
<1>1. \A n \in Leaves : n \in Nodes /\ n.form = "leaf"
  BY DEF Nodes, Leaves, LeavesAt
<1>2. \A n \in Internals : n \in Nodes /\ n.form = "internal"
  BY DEF Nodes, Internals, InternalsAt
<1>3. \A n \in Empties : n \in Nodes /\ n.form = "empty"
  BY DEF Nodes, Empties, EmptiesAt
<1>4. CASE LeafHash
  BY <1>1, <1>4, LayoutsAgree DEF LeafHash
<1>5. CASE InternalHash
  BY <1>2, <1>5, LayoutsAgree DEF InternalHash
<1>6. CASE EmptyHash
  BY <1>3, <1>6, LayoutsAgree DEF EmptyHash
<1>7. CASE merkle_hash
  <2>1. PICK e \in Entries : isNode(e) /\ Hash(e, merklePreimage(e))
    BY <1>7 DEF merkle_hash
  <2>2. e \in LeavesAt(Depths) => e \in Leaves
    BY <2>1 DEF isNode, LeavesAt, Leaves
  <2>3. e \in EmptiesAt(Depths) => e \in Empties
    BY <2>1 DEF isNode, EmptiesAt, Empties
  <2>4. ASSUME e \in InternalsAt(Depths, Children) PROVE e \in Internals
    <3>1. /\ e \in [form : {"internal"}, tree : TreeIDs, depth : Depths,
                    left : Children, right : Children]
          /\ e.form = "internal"
      BY <2>4 DEF InternalsAt
    <3>2. e.left \in ChildDigests /\ e.right \in ChildDigests /\ e.depth \in Uint8
      BY <2>1, <3>1 DEF isNode, ChildDigests
    <3>. QED BY <3>1, <3>2 DEF Internals, InternalsAt
  <2>5. e \in Nodes
    BY <2>1, <2>2, <2>3, <2>4 DEF Entries, Nodes
  <2>. QED BY <2>1, <2>5
<1>. QED BY <1>4, <1>5, <1>6, <1>7 DEF Next

(* A call that returned: what SHA-256 answered, and what is new. *)
LEMMA SumKeeps ==
  ASSUME Answers, NEW p, NEW d, Sum(p, d)
  PROVE  /\ Answers'
         /\ p \in DOMAIN sha' /\ sha'[p] = d
         /\ \A q \in DOMAIN sha : q \in DOMAIN sha' /\ sha'[q] = sha[q]
         /\ \A q \in DOMAIN sha : sha[q] = d => q = p
<1>1. CASE p \in DOMAIN sha /\ d = sha[p] /\ UNCHANGED sha
  BY <1>1 DEF Answers
<1>2. CASE /\ p \notin DOMAIN sha
           /\ \A q \in DOMAIN sha : sha[q] # d
           /\ sha' = [q \in DOMAIN sha \union {p} |-> IF q = p THEN d ELSE sha[q]]
  <2>1. DOMAIN sha' = DOMAIN sha \union {p}
    BY <1>2
  <2>2. sha'[p] = d /\ \A q \in DOMAIN sha : sha'[q] = sha[q]
    BY <1>2
  <2>3. Answers'
    BY <1>2, <2>1, <2>2 DEF Answers
  <2>. QED BY <1>2, <2>1, <2>2, <2>3
<1>. QED BY <1>1, <1>2 DEF Sum

LEMMA InvInit == Init => IInv
BY DEF Init, IInv, Answers

LEMMA InvStep == IInv /\ [Next]_vars => IInv'
<1>. SUFFICES ASSUME IInv, [Next]_vars PROVE IInv'
  OBVIOUS
<1>1. CASE UNCHANGED vars
  BY <1>1 DEF IInv, Answers, Named, vars
<1>2. CASE Next
  <2>1. PICK n \in Nodes : Hash(n, merklePreimage(n))
    BY <1>2, StepHashes
  <2>. DEFINE p == merklePreimage(n)
  <2>2. PICK d \in Digests : /\ Sum(p, d)
                             /\ hashed' = hashed \union {[node |-> n, name |-> d]}
    BY <2>1 DEF Hash
  <2>3. /\ Answers' /\ p \in DOMAIN sha' /\ sha'[p] = d
        /\ \A q \in DOMAIN sha : q \in DOMAIN sha' /\ sha'[q] = sha[q]
    BY <2>2, SumKeeps DEF IInv
  <2>4. ASSUME NEW r \in hashed' PROVE Named(r)'
    <3>1. CASE r \in hashed
      BY <2>3, <3>1 DEF IInv, Named
    <3>2. CASE r = [node |-> n, name |-> d]
      BY <2>2, <2>3, <3>2 DEF Named
    <3>. QED BY <2>2, <2>4, <3>1, <3>2
  <2>. QED BY <2>3, <2>4 DEF IInv
<1>. QED BY <1>1, <1>2

THEOREM AlwaysNamed == Spec => []IInv
BY InvInit, InvStep, PTL DEF Spec

(* A digest is of one node. *)
THEOREM OneNodePerDigestAlways == Spec => []OneNodePerDigest
<1>1. IInv => OneNodePerDigest
  BY PreimageNamesNode DEF IInv, Answers, Named, OneNodePerDigest
<1>. QED BY <1>1, AlwaysNamed, PTL

(* A node has one digest, in Go and in Python. *)
THEOREM OneDigestPerNodeAlways == Spec => []OneDigestPerNode
<1>1. IInv => OneDigestPerNode
  BY DEF IInv, Named, OneDigestPerNode
<1>. QED BY <1>1, AlwaysNamed, PTL

(* Hashing nodes is giving them names: every step gives a node that had no *)
(* name a name that was nobody's, or changes nothing.                      *)
THEOREM NamingIsKept == Spec => NamingKept
<1>1. Init => Naming!Init
  BY DEF Init, Naming!Init
<1>2. IInv /\ [Next]_vars => [Naming!Next]_hashed
  <2>. SUFFICES ASSUME IInv, Next PROVE Naming!Next \/ UNCHANGED hashed
    BY DEF vars
  <2>1. PICK n \in Nodes : Hash(n, merklePreimage(n))
    BY StepHashes
  <2>2. PICK d \in Digests : /\ Sum(merklePreimage(n), d)
                             /\ hashed' = hashed \union {[node |-> n, name |-> d]}
    BY <2>1 DEF Hash
  <2>. DEFINE r == [node |-> n, name |-> d]
  <2>3. CASE r \in hashed
    BY <2>2, <2>3
  <2>4. CASE r \notin hashed
    <3>1. /\ \A q \in DOMAIN sha : sha[q] = d => q = merklePreimage(n)
          /\ sha'[merklePreimage(n)] = d
          /\ \A q \in DOMAIN sha : sha'[q] = sha[q]
      BY <2>2, SumKeeps DEF IInv
    <3>2. ASSUME NEW s \in hashed PROVE s.node # n /\ s.name # d
      <4>1. Named(s)
        BY DEF IInv
      <4>2. s.name = d => s.node = n
        BY <3>1, <4>1, PreimageNamesNode DEF Named
      <4>3. s.node = n => s.name = d
        BY <3>1, <4>1 DEF Named
      <4>4. s.node = n /\ s.name = d => s = r
        BY <4>1 DEF Named
      <4>. QED BY <2>4, <4>2, <4>3, <4>4
    <3>3. Naming!Give(r)
      BY <2>2, <3>2 DEF Naming!Give
    <3>4. r \in hashed'
      BY <2>2
    <3>. QED BY <3>3, <3>4 DEF Naming!Next
  <2>. QED BY <2>3, <2>4
<1>. QED BY <1>1, <1>2, AlwaysNamed, PTL DEF Spec, NamingKept, Naming!Spec
=============================================================================
