-------------------------------- MODULE Merkle --------------------------------
(***************************************************************************)
(* Merkle node hashing: merkle.go and merkle_hash of ci/verify_vectors.py. *)
(*                                                                         *)
(* Callers hash leaves, inner nodes and empty subtrees of any tree, at any *)
(* depth; the children of an inner node are whatever octets they hold or   *)
(* make up.  SHA-256 is taken as ideal: it answers a preimage it has not   *)
(* seen with a digest it has not given, and one it has seen as it did.     *)
(* What is left to go wrong is that two nodes have one preimage, or that   *)
(* one node has two: one in Go and another in Python.                      *)
(***************************************************************************)
EXTENDS Integers, Sequences, FiniteSets

CONSTANTS MaxUint8, MaxUint64,
          PutUint64(_),  \* binary.BigEndian.PutUint64, and to_bytes(8, "big")
          DigestLen,     \* octets of a SHA-256 digest
          Digests,       \* the digests SHA-256 may answer with
          TreeIDs,       \* the trees hashed
          Depths,        \* the depths that producers have, too deep ones included
          Blobs,         \* the keys and values hashed
          Children,      \* the octet strings given as children, of any width
          MaxHashed      \* bound: how many preimages are hashed

Byte   == 0 .. 255
Uint8  == 0 .. MaxUint8
Uint64 == 0 .. MaxUint64

(* PutUint64 fills eight octets, differently for different numbers. *)
ASSUME MerkleAssumption ==
  /\ MaxUint8 \in Nat /\ MaxUint64 \in Nat /\ DigestLen \in Nat
  /\ \A m \in Uint64 : PutUint64(m) \in Seq(Byte) /\ Len(PutUint64(m)) = Len(PutUint64(0))
  /\ \A m, n \in Uint64 : PutUint64(m) = PutUint64(n) => m = n
  /\ TreeIDs \subseteq Uint64 /\ Depths \subseteq Nat
  /\ Children \subseteq Seq(Byte)
  /\ \A b \in Blobs : b \in Seq(Byte) /\ Len(b) \in Uint64

VARIABLES sha,      \* the answers of SHA-256, a function from preimages to digests
          hashed    \* history: [node, name] of each call that returned a digest

vars == <<sha, hashed>>

(* The nodes callers may ask about: in the annex, deep ones and children of *)
(* any width too.  The argument types of merkle.go admit NodesAt(Uint8, ..).*)
LeavesAt(D)       == [form : {"leaf"}, tree : TreeIDs, depth : D, key : Blobs, val : Blobs]
InternalsAt(D, C) == [form : {"internal"}, tree : TreeIDs, depth : D, left : C, right : C]
EmptiesAt(D)      == [form : {"empty"}, tree : TreeIDs, depth : D]

Entries      == LeavesAt(Depths) \union InternalsAt(Depths, Children) \union EmptiesAt(Depths)
ChildDigests == {c \in Children : Len(c) = DigestLen}
Leaves       == LeavesAt(Depths \intersect Uint8)
Internals    == InternalsAt(Depths \intersect Uint8, ChildDigests)
Empties      == EmptiesAt(Depths \intersect Uint8)
Nodes        == Leaves \union Internals \union Empties

-----------------------------------------------------------------------------
prefixLeaf     == 0
prefixInternal == 1
prefixEmpty    == 2

Bound(prefix, n) == <<prefix>> \o PutUint64(n.tree) \o <<n.depth>>

\* Mutant: key and value are concatenated without their lengths.
Unprefixed(octets) == octets

LengthPrefixed(octets) == PutUint64(Len(octets)) \o octets

LeafPreimage(n) ==
  Bound(prefixLeaf, n) \o (LengthPrefixed(n.key) \o LengthPrefixed(n.val))

InternalPreimage(n) == Bound(prefixInternal, n) \o (n.left \o n.right)

EmptyPreimage(n) == Bound(prefixEmpty, n)

\* Mutant: the length of the value goes without saying.
merklePreimageOpen(e) ==
  CASE e.form = "leaf"     -> <<0>> \o PutUint64(e.tree) \o <<e.depth>>
                                    \o PutUint64(Len(e.key)) \o e.key \o e.val
    [] e.form = "internal" -> <<1>> \o PutUint64(e.tree) \o <<e.depth>> \o e.left \o e.right
    [] OTHER               -> <<2>> \o PutUint64(e.tree) \o <<e.depth>>

(* The preimage as merkle_hash writes it. *)
merklePreimage(e) ==
  CASE e.form = "leaf"     -> <<0>> \o PutUint64(e.tree) \o <<e.depth>>
                                    \o PutUint64(Len(e.key)) \o e.key
                                    \o PutUint64(Len(e.val)) \o e.val
    [] e.form = "internal" -> <<1>> \o PutUint64(e.tree) \o <<e.depth>> \o e.left \o e.right
    [] OTHER               -> <<2>> \o PutUint64(e.tree) \o <<e.depth>>

\* Mutant: an entry of any depth is hashed.
isNodeAnyDepth(e) == e.form = "internal" => Len(e.left) = DigestLen /\ Len(e.right) = DigestLen

(* The entries merkle_hash does not raise SpecError for. *)
isNode(e) == /\ e.depth \in Uint8
             /\ e.form = "internal" => Len(e.left) = DigestLen /\ Len(e.right) = DigestLen

-----------------------------------------------------------------------------
Init == sha = <<>> /\ hashed = {}

(* SHA-256 answers d for the preimage p, seen before or not. *)
Sum(p, d) ==
  \/ p \in DOMAIN sha /\ d = sha[p] /\ UNCHANGED sha
  \/ /\ p \notin DOMAIN sha /\ Cardinality(DOMAIN sha) < MaxHashed
     /\ \A q \in DOMAIN sha : sha[q] # d
     /\ sha' = [q \in DOMAIN sha \union {p} |-> IF q = p THEN d ELSE sha[q]]

Hash(n, p) == \E d \in Digests : /\ Sum(p, d)
                                 /\ hashed' = hashed \union {[node |-> n, name |-> d]}

LeafHash     == \E n \in Leaves : Hash(n, LeafPreimage(n))
InternalHash == \E n \in Internals : Hash(n, InternalPreimage(n))
EmptyHash    == \E n \in Empties : Hash(n, EmptyPreimage(n))
merkle_hash  == \E e \in Entries : isNode(e) /\ Hash(e, merklePreimage(e))

Next == LeafHash \/ InternalHash \/ EmptyHash \/ merkle_hash

Spec == Init /\ [][Next]_vars

-----------------------------------------------------------------------------
(* A digest is of one node: no leaf, inner node or empty subtree passes for  *)
(* another, of another tree or depth, with other parts, or with the same     *)
(* octets split elsewhere (merkle.go:8, :19, :40, :52).                      *)
OneNodePerDigest == \A r, s \in hashed : r.name = s.name => r.node = s.node

(* A node has one digest, whichever implementation hashed it and when: the   *)
(* two write the layouts separately (merkle_hash and merkle.go).             *)
OneDigestPerNode == \A r, s \in hashed : r.node = s.node => r.name = s.name

(* A digest is a name: given once, to one node, and only to nodes that fit   *)
(* the layout (WIRE-SPEC 5.1: a deeper node is rejected, it does not wrap).  *)
Naming == INSTANCE NodeNames WITH Node <- Nodes, Name <- Digests, named <- hashed

NamingKept == Naming!Spec
=============================================================================
