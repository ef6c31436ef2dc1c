\* Any two preimages, of any nodes of two trees.
SPECIFICATION Spec
CONSTANTS
  MaxUint8 = 1
  MaxUint64 = 5
  PutUint64 <- MCPutUint64
  DigestLen = 2
  Digests <- MCDigests
  TreeIDs <- MCTreeIDs
  Depths <- MCDepths
  Blobs <- MCBlobs
  Children <- MCChildren
  MaxHashed = 2
INVARIANT OneNodePerDigest OneDigestPerNode
PROPERTY NamingKept
