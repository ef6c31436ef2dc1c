\* Commit certificates in two clusters.
SPECIFICATION Spec
CONSTANTS
  MinInt <- MCMinInt
  MaxInt = 5
  PrevStateRootLen = 1
  GenesisDigestLen = 1
  DigestLen = 1
  LeafPubKeyLen = 1
  SignatureLen = 5
  RequestIDLen = 1
  NonceLen = 1
  SpiffeScheme <- SchemeOctets
  SpiffeNode <- NodeOctets
  WireOf <- MCWireOf
  SignatureOf <- MCSignatureOf
  Garbled <- MCGarbled
  Clusters <- TwoClusters
  Nodes <- TwoNodes
  Clients <- NoClient
  Texts <- VoteTexts
  Threshold = 2
  MaxSigned = 2
  MaxEntries = 2
INVARIANT DecidedByQuorum
PROPERTY PromiseKept
