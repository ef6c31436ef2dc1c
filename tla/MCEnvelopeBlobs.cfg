\* Attestations, requests and opaque data in two clusters and a misconfigured one.
SPECIFICATION Spec
CONSTANTS
  MinInt <- MCMinInt
  MaxInt = 5
  PrevStateRootLen = 1
  GenesisDigestLen = 1
  DigestLen = 1
  LeafPubKeyLen = 1
  SignatureLen = 5
  RequestIDLen = 1
  NonceLen = 1
  SpiffeScheme <- SchemeOctets
  SpiffeNode <- NodeOctets
  WireOf <- MCWireOf
  SignatureOf <- MCSignatureOf
  Garbled <- MCGarbled
  Clusters <- BlobClusters
  Nodes <- TwoNodes
  Clients <- OneClient
  Texts <- BlobTexts
  Threshold = 2
  MaxSigned = 2
  MaxEntries = 0
INVARIANTS
  TypeOK
  BelievedWasSaid
