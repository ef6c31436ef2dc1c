\* A Header whose PrevSeq does not fit 64 bits, in front of both implementations.
SPECIFICATION Spec
CONSTANTS
  MinInt <- MCMinInt
  MaxInt = 12
  PrevStateRootLen = 1
  GenesisDigestLen = 1
  DigestLen = 1
  LeafPubKeyLen = 1
  SignatureLen = 1
  RequestIDLen = 1
  NonceLen = 1
  SpiffeScheme <- SchemeOctets
  SpiffeNode <- NodeOctets
  WireOf <- MCWireOf
  Crashes <- MCCrashes
  Length <- MCLength
  PythonCeiling = 101
  GoCeiling = 100
  Values <- MCValues
  Foreign <- MCForeign
  Travelling <- HeaderOnly
  MaxNet = 1
INVARIANT SameInputs
