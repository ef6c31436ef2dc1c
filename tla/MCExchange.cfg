\* Every kind of structure, two wires at a time, every producer.
SPECIFICATION Spec
CONSTANTS
  MinInt <- MCMinInt
  MaxInt = 12
  PrevStateRootLen = 1
  GenesisDigestLen = 1
  DigestLen = 1
  LeafPubKeyLen = 1
  SignatureLen = 1
  RequestIDLen = 1
  NonceLen = 1
  SpiffeScheme <- SchemeOctets
  SpiffeNode <- NodeOctets
  WireOf <- MCWireOf
  Crashes <- MCCrashes
  Length <- MCLength
  PythonCeiling = 101
  GoCeiling = 100
  Values <- MCValues
  Foreign <- MCForeign
  Travelling <- Kinds
  MaxNet = 2
INVARIANTS
  TypeOK
  AcceptedIsEmission
  EmissionIsAccepted
  OneSpelling
  EntriesAreDistinct
  IdentityNamesOneNode
  NewerIsRefused
  Agreement
