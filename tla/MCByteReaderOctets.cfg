\* Real octets and tags; parse_der returns, so a behaviour ends.
SPECIFICATION Spec
CONSTANTS
  Base = 256
  TAG_BOOLEAN = 1
  TAG_INTEGER = 2
  TAG_OCTET_STRING = 4
  TAG_SEQUENCE = 48
  MAX_LENGTH_OCTETS = 4
  MaxDepth = 3
  Inputs <- RealInputs
  Values <- RealValues
PROPERTY AnswerKept
CHECK_DEADLOCK FALSE
