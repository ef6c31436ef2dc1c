\* parse_der returns, so a behaviour ends.
SPECIFICATION Spec
CONSTANTS
  Base = 16
  TAG_BOOLEAN = 1
  TAG_INTEGER = 2
  TAG_OCTET_STRING = 4
  TAG_SEQUENCE = 3
  MAX_LENGTH_OCTETS = 2
  MaxDepth = 3
  Inputs <- MCInputs
  Values <- MCValues
INVARIANT InsideContainers
PROPERTY Terminates AnswerKept
CHECK_DEADLOCK FALSE
