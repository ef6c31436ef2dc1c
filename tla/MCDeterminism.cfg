\* Packages of two files, edited in any order.
SPECIFICATION Spec
CONSTANTS
  Files = {"a.go", "b.go"}
  Lines <- MCLines
  Packages <- MCPackages
  bannedCalls <- MCBanned
  hashPkgs <- MCHashPkgs
  Patterns = {".", "det", "("}
  Compiles <- MCCompiles
  MatchesPath <- MCMatchesPath
  MaxLines = 3
INVARIANT ReportIsExact
PROPERTY ReasonsAreLocal OneReasonAnswersOne
