\* Calls through variables.
SPECIFICATION Spec
CONSTANTS
  Files = {"a.go", "b.go"}
  Lines <- ValueLines
  Packages <- MCPackages
  bannedCalls <- MCBanned
  hashPkgs <- MCHashPkgs
  Patterns = {"."}
  Compiles <- MCCompiles
  MatchesPath <- MCMatchesPath
  MaxLines = 3
INVARIANT MethodValuesFollowed
