\* Calls added beside answered ones.
SPECIFICATION Spec
CONSTANTS
  Files = {"a.go", "b.go"}
  Lines <- StaleLines
  Packages <- MCPackages
  bannedCalls <- MCBanned
  hashPkgs <- MCHashPkgs
  Patterns = {"."}
  Compiles <- MCCompiles
  MatchesPath <- MCMatchesPath
  MaxLines = 3
PROPERTY JustificationNotSkipped
