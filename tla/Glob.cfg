CONSTANTS
  Symbol <- MCSymbol
  Blanks = {" "}
  Initials = {"x", "_"}
  Digits = {"1"}
  Patterns <- MCPatterns
  Paths <- MCPaths
  RawPaths <- MCRawPaths
  Contents <- MCContents
  Values <- MCValues
  PatternLength = 5
  LongLength = 7
  PathLength = 5
  RawLength = 5
  Chunks = 4
SPECIFICATION Spec
INVARIANT GlobAsDocumented
CHECK_DEADLOCK FALSE
