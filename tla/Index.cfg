SPECIFICATION MCSpec
CONSTANTS
  NoVersion = NoVersion
  NoRange = NoRange
  NoKind = NoKind
  Unreadable = Unreadable
  NoRecord = NoRecord
  Locations = {"a", "b", "c"}
  Directories <- MCDirectories
  Children <- MCChildren
  Identities = {"kit.k", "template.t", "nobody"}
  KindOf <- MCKindOf
INVARIANTS
  IndexTypeOK
  FirstClaimKept
  AmbiguousIffClaimedTwice
  SelectsHighest
  PrecedenceIsSemVer
CHECK_DEADLOCK FALSE
