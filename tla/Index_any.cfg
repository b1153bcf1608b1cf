SPECIFICATION MCSpec
CONSTANTS
  NoVersion = NoVersion
  NoRange = NoRange
  NoKind = NoKind
  Unreadable = Unreadable
  NoRecord = NoRecord
  Locations = {"a", "b", "c"}
  Directories <- MCDirectories
  Children <- MCChildren
  Identities = {"kit.k", "template.t", "nobody"}
  KindOf <- MCKindOf
INVARIANT PrereleaseOnlyWhenNamed
CHECK_DEADLOCK FALSE
