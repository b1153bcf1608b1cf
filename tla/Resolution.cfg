SPECIFICATION MCSpec
CONSTANTS
  NoVersion = NoVersion
  NoRange = NoRange
  NoKind = NoKind
  Unreadable = Unreadable
  NoRecord = NoRecord
  NoName = NoName
  Absent = Absent
  Malformed = Malformed
  Nothing = Nothing
  Locations <- MCLocations
  Identities <- MCIdentities
  KindOf <- MCKindOf
  Candidates <- MCCandidates
  Provided <- MCProvided
  ParameterNames <- MCNames
  Manifests <- MCManifests
  Replacements <- MCReplacements
  References <- MCReferences
  Requests <- MCRequests
  Enquiries <- MCEnquiries
  MaxRequests = 2
  MaxEdits = 2
INVARIANTS
  TypeOK
  PlanAndGenerateAgree
  DefaultsReach
PROPERTIES
  VerdictExact
CHECK_DEADLOCK FALSE
