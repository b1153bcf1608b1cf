----------------------------- MODULE Resources ------------------------------
(***************************************************************************)
(* Resources and what an index of them answers: which manifests can be     *)
(* indexed, which of several claims to one identity and version is kept    *)
(* and which are conflicts, and how resolution reads the index             *)
(* (resource_service.cpp, ResourceIndex in error.cpp).                     *)
(*                                                                         *)
(* A location is an archive or a directory with a manifest.  What a        *)
(* manifest says beyond its envelope is not looked at here.                *)
(***************************************************************************)
EXTENDS Versions, FiniteSets, SequencesExt

CONSTANTS
  Locations,  \* where resources are: .sq files, directories with a manifest
  Identities, \* the identities a manifest may declare
  KindOf,     \* the kind an identity's first segment names, NoKind for none
  NoKind,
  Unreadable, \* a location sqcart cannot open
  NoRecord    \* select found nothing

\* The kinds this engine indexes; a cartridge is a runnable application.
ResourceKinds == {"template", "kit", "package", "asset", "plugin"}

ASSUME IdentityAssumption == KindOf \in [Identities -> ResourceKinds \cup {NoKind}]
ASSUME NoVersionAssumption == NoVersion \notin Version

\* A plausible bug: the identity is not compared with the kind.
IndexableAnyPrefix(manifest) ==
  /\ manifest # Unreadable
  /\ manifest.kind \in ResourceKinds
  /\ Parse(manifest.version) # NoVersion

\* The manifests that become records: of a kind this engine indexes, with an
\* identity of that kind and a full version.  Only a warning comes of an engine
\* requirement that is not met, and of a reserved namespace.
Indexable(manifest) ==
  /\ manifest # Unreadable
  /\ manifest.kind \in ResourceKinds
  /\ KindOf[manifest.id] = manifest.kind
  /\ Parse(manifest.version) # NoVersion

RecordOf(location, manifest) ==
  [id |-> manifest.id, kind |-> manifest.kind, version |-> Parse(manifest.version),
   at |-> location]

SameClaim(a, b) == a.id = b.id /\ Same(a.version, b.version)

\* Of a sequence of candidates, the positions that claim an identity, and those
\* among them that claim it first.
ClaimPositions(candidates, file) ==
  {i \in DOMAIN candidates : Indexable(file[candidates[i]])}

Claim(candidates, file, i) == RecordOf(candidates[i], file[candidates[i]])

FirstClaims(candidates, file) ==
  {i \in ClaimPositions(candidates, file) :
     \A j \in ClaimPositions(candidates, file) :
       SameClaim(Claim(candidates, file, j), Claim(candidates, file, i)) => i <= j}

\* What indexing the candidates in order comes to.
RecordsOf(candidates, file) ==
  {Claim(candidates, file, i) : i \in FirstClaims(candidates, file)}

Conflict(kept, discarded) ==
  [id |-> discarded.id, version |-> discarded.version,
   kept |-> kept.at, discarded |-> discarded.at]

ConflictsOf(candidates, file) ==
  {Conflict(Claim(candidates, file, p[1]), Claim(candidates, file, p[2])) :
     p \in {q \in FirstClaims(candidates, file) \X ClaimPositions(candidates, file) :
              /\ q[1] < q[2]
              /\ SameClaim(Claim(candidates, file, q[1]), Claim(candidates, file, q[2]))}}

-----------------------------------------------------------------------------
(* Reading the index.                                                      *)

\* The records of an identity, highest version first.
VersionsAmong(rs, id) ==
  LET named == {r \in rs : r.id = id}
  IN CHOOSE s \in [1..Cardinality(named) -> named] :
       \A i, j \in DOMAIN s : i < j => Less(s[j].version, s[i].version)

\* The first of the versions, highest first, that the range admits.
SelectAmong(rs, id, range) ==
  LET versions == VersionsAmong(rs, id)
      admitted == {i \in DOMAIN versions : SatisfiedBy(range, versions[i].version)}
  IN IF admitted = {} THEN NoRecord
     ELSE versions[CHOOSE i \in admitted : \A j \in admitted : i <= j]

\* Some version of the identity was claimed twice.
Ambiguous(cs, id) == \E c \in cs : c.id = id

=============================================================================
