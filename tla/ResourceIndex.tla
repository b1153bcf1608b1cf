--------------------------- MODULE ResourceIndex ----------------------------
(***************************************************************************)
(* ResourceService::build_index: the roots are scanned in the order given, *)
(* and each candidate is opened and inserted in discovery order.  The      *)
(* first claim of an identity at a version is kept; each later one is      *)
(* remembered as a conflict.                                               *)
(***************************************************************************)
EXTENDS Resources

CONSTANTS
  Directories, \* the other directories: roots and what groups resources in them
  Children     \* what each directory holds, in sorted order

ASSUME TreeAssumption ==
  /\ Locations \cap Directories = {}
  /\ Children \in [Directories -> Seq(Locations \cup Directories)]

VARIABLES
  file,       \* what is at each location
  roots,      \* the roots still to be scanned
  present,    \* the directories that exist
  strict,     \* EngineConfig::strict_roots
  candidates, \* the locations found, in discovery order
  next,       \* the first candidate not yet looked at
  records,    \* ResourceIndex::records_
  conflicts,  \* ResourceIndex::conflicts_
  status      \* "scanning", "indexing", "built", "failed"

indexVars == <<file, roots, present, strict, candidates, next, records, conflicts,
               status>>

-----------------------------------------------------------------------------
(* Building it.                                                            *)

\* What collect() finds below a directory: a resource is not looked into, any
\* other directory is.
Collected[d \in Directories] ==
  FlattenSeq([i \in DOMAIN Children[d] |->
                LET child == Children[d][i]
                IN IF child \in Locations THEN <<child>> ELSE Collected[child]])

\* Directories nest without end nowhere: the walk comes back with locations.
ASSUME CollectedAssumption == Collected \in [Directories -> Seq(Locations)]

\* A root that is not there is passed over, or fails a strict engine.
ScanRoot ==
  /\ status = "scanning" /\ roots # << >>
  /\ IF Head(roots) \in present
       THEN candidates' = candidates \o Collected[Head(roots)] /\ UNCHANGED status
       ELSE status' = (IF strict THEN "failed" ELSE status) /\ UNCHANGED candidates
  /\ roots' = Tail(roots)
  /\ UNCHANGED <<file, present, strict, next, records, conflicts>>

StartIndexing ==
  /\ status = "scanning" /\ roots = << >>
  /\ status' = "indexing"
  /\ UNCHANGED <<file, roots, present, strict, candidates, next, records, conflicts>>

\* A candidate that cannot be indexed is reported and passed over.
PassOver ==
  /\ status = "indexing" /\ next <= Len(candidates)
  /\ ~Indexable(file[candidates[next]])
  /\ next' = next + 1
  /\ UNCHANGED <<file, roots, present, strict, candidates, records, conflicts, status>>

\* A plausible bug: the last claim wins.
InsertOver(r) ==
  /\ records' = {c \in records : ~SameClaim(c, r)} \cup {r}
  /\ conflicts' = conflicts \cup {Conflict(c, r) : c \in {d \in records : SameClaim(d, r)}}

\* A plausible bug: one location found twice is taken for no conflict.
InsertOnce(r) ==
  LET clashes == {c \in records : SameClaim(c, r)}
  IN /\ records' = IF clashes = {} THEN records \cup {r} ELSE records
     /\ conflicts' = conflicts \cup {Conflict(c, r) : c \in {d \in clashes : d.at # r.at}}

\* ResourceIndex::insert: the first claim wins, a later one is a conflict.
Insert(r) ==
  LET clashes == {c \in records : SameClaim(c, r)}
  IN IF clashes = {}
       THEN records' = records \cup {r} /\ UNCHANGED conflicts
       ELSE /\ conflicts' = conflicts \cup {Conflict(c, r) : c \in clashes}
            /\ UNCHANGED records

IndexCandidate ==
  /\ status = "indexing" /\ next <= Len(candidates)
  /\ Indexable(file[candidates[next]])
  /\ Insert(RecordOf(candidates[next], file[candidates[next]]))
  /\ next' = next + 1
  /\ UNCHANGED <<file, roots, present, strict, candidates, status>>

Finish ==
  /\ status = "indexing" /\ next > Len(candidates)
  /\ status' = "built"
  /\ UNCHANGED <<file, roots, present, strict, candidates, next, records, conflicts>>

\* For any files, roots and setting of strict.
IndexInit ==
  /\ \A l \in Locations :
       file[l] # Unreadable => file[l].id \in Identities /\ file[l].version \in Token
  /\ roots \in Seq(Directories) /\ present \subseteq Directories /\ strict \in BOOLEAN
  /\ candidates = << >> /\ next = 1
  /\ records = {} /\ conflicts = {}
  /\ status = "scanning"

IndexNext == ScanRoot \/ StartIndexing \/ PassOver \/ IndexCandidate \/ Finish

IndexSpec == IndexInit /\ [][IndexNext]_indexVars

-----------------------------------------------------------------------------
(* Properties.                                                             *)

Seen == SubSeq(candidates, 1, next - 1)

\* Type: every record comes from a candidate that was looked at, its kind is
\* the one its identity names and its version is a version; conflicts name
\* locations.
IndexTypeOK ==
  /\ candidates \in Seq(Locations)
  /\ next \in 1..(Len(candidates) + 1)
  /\ status \in {"scanning", "indexing", "built", "failed"}
  /\ \A r \in records : /\ r.at \in Locations
                         /\ r = RecordOf(r.at, file[r.at])
                         /\ KindOf[r.id] = r.kind /\ r.version \in Version
  /\ \A c \in conflicts : c.kept \in Locations /\ c.discarded \in Locations

\* The index holds, of the claims to one identity at one version, the first in
\* discovery order and no other, and names every later one beside it as a
\* conflict (resource.hpp: "The first wins; the loser is remembered").
FirstClaimKept ==
  /\ records = RecordsOf(Seen, file)
  /\ conflicts = ConflictsOf(Seen, file)

\* Resolution refuses an identity exactly when two candidates claimed one of its
\* versions, whichever root each was found in, and in whichever order: also when
\* both are one resource reached through two roots.
AmbiguousIffClaimedTwice ==
  \A id \in Identities :
    Ambiguous(conflicts, id) <=>
      \E i, j \in ClaimPositions(Seen, file) :
        /\ i # j /\ Claim(Seen, file, i).id = id
        /\ SameClaim(Claim(Seen, file, i), Claim(Seen, file, j))
=============================================================================
