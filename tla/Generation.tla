----------------------------- MODULE Generation -----------------------------
(***************************************************************************)
(* From a resolved set of resources to a workspace, and what verifying the *)
(* workspace says once its author has worked in it.                        *)
(*                                                                         *)
(* ProjectService::build_plan goes over the contributions of the resolved  *)
(* set: the template, its kits, its packages.  Every payload entry claims  *)
(* a path and becomes a step of the plan, or the request is refused.  The  *)
(* steps are sorted, executed, and recorded.  workspace.verify compares    *)
(* the record with what is there later.                                    *)
(*                                                                         *)
(* Abstracted: a path an entry expands to is a path of the model, or       *)
(* Unsafe when it cannot be expanded or names nothing inside the           *)
(* workspace; the glob lists of a manifest are the sets of paths they      *)
(* match.  Executing a plan is one step here: module Transaction shows     *)
(* that it takes effect in one step or not at all.  A cartridge may list   *)
(* its entries in any order.                                               *)
(***************************************************************************)
EXTENDS PlanSteps, FiniteSets

CONSTANTS
    Requests,     \* the resolved sets the planner may be given
    Rank,         \* Rank[x]: the place of x in the order of path strings
    Expand,       \* Expand[c]: payload c with the parameters substituted
    Unsafe,       \* no path inside the workspace
    Unreadable,   \* a payload that cannot be read
    Unexpandable, \* a text that names an undefined parameter
    RecordFile,   \* the path of the metadata record
    Record,       \* the content of the metadata record
    UserContent   \* what the author writes in a file

\* The payloads of a cartridge, and the content a step may write.
Payload == Content \cup {Unreadable, Unexpandable}

\* What a manifest says of ownership, and what the engine makes of it.
Declared == {"generated", "user", "shared", "unknown"}
Owners   == {"generated", "seeded", "shared"}

ASSUME UnderAssumption ==
    \A x \in Path : IsFiniteSet(Under[x]) /\ \A y \in Under[x] : Under[y] \subseteq Under[x]
ASSUME RankAssumption ==
    /\ Rank \in [Path -> Nat]
    /\ \A x, y \in Path : Rank[x] = Rank[y] => x = y
ASSUME ExpandAssumption ==
    /\ Expand \in [Payload -> Payload]
    /\ Unexpandable \notin Content /\ Dir \notin Payload /\ None \notin Payload \cup {Dir}
    /\ Unreadable \notin Content \cup {Unexpandable}
    /\ Expand[Unexpandable] = Unexpandable
    /\ \A c \in Content : Expand[c] # Unreadable
ASSUME RecordAssumption ==
    /\ RecordFile \in Path /\ {Unsafe, None} \cap Path = {}
    /\ {Record, UserContent} \cap (Payload \cup {None, Dir}) = {}
    /\ Record # UserContent

Rules == [generated : SUBSET Path, user : SUBSET Path, shared : SUBSET Path,
          default : Declared]

Contribution ==
    [phase : {"template", "kit", "package"},
     processor : {"copy", "substitute", "other"},
     entries : SUBSET [path : Path \cup {Unsafe}, payload : Payload],
     overrides : SUBSET Path, rules : Rules]

\* A resolved set: its working directory, if it has one, and the
\* contributions, which come in the order of the phases.
ASSUME RequestAssumption ==
    \A r \in Requests :
        /\ r.working \in Path \cup {None}
        /\ r.contributions \in Seq(Contribution)
        /\ r.contributions # <<>>
        /\ r.contributions[1].phase = "template"

VARIABLES
    pc,      \* where the request is
    request, \* the resolved set
    at,      \* the contribution the planner is at
    todo,    \* the entries of it that are not yet claimed
    steps,   \* the steps emitted so far, each with its number
    plan,    \* the sorted plan
    nodes,   \* what is at the paths of the workspace
    record   \* the provenance rows of the record that was written

vars == <<pc, request, at, todo, steps, plan, nodes, record>>

-----------------------------------------------------------------------------
(* Claims.                                                                 *)

\* A plausible bug, once made: the declared word taken for an engine class.
ClassVerbatim(declared) == declared
FromManifest(declared) ==
    IF declared \in {"generated", "shared"} THEN declared ELSE "seeded"

\* Only one list should match a path.  When two do, any class wins over
\* generated, and the first found over the rest.
Classify(rules, x) ==
    IF x \in rules.user THEN FromManifest("user")
    ELSE IF x \in rules.shared THEN FromManifest("shared")
    ELSE IF x \in rules.generated THEN FromManifest("generated")
    ELSE FromManifest(rules.default)

\* The content a payload becomes.
Processed(c, payload) ==
    IF c.processor = "substitute" THEN Expand[payload] ELSE payload

Empty == [x \in Path |-> None]

FilesOf(ss) == {s \in ss : s.node # Dir}
Claimed     == {s.path : s \in FilesOf(steps)}
Directories == {s.path : s \in steps \ FilesOf(steps)}

Here == request.contributions[at]

\* A plausible bug: an override is not looked up.
ContestedByAny(e) == e.path \in Claimed
\* kit.integration_point.conflict
Contested(e) == e.path \in Claimed /\ e.path \notin Here.overrides

\* x is the working directory or lies in it.
InWorkingDirectory(r, x) == r.working = x \/ r.working \in Under[x]

\* A plausible bug: the paths below the working directory are forgotten.
TakesWorkingDirectory(e) ==
    Classify(Here.rules, e.path) = "generated" /\ e.path = request.working
\* template.ownership.invalid
TakesAuthorsFile(e) ==
    Classify(Here.rules, e.path) = "generated" /\ InWorkingDirectory(request, e.path)

\* An entry that makes the planner refuse the request.
Refusable(e) ==
    \/ e.path = Unsafe
    \/ Contested(e)
    \/ e.payload = Unreadable
    \/ Here.processor = "substitute" /\ Expand[e.payload] = Unexpandable
    \/ TakesAuthorsFile(e)

DirStep(x, phase, no) ==
    [path |-> x, node |-> Dir, phase |-> phase, ownership |-> "seeded",
     origin |-> 0, no |-> no]

FileStep(e, no) ==
    [path |-> e.path, node |-> Processed(Here, e.payload), phase |-> Here.phase,
     ownership |-> Classify(Here.rules, e.path), origin |-> at, no |-> no]

\* A plausible bug: a directory is emitted for every file in it.
EveryDirectory(x) == Under[x]
\* The directories above x that no step creates yet.
NewDirectories(x) == Under[x] \ Directories

-----------------------------------------------------------------------------
(* The order of a plan.                                                    *)

PhaseOrder == [workspace |-> 0, template |-> 1, kit |-> 2, package |-> 3]

ASSUME PhaseAssumption ==
    \A r \in Requests : \A i, j \in DOMAIN r.contributions :
        i <= j => PhaseOrder[r.contributions[i].phase] <= PhaseOrder[r.contributions[j].phase]

\* A plausible bug: a comparison that puts equal steps in reverse.
LastFirst(s) ==
    <<PhaseOrder[s.phase], IF s.node = Dir THEN 0 ELSE 1, Rank[s.path], -s.no>>

\* std::stable_sort: phase, directories first, path; then as emitted.
SortKey(s) ==
    <<PhaseOrder[s.phase], IF s.node = Dir THEN 0 ELSE 1, Rank[s.path], s.no>>

Less(key, other) ==
    \E i \in 1 .. 4 : key[i] < other[i] /\ \A j \in 1 .. i - 1 : key[j] = other[j]

Sorted(ss) ==
    [k \in 1 .. Cardinality(ss) |->
        CHOOSE s \in ss : Cardinality({o \in ss : Less(SortKey(o), SortKey(s))}) = k - 1]

\* The working directory is in the plan even when nothing is in it.
WorkingDirectoryStep ==
    IF request.working = None \/ request.working \in Directories THEN {}
    ELSE {DirStep(request.working, "workspace", 0)}

-----------------------------------------------------------------------------
(* The planner.                                                            *)

NoRequest == [working |-> None, contributions |-> <<>>]

Init ==
    /\ pc = "idle" /\ request = NoRequest
    /\ at = 1 /\ todo = {} /\ steps = {} /\ plan = <<>>
    /\ nodes = Empty /\ record = {}

Ask ==
    /\ pc = "idle"
    /\ \E r \in Requests :
          /\ request' = r
          /\ todo' = r.contributions[1].entries
    /\ pc' = "building"
    /\ UNCHANGED <<at, steps, plan, nodes, record>>

KnownProcessor == Here.processor \in {"copy", "substitute"}

Refuse == pc' = "refused" /\ UNCHANGED <<request, at, todo, steps, plan, nodes, record>>

\* capability.unsatisfied: the first thing looked at in a contribution.
RefuseContribution == pc = "building" /\ ~KnownProcessor /\ Refuse

RefuseEntry ==
    /\ pc = "building" /\ KnownProcessor
    /\ \E e \in todo : Refusable(e)
    /\ Refuse

TakeEntry ==
    /\ pc = "building" /\ KnownProcessor
    /\ \E e \in todo :
          /\ ~Refusable(e)
          /\ LET no == Cardinality(steps) + 1 IN
             steps' = steps \cup {DirStep(x, Here.phase, no) : x \in NewDirectories(e.path)}
                            \cup {FileStep(e, no)}
          /\ todo' = todo \ {e}
    /\ UNCHANGED <<pc, request, at, plan, nodes, record>>

NextContribution ==
    /\ pc = "building" /\ KnownProcessor
    /\ todo = {} /\ at < Len(request.contributions)
    /\ at' = at + 1
    /\ todo' = request.contributions[at + 1].entries
    /\ UNCHANGED <<pc, request, steps, plan, nodes, record>>

FinishPlan ==
    /\ pc = "building" /\ KnownProcessor
    /\ todo = {} /\ at = Len(request.contributions)
    /\ plan' = Sorted(steps \cup WorkingDirectoryStep)
    /\ pc' = "planned"
    /\ UNCHANGED <<request, at, todo, steps, nodes, record>>

-----------------------------------------------------------------------------
(* Executing the plan.                                                     *)

\* The record is written after the last step.
Executed == Append(plan, [path |-> RecordFile, node |-> Record])

\* What the first n steps leave in an empty directory.
TreeAfter[n \in Nat] ==
    IF n = 0 THEN Empty ELSE Put(TreeAfter[n - 1], Executed[n].path, Executed[n].node)

Executable ==
    \A n \in 1 .. Len(Executed) :
        Creatable(TreeAfter[n - 1], Executed[n].path, Executed[n].node)

Provenance ==
    {[path |-> plan[i].path, ownership |-> plan[i].ownership,
      sha256 |-> HashOf(plan, plan[i].path)] : i \in FileSteps(plan)}

Generate ==
    /\ pc = "planned"
    /\ IF Executable
       THEN /\ nodes' = TreeAfter[Len(Executed)]
            /\ record' = Provenance
            /\ pc' = "generated"
       ELSE pc' = "failed" /\ UNCHANGED <<nodes, record>>
    /\ UNCHANGED <<request, at, todo, steps, plan>>

\* The operation returned its error; the next one starts from nothing.
Dismiss ==
    /\ pc \in {"refused", "failed"}
    /\ pc' = "idle" /\ request' = NoRequest
    /\ at' = 1 /\ todo' = {} /\ steps' = {} /\ plan' = <<>>
    /\ UNCHANGED <<nodes, record>>

-----------------------------------------------------------------------------
(* The author, and workspace.verify.                                       *)

\* The author writes a file, or makes a directory.
AuthorWrites(x) ==
    /\ pc = "generated"
    /\ \E node \in {UserContent, Dir} :
          /\ Creatable(nodes, x, node)
          /\ nodes' = Put(nodes, x, node)
    /\ UNCHANGED <<pc, request, at, todo, steps, plan, record>>

\* The author removes x and everything in it.
AuthorRemoves(x) ==
    /\ pc = "generated" /\ nodes[x] # None
    /\ nodes' = [y \in Path |-> IF y = x \/ x \in Under[y] THEN None ELSE nodes[y]]
    /\ UNCHANGED <<pc, request, at, todo, steps, plan, record>>

\* The rows whose file is not there, and those whose file has another hash.
Missing == {row \in record : nodes[row.path] = None}
Changed == {row \in record : nodes[row.path] \notin {None, row.sha256}}

\* A plausible bug: an edit of any file is a conflict.
AnyChanged == Changed
Modified == {row \in Changed : row.ownership = "generated"}

\* The record can be read, and so can every recorded file that is there:
\* reading a directory is no error that read_file reports.
Verifiable ==
    /\ pc = "generated" /\ nodes[RecordFile] = Record
    /\ \A row \in record : nodes[row.path] # Dir

PathsOf(rows) == {row.path : row \in rows}

-----------------------------------------------------------------------------
Next ==
    \/ Ask \/ RefuseContribution \/ RefuseEntry \/ TakeEntry \/ NextContribution
    \/ FinishPlan \/ Generate \/ Dismiss
    \/ \E x \in Path : AuthorWrites(x) \/ AuthorRemoves(x)

Spec == Init /\ [][Next]_vars
-----------------------------------------------------------------------------
(* Properties.                                                             *)

TypeOK ==
    /\ pc \in {"idle", "building", "refused", "planned", "generated", "failed"}
    /\ request \in Requests \/ pc = "idle"
    /\ at \in 1 .. Len(request.contributions) \/ pc = "idle"
    /\ pc # "idle" => todo \subseteq Here.entries
    /\ \A s \in steps :
          /\ s.path \in Path /\ s.node \in Content \cup {Unexpandable, Dir}
          /\ s.ownership \in Owners /\ s.origin \in 0 .. at
          /\ s.phase \in DOMAIN PhaseOrder /\ s.no \in 1 .. Cardinality(steps)
    /\ \A i \in DOMAIN plan : plan[i].path \in Path /\ plan[i].ownership \in Owners
    /\ nodes \in [Path -> Content \cup {Unexpandable, Record, UserContent, None, Dir}]
    /\ \A row \in record : row.ownership \in Owners

\* What the request says of a path, with no planner: the contributions that
\* have it, the entries for it.
EntriesAt(r, i, x) == {e \in r.contributions[i].entries : e.path = x}
Contributors(r, x) == {i \in 1 .. Len(r.contributions) : EntriesAt(r, i, x) # {}}
Last(is) == CHOOSE i \in is : \A j \in is : j <= i

ContentFrom(r, i, x) ==
    LET c == r.contributions[i] IN
    Processed(c, (CHOOSE e \in EntriesAt(r, i, x) : TRUE).payload)

ClassFrom(r, i, x) == Classify(r.contributions[i].rules, x)

\* Something is wrong with the request, wherever the planner may meet it: a
\* processor or payload it cannot use, a generated file among the author's,
\* or a path with two claims of which a later one is no declared override.
Defective(r) ==
    \E i \in 1 .. Len(r.contributions) :
        LET c == r.contributions[i] IN
        \/ c.processor \notin {"copy", "substitute"}
        \/ \E e \in c.entries :
              \/ e.path = Unsafe \/ e.payload = Unreadable
              \/ c.processor = "substitute" /\ Expand[e.payload] = Unexpandable
              \/ ClassFrom(r, i, e.path) = "generated" /\ InWorkingDirectory(r, e.path)
              \/ /\ e.path \notin c.overrides
                 /\ \/ \E j \in Contributors(r, e.path) : j < i
                    \/ EntriesAt(r, i, e.path) # {e}

\* A request is refused exactly when something is wrong with it, wherever it
\* is and in whatever order entries are listed (build_plan: a conflict is
\* "detected before any mutation").
RefusedIffDefective ==
    /\ pc = "refused" => Defective(request)
    /\ pc \in {"planned", "generated", "failed"} => ~Defective(request)

\* No contribution has two entries for one path.
OneEntryEach(r) ==
    \A i \in 1 .. Len(r.contributions) : \A e \in r.contributions[i].entries :
        EntriesAt(r, i, e.path) = {e}

\* The steps a request calls for, as a set: one per entry, one per directory
\* with a file in it, in the phase of the first such file, and the working
\* directory.
Wanted(r) ==
    LET Is == 1 .. Len(r.contributions)
        Files == UNION {{[phase |-> r.contributions[i].phase, path |-> e.path,
                          node |-> Processed(r.contributions[i], e.payload),
                          ownership |-> ClassFrom(r, i, e.path), origin |-> i]
                             : e \in r.contributions[i].entries} : i \in Is}
        Above == UNION {Under[f.path] : f \in Files}
        In(x) == {f \in Files : x \in Under[f.path]}
        First(x) == CHOOSE f \in In(x) : \A g \in In(x) : f.origin <= g.origin
        Directory(x, phase) == [phase |-> phase, path |-> x, node |-> Dir,
                                ownership |-> "seeded", origin |-> 0]
    IN Files \cup {Directory(x, First(x).phase) : x \in Above}
             \cup {Directory(x, "workspace") : x \in {r.working} \ (Above \cup {None})}

Unnumbered(s) == [phase |-> s.phase, path |-> s.path, node |-> s.node,
                  ownership |-> s.ownership, origin |-> s.origin]

\* Equal requests have equal plans, whatever the order entries are listed in:
\* the plan has exactly the steps the request calls for, once each, ordered by
\* phase, directories first, path, contribution (build_plan: "what makes two
\* runs over the same inputs emit the same list").
PlanIsCanonical ==
    pc = "planned" /\ OneEntryEach(request) =>
        /\ {Unnumbered(plan[i]) : i \in DOMAIN plan} = Wanted(request)
        /\ \A i, j \in DOMAIN plan : i < j =>
              Less([SortKey(plan[i]) EXCEPT ![4] = plan[i].origin],
                   [SortKey(plan[j]) EXCEPT ![4] = plan[j].origin])

\* A generated workspace is what the request asks for: at every path what the
\* last contribution with it has there, directories above those and for the
\* working directory, the record, and nothing else.
GeneratesRequest ==
    [][pc = "planned" /\ pc' = "generated" /\ OneEntryEach(request) =>
         \A x \in Path :
            LET is == Contributors(request, x)
                Used == {RecordFile, request.working} \cup
                        {y \in Path : Contributors(request, y) # {}}
            IN nodes'[x] = IF x = RecordFile THEN Record
                           ELSE IF is # {} THEN ContentFrom(request, Last(is), x)
                           ELSE IF x = request.working THEN Dir
                           ELSE IF \E y \in Used \cap Path : x \in Under[y] THEN Dir
                           ELSE None]_vars

\* Every path is written by one step, and none by the record as well.
WritesApart ==
    /\ \A i, j \in FileSteps(plan) : plan[i].path = plan[j].path => i = j
    /\ RecordFile \notin {plan[i].path : i \in FileSteps(plan)}

\* workspace.verify finds exactly the drift: missing are the files generation
\* left that are gone, modified those of the generator that have another
\* content.  Plans that write a path twice are the subject of NoFalseDrift.
DriftExact ==
    Verifiable /\ WritesApart =>
        LET Original(x) == ContentFrom(request, Last(Contributors(request, x)), x)
            Files == {x \in Path : Contributors(request, x) # {}}
        IN
        /\ PathsOf(Missing) = {x \in Files : nodes[x] = None}
        /\ PathsOf(Modified) =
              {x \in Files : /\ nodes[x] \notin {None, Original(x)}
                             /\ ClassFrom(request, Last(Contributors(request, x)), x) = "generated"}

\* No file an author edits in the working directory is ever reported as
\* modified (build_plan: "you never need to edit outside sq_app, and we never
\* overwrite what you wrote in it").  One that is deleted is reported as
\* missing, whoever's it is: ConflictsAreGenerated.
AuthorsFilesFree ==
    Verifiable => \A x \in PathsOf(Modified) : ~InWorkingDirectory(request, x)

\* Only generated files are conflicts, as the table of conflicts in 2.16 has
\* it.  workspace.verify counts every missing file as one, seeded or not.
ConflictsAreGenerated ==
    Verifiable => \A row \in Missing \cup Modified : row.ownership = "generated"

\* A workspace that was just generated has no conflict.
NoFalseDrift == [][pc = "planned" /\ pc' = "generated" => Modified' = {}]_vars

\* A plan that was accepted does not fail by its own steps.
AcceptedPlanExecutes == pc # "failed"
=============================================================================
