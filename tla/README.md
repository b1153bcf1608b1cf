# Verification of squared-pg

squared-pg is an offline project generator: a C++20 engine that resolves
templates, kits and packages, plans a workspace and writes it in one
transaction; a Lua control layer that drives the engine and manages where
workspaces live; and a command-line host, `sqpg`, that joins the two. This
directory holds TLA+ models of it, the TLC configurations that check them, and
proofs that TLAPS checks. Paths below are relative to `src/`.

Contents: 1 inventory, 2 plan, 3 modules and code, 4 runs, 5 proofs, 6
disagreements with the code's own statements, 7 what is not modelled, 8 how to
run it.

## 1. Inventory

### 1.1 Components

**Transaction** (`engine/src/services/transaction_service.cpp`). Keeps no state
in memory between calls; its state is the filesystem: the output location, the
staging directory `.<name>.squared-tmp` beside it, the metadata record
`.squared/metadata.json` inside. One operation, `apply`: check that the output
location is free and in no other workspace, remove a staging directory left by
an earlier run, build the plan in a new one, write the record last, `rename` it
to the output location, `fsync`. A failure before the plan's first step returns at
once; one from the first step on goes through `abort_with`, which removes the
staging directory. Two calls can also throw, past `abort_with` and out of `apply`.
*Hard*: nothing excludes a second process, the
checks are made long before the rename they are for, any call may fail, the
process may die anywhere, the removal of a staging directory is many calls, and
the user works in the same directories. *Correct when*: what carries a record is
complete, the record says of every file what is in it, nothing of the user's is
overwritten, no workspace is inside another, every run ends.

**Filesystem service** (`filesystem_service.cpp`). Stateless wrappers over the
standard library: `create_directories`, `write_file`, `read_file`, `remove_all`,
`rename`, `exists`, `sync_path`, and the ownership classification of paths.
*Hard*: which errors each call can see (`exists` sees none, `write_file` checks
before the stream is closed, `read_file` throws on a directory), and that
`write_file` makes missing parents.

**Plan builder** (`project_service.cpp`). A pure function of a resolved set and a
configuration, with loop state: the steps, the claimed paths, the directories.
*Hard*: collisions and overrides between contributions, a sort whose stability
matters, ownership lists that overlap. *Correct when*: it refuses exactly the
requests with a conflict, equal requests give equal plans, executing a plan
gives what the last contribution for each path wants, and no generated file is
in the author's working directory.

**workspace.verify, workspace.inspect** (`engine.cpp` 554-709). Read-only.
*Correct when* verify's findings are exactly the drift since generation.

**Engine lifecycle and operation registry** (`engine.cpp` 140-160, 297-348,
728-887; `error.cpp` 95-130, 342-397). A state machine (created, initializing,
ready, operating, failed, shutdown, destroyed), the services, the last result,
the operation table and the check of parameters against it. *Hard*: handlers
that throw, starts that fail, warnings that promote a result. *Correct when* the
state only moves as `engine.hpp` promises and a failed operation does not make
the engine unusable.

**Host and Lua boundary** (`app/src/main.cpp`, `engine/lua/src/bindings.cpp`).
The host finds the workflow, creates the engine, runs Lua, shuts down and turns
what the workflow returned into an exit status. The bindings convert values and
call `Engine::execute`. *Hard*: a Lua table is a list or an object, a nil is no
entry, nothing catches an exception. *Correct when* the exit status tells whether
there is a workspace, the engine is released whichever way main is left, what
crosses the boundary is still accepted when it comes back, and commands end.

**Resource index and service** (`resource_service.cpp`, `error.cpp` 416-469).
State: a record per identity and version, conflicts, a cache of open cartridges.
*Hard*: order of roots and listings, duplicates, roots that overlap, a cache over
files that may change. *Correct when* the first claim is kept and every other
one known, selection is the highest version admitted, and the cache never makes
two answers of one engine differ.

**Typed resolution** (`resolve_services.cpp`) **and validation**
(`validation_service.cpp`, `project_service.cpp` 62-139). From a configuration to
a resolved set: formats, selection, platforms, framework ranges, capabilities,
kit restrictions, parameters and their defaults, integration areas, conflicts,
required kits. *Correct when* the verdict is that of the constraints taken
together, whatever order they are checked in, and `new` generates what it
planned.

**Versions** (`version.cpp`). Parsing, precedence, ranges. *Correct when* the
order is SemVer's and a range holds exactly the versions it denotes.

**Globs, paths, substitution** (`support.cpp` 58-125, 299-352;
`filesystem_service.cpp` 355-450). Pure functions. *Hard*: backtracking, many
spellings of one path, braces that are not placeholders.

**Identities, values, JSON, hashes** (`identity.cpp`, `value.cpp`, `support/`).
Data and formats.

**Tier lifecycle** (`lua/squaredpg/lifecycle.lua`, `env.lua`). State: the two tier
directories, `sandbox` and `project`, and what is in each; a workspace's
`AGENTS.md` and repository. Operations: initialize, install, promote, demote,
quarantine (a copy of a foreign tree into the sandbox). *Hard*: sequences of
shell commands with failures between them, beside an author. *Correct when* no
move loses work.

**selfdestruct** (`lua/squaredpg/destruct.lua`). Survey, confirmation token,
phrase, removal. *Hard*: what is removed may not be what was surveyed. *Correct
when* it removes nothing that was not listed.

**Default workflow and reports** (`lua/workflows/workflow.sqpg.default/init.lua`,
`args.lua`, `report.lua`, `doctor.lua`, `drive.lua`). `new` plans, shows the
plan, and generates from a second plan.

**External**: `sqcart` and `squared` are submodules, empty at this commit;
`third-party/` is vendored; resources, templates and tools are inert data.

### 1.2 Interactions

    sqpg (main.cpp) -> Lua workflow -> Engine::execute -> one handler
      initialize        build_index -> insert, conflict by conflict
      *.resolve         select -> open -> checks of one service
      project.plan      resolve_set -> effective_parameters -> build_plan
      project.generate  resolve_set -> build_plan -> build_record -> apply
      workspace.verify  read_file(record), read_file(each recorded path)
    build_plan          normalize_relative, glob_match, substitute per entry
    lifecycle.lua, destruct.lua -> shell commands on the tiers
    several sqpg processes, and the user -> the same filesystem

Within a process everything is one thread. All concurrency is between processes
(and the people who work in the same directories), and all shared state is the
filesystem: workspaces, tiers, and the resources an engine has indexed.

### 1.3 Hazards

`PROJECT.json` lists, under "hazards", each place where this code can go wrong
in a way that tests hardly reach, with the properties that cover it. The largest
group is at `apply`: two runs that share a location, a check that is stale when
the rename comes, a kill in the middle, a removal seen half done.

## 2. Plan

Order is by how much depends on the answer.

| # | module | models | state |
|---|--------|--------|-------|
| 1 | `PlanSteps`, `Transaction`, `Landing` | plans; `apply` step by step with processes, failures, kills and a user; what it promises | checked, proved |
| 2 | `Generation` | planner, execution, record, verify after edits | checked, proved |
| 3 | `Versions`, `Resources`, `ResourceIndex` | ranges and precedence; the index and its construction | checked, proved |
| 4 | `Parameters`, `Resolution`, `Acceptance` | from a configuration to a resolved set, over a cache of files that change; what makes a request acceptable | checked, proved |
| 5 | `Lifecycle`, `Operations`, `Engine`, `Boundary`, `Host` | what an engine promises of its state; the registry; calls; values across Lua; the programs that hold an engine | checked, proved |
| 6 | `Text`, `TextCalls` | globs, paths, substitution; what they are documented to answer | checked, proved |
| 7 | `Tiers` | promotion, demotion, adoption, destruction | checked, proved |
| 8 | `Durability` | `fsync` and power loss over `Transaction` | not begun |

*Composition.* `PlanSteps` is under both `Transaction` and `Generation`.
`Transaction` implements `Landing` (refinement, checked and proved).
`Generation` executes a plan in one step, which is what that refinement
licenses. `Versions` is under `Resources`, which is under both `ResourceIndex`
(how the index is built) and `Resolution` (how it is read: `Resolution!Init`
has as its index `RecordsOf` and `ConflictsOf`, what `ResourceIndex` is shown to
arrive at). `Acceptance` stands over `Resolution` and says of a request, without
the order of its checks, what `Resolution` is to answer. What `Resolution`
accepts are the `Requests` of `Generation`.
`Operations` is under `Engine`, which is under `Host`, and `Host` implements
`Lifecycle` (refinement, checked and proved). What a handler of `Engine` may
come to is what `Resolution`, `Generation` and `Transaction` show.

*What would come next*: a power-loss model; initialize and install over the
tiers; the environment scope of selfdestruct with its tool directory.

## 3. Modules and code

`PROJECT.json` "map" gives the lines of every definition. This is the overview.

### 3.1 PlanSteps

A plan is a sequence of steps `[path, node]`; `node` is `Dir` or a file content.
`Put` is what creating something at a path does to a tree (`create_directories`
of its parents, then the path), `Creatable` when that succeeds, `HashOf` the
lookup `apply` makes for the recorded hash (`find_if`: the first pair for the
path), `Built` what a tree looks like after the first n steps. A SHA-256 is the
content it is of.

### 3.2 Transaction

State. `target[t]` and `staging[t]` are what is at an output location and at the
staging directory beside it: a tree (its entries, and its metadata record) or
`Absent`. `pc[p]`, `tgt[p]`, `plan[p]`, `next[p]` are the local state of process
p in `apply`. `open[p]` says where the file p has open lies: an open file goes
with its directory when that is renamed, and stays open without a name when it
is unlinked.

Actions, in the order of `apply`:

| action | code |
|--------|------|
| `Start` | the call; two live runs may share or nest locations only under an interference |
| `CheckTarget` | `exists(target)`, filesystem.workspace.exists |
| `CheckNested` | the walk over the ancestors, filesystem.workspace.nested |
| `CheckStaging` | a leftover staging directory |
| `MakeStaging` | `create_directories(staging)`; when it fails, the ancestors it made stay |
| `MakeDirectory` | a `create_directory` step |
| `OpenFile`, `WriteFile` | a `write_file` step: open with truncation, then content and close |
| `OpenRecord`, `WriteRecord` | the record, with one provenance row per write step |
| `Land` | `rename`, which replaces an empty directory and nothing else |
| `CallFails` | any call of the above fails: `abort_with` from the first step of the plan on |
| `CallThrows` | `absolute`, or the `is_directory` after a failed `create_directories`, throws: nothing is cleaned up |
| `RemoveEntry`, `RemoveRoot`, `RemoveFails` | `remove_all`, entry by entry, for a leftover or after a failure |
| `Crash` | the process is killed |
| `UserCreate`, `UserRemove`, `UserSweep` | the user, at any time |

An action is one system call, or several that nobody else can observe between.
The walk over the ancestors is one step. `fsync` changes nothing that a process
can see and is left out.

`Interference` is the set of things the environment may do beyond failures and
kills: `shared_target`, `nested_runs`, `sweep` (the user deletes a directory a
live run works in), `stat_error` (`exists` says no), `lost_flush` (the content is
lost when the stream closes). Each property is checked, or proved, for the
largest set under which it holds, and the violation runs show why no larger.

### 3.3 Landing

The promise of `apply` with no staging and no processes. A generator at a location
(`Generate`) makes empty directories above it, or makes a complete workspace appear
at it, in one step, where there is nothing or an empty directory. It has no step that
removes anything: what disappears does so in a step of the user's (`UserRemove`: a
location with all that lies in it). `LandsAtOnce` is therefore two statements: the
output locations change as `Landing` says, and a step of a run at t, which is not the
user's, is a step of the generator at t or leaves them alone.

### 3.4 Generation

State. `request` is the resolved set: a working directory and a sequence of
contributions, each with its phase, processor, entries, overrides and ownership
lists. `at`, `todo` are where the planner's two loops are; `steps` is what it has
emitted (the maps `claimed` and `directories` are what the steps say, and are
operators); `plan` is the sorted plan; `nodes` and `record` are the workspace
that was generated, and what the author has made of it since.

| action | code |
|--------|------|
| `Ask` | the call of `build_plan` |
| `RefuseContribution` | capability.unsatisfied |
| `RefuseEntry` | unsafe path, collision, unreadable payload, failed substitution, generated file in the working directory |
| `TakeEntry` | the rest of the loop body: new directories, then the write step |
| `NextContribution` | the outer loop |
| `FinishPlan` | the working directory's step and the stable sort |
| `Generate` | project.generate: the steps and the record, or the failure |
| `Dismiss` | the operation returned its error |
| `AuthorWrites`, `AuthorRemoves` | the author |

workspace.verify changes nothing, so it is operators over the state: `Missing`,
`Changed`, `Modified`, and `Verifiable` for the states in which it answers.
A cartridge lists its entries in an order the engine does not choose; the model
takes them in every order.

### 3.5 Versions

The pieces of a version as data: a core of three numbers, a sequence of
pre-release identifiers, a build that takes no part. `Less` and `Same` are the
comparison operators, `Parse` and `ParseRange` the parsers from what is written
between spaces to its meaning (`NoVersion` and `NoRange` for `nullopt`; `Padded`
is the completion of a partial operand), `SatisfiedBy` the admission test.

### 3.6 Resources, ResourceIndex

`Resources` is the vocabulary: which manifests become records (`Indexable`), the
claim a record makes, what an index of a sequence of candidates consists of
(`RecordsOf`, `ConflictsOf`), and the reading of it (`VersionsAmong`,
`SelectAmong`, `Ambiguous`). The sort in `versions` is given by its result: the
listing of the records of an identity with the highest first, of which there is
one, since an index keeps one record of an identity at a version.
`ResourceIndex` is `build_index`:

| action | code |
|--------|------|
| `ScanRoot` | a root: passed over or fatal when it is not there, else `collect` |
| `StartIndexing` | the end of the loop over roots |
| `PassOver` | a candidate that cannot be opened, is of another kind, has an identity of another kind or no full version: a warning |
| `IndexCandidate` | `ResourceIndex::insert`: a record, or a conflict with the one that is there |
| `Finish` | the return |

`Collected` is `collect`, a function on directories that nest without end
nowhere; a directory that cannot be listed is one that holds nothing.

### 3.7 Parameters, Resolution

`Parameters` is the layering of parameters (`WithBuiltIns`, then the two passes
over the declarations) and the contract they must meet. A value is its shape.
The passes are recursive functions of how many declarations were looked at
(`LiteralPass`, `CopyPass`), each step of them an operator (`WithLiteral`,
`WithCopy`).

`Resolution`. State. `file[l]` is what is at a location now; `records` and
`conflicts` the index, made when the engine started; `cache` what
`ResourceService::open` has opened; `request`, `phase` and `set` where
`resolve_set` is; `verdict` the answer of the last call; `answered` a history of
what was accepted. `References` is what a configuration can name: an identity and
a range, as they are written.

| action | code |
|--------|------|
| `Begin` | `validate_configuration`, and the start of `resolve_set` |
| `ResolveReference` | one reference of one phase: `select_and_open`, then the service's own checks |
| `NextPhase` | template, kits, packages, assets, in this order |
| `CrossValidate` | `validate_parameters`, then `cross_validate` |
| `ResolveAlone` | template.resolve, kit.resolve, package.resolve, asset.resolve |
| `Replace` | somebody changes a resource while the engine runs |

`IndexDefect`, `ManifestDefect`, `ParameterDefect` and `SetDefect` are the codes
of the errors, in the order the code tests for them. An accepted `project.plan`
and `project.generate` go on to build a plan of the set; that is `Generation`.

`Acceptance` is the specification of the verdict. It has no phases and no order:
everything a request names is `Found` (one highest record, which is `Usable` and
`Suits` the request), the finds go together (`Compatible`), and the parameters
meet their declarations (`ParametersFit`). `VerdictExact` is that an engine accepts
what is `Acceptable` by the files it has read or would read now, and nothing else.
Ranges count there by what they denote and not by how `satisfied_by` tests them:
`InRange` says of a comparator which interval of the precedence it is (`Within`, up
to the core `Beyond` it), and of pre-releases that only those of a core are meant
that the range names with one. The empty range denotes every version, pre-releases
included, as the code has it; that its header says otherwise is in section 6.

### 3.8 Lifecycle, Operations, Engine, Boundary, Host

`Lifecycle` has one variable, the state, and the moves `engine.hpp` allows.
`Operations` is the registry with each operation's parameters and
`validate_parameters`, where a value is its kind. `Boundary` is `push_value` and
`from_lua` on values. `Value` is the set of values that are passed and `Depth`
says how deep each is nested, which is what the two functions recurse over:
`Pushed` is the table a value becomes, `Borders` the freedom `luaL_len` has, and
so `Returns` maps each value to the set of those it may come back as. `Engine` has
the calls:

| action | code |
|--------|------|
| `Create` | `Engine::create` |
| `StartInitialize`, `FinishInitialize`, `RefuseInitialize` | `initialize`: services, then the index, then ready or failed |
| `Execute` | the four rejections, in order, or the start of a handler |
| `HandlerReturns` | success, warnings or failure; back to ready |
| `HandlerThrows` | the assignments after the handler are skipped; verify, inspect and project.generate can |
| `StartShutdown`, `FinishShutdown`, `RefuseShutdown` | `shutdown` and the destructor |

`Host` has two callers of it: `main` with its workflow, and a program that embeds
the library and may make any call at any time.

| action | code |
|--------|------|
| `FindWorkflow`, `CallInitialize`, `Initialized`, `SetUp` | `main` up to the script; each early return |
| `ScriptRefuses`, `ScriptCalls`, `ScriptContinues` | a command of the default workflow, call by call |
| `CustomCalls`, `CustomEnds` | any other workflow, and the value it returns |
| `CustomExits` | a workflow calls `os.exit`, which `luaL_openlibs` gave it: no shutdown, no destructor |
| `Abort` | an exception that nothing catches |
| `ShutDown`, `Exit` | the explicit shutdown or the destructor, and the exit status |
| `EmbedderCalls`, `EmbedderEnds` | the embedding program |

`show` stands for the four commands it may become, with kit.resolve.

### 3.9 Text

`glob_match` with its matcher's one remembered `**` and its recursion for `*`;
`normalize_relative`, `ancestor_directories`; `substitute`. A text is a sequence
of symbols; the alphabet and what may be in a name are constants. Each loop is a
recursive function over how far it has come: `MatchFrom` over the places of the
matcher (`Moves` is where it goes on from one), `PartsTo`, `KeptTo` and `JoinTo`
over the beginnings of a path, `LoopAfter` over the iterations of `substitute`
(`Iteration` is its body).

`TextCalls` calls them, one call a behaviour, and states what they answer by
definitions that are not algorithms: `Documented` (which paths a pattern
describes, by support.hpp), `Inside`, `Placeholders`. `Covered` are the patterns
the matcher is complete for.

### 3.10 Tiers

State. `trees` maps each home that is taken (a tier and a name, or a place
outside) to a tree: the edits its files hold, who wrote the notice in its
`AGENTS.md`, whether it is a repository. `shown` is the inventory selfdestruct
printed last, `cmd` the command that runs and where it is.

| action | code |
|--------|------|
| `MoveBetween` | promote and demote: their checks |
| `Rename`, `RenameFails` | `os.rename`; it replaces an empty directory, and a target that appeared with something in it makes it fail |
| `Notice`, `NoticeFails` | `AGENTS.md` removed or written; the result is not looked at |
| `GitInit`, `NoGit` | a repository for a promoted tree |
| `Quarantine`, `Copy`, `CopyFails`, `Discard` | the checks, `cp -a`, and `rm -rf` of the target when it failed |
| `Inventory` | selfdestruct without a token: survey, token, printed |
| `Confirm`, `Phrase`, `Remove` | with a token: survey again, compare, the phrase, `rm -rf` one by one |
| `Killed` | the script ends anywhere |
| `Author` | creates, edits, replaces and deletes files, writes a notice, deletes a tree |

An `rm -rf` removes everything or leaves any part (`Erase`).

## 4. Runs

All use TLC with breadth-first search to exhaustion. Deadlock is checked in the
runs of `Transaction` and `Generation`, whose systems never stop for good. It is
not in the others, which do: an index is built once, a process exits, a function
has returned, and bounds on calls and edits are reached.

| run | instance | what it shows |
|-----|----------|---------------|
| `txn_nested` | 2 processes, a location and one inside it, two plans, one with an override, `nested_runs`; 751 thousand states | `TypeOK`, `WorkspaceComplete`, `RecordDescribesDisk`, and the refinement `LandsAtOnce` |
| `txn_quiet` | 2 processes, the same locations, runs that overlap in time do not nest | `NoNestedWorkspace`; every run ends (`RunEnds`) |
| `txn_hostile` | 2 processes at one location, every interference; 2.4 million states | `UserFilesKept` |
| `txn_shared` | 2 processes at one location | *violates* `WorkspaceComplete` |
| `txn_flush` | 1 process, `lost_flush` | *violates* `WorkspaceComplete` |
| `generation` | 1344 resolved sets, every order of entries, any edits; 79 thousand states | `RefusedIffDefective`, `PlanIsCanonical`, `GeneratesRequest`, `DriftExact`, `AuthorsFilesFree` |
| `gen_override` | a package that overrides a template's file | *violates* `NoFalseDrift` |
| `index` | 11 manifests or none at each of 3 locations, 5 sequences of roots; 230 thousand states | `FirstClaimKept`, `AmbiguousIffClaimedTwice`; `SelectsHighest` over 45 ranges and `PrecedenceIsSemVer` over 14 versions |
| `resolution` | 6 resources, varied one and two at a time, 15 configurations, changes between steps; 134 thousand states | `PlanAndGenerateAgree`, `DefaultsReach`, `VerdictExact` |
| `host` | `main` with 9 workflows, an embedding program, 7 sets of parameters; 8 thousand states | `ReadyBetweenCalls`, `ExitIsTruthful`, `ReleasedAtExit`, `AcceptedAfterRoundTrip`, the refinement `ImplementsLifecycle`; commands end (`CommandEnds`) |
| `text` | every pattern, path and raw path up to 5 symbols, patterns of 7 symbols with two `**`, payloads of up to 4 pieces; 19 thousand states | `GlobSound`, `GlobComplete`, `NormalizedIsCanonical`, `AncestorsExact`, `SubstituteExact` |
| `tiers` | 2 names, one foreign tree, 2 edits, every failure; 2.4 million states | `MovesKeepWork`, `DestroysOnlyListed` |

Further configurations are kept for the disagreements they show, to be run by hand,
each with one invariant that TLC finds violated:

| configuration | module | invariant | what TLC shows |
|---------------|--------|-----------|----------------|
| `Gen_collide.cfg` | `MCGeneration` | `AcceptedPlanExecutes` | a file where another contribution needs a directory |
| `Gen_missing.cfg` | `MCGeneration` | `ConflictsAreGenerated` | an author's deleted file counts as a conflict |
| `Glob.cfg` | `MCText` | `GlobAsDocumented` | a pattern that does not match what it describes |
| `Index_any.cfg` | `MCResourceIndex` | `PrereleaseOnlyWhenNamed` | a range without a clause admits a pre-release |
| `Host_throw.cfg` | `MCHost` | `OperatingIsRunning` | a handler that threw leaves the engine operating |

### 4.1 Why these bounds are enough

*Transaction.* Everything a run does to a location depends on that location, its
staging directory and its ancestors. Two processes give every pair of steps that
can meet at a location; a third would have to wait for one of the first two to
end, and processes may start again without bound, so leftovers of any number of
earlier runs occur. Two locations, one inside the other, give the two relations
there are. The plans are a directory with a file, with and without a second file beside it (the
order of steps), a file in an implied directory beside one that is written twice (an
override), a single file (the shortest), and one that cannot be executed (a file
where a directory is needed). Plans of one run have different paths, so that what an
earlier run left would show. `RecordDescribesDisk` is about files that are written once,
beside such a one or not; of a file that is overridden the record is wrong, which is
what `gen_override` shows. Nothing is counted, so no
variable is bounded by a guard: the state space is finite as it is. Processes
are interchangeable and are declared symmetric where no liveness is checked.

*Generation.* Two others after the template give every pair of claims (template
with kit, kit with kit, kit with package), and three contributions with one path
give an override of an override. The entries are a file in the working
directory, a file in another directory, a file at the place of that directory,
and the record's own path; the payloads are one that is copied, one that
expands, one that cannot be expanded, one that cannot be read. The ownership
lists are none, all generated, and three that overlap. Edits are not bounded.

*ResourceIndex.* Three locations give two claims to one identity at one version
with a third beside them, in one root or two, listed in both orders, reached
twice through a shared directory or through a repeated root. The manifests
differ in one thing each: the version (releases, pre-releases, a build, a
partial one), the kind, the identity. The ranges are every operator with
operands at a zero major, a zero minor, a pre-release and a partial version, and
two ranges of two clauses; the versions are the example of semver.org with
others around it.

*Resolution.* The base resource set satisfies the base configuration. Every check
of the code has a variant of a resource, or of the configuration, that fails it
alone and one that just passes; template and kit, which are checked against each
other, are varied together. `MaxEdits` 2 and `MaxRequests` 2 allow a resource to
change before, between and inside two resolutions of one request, and to be
changed back. Varied sets are resolved once and not changed.

*Host.* `MaxCalls` 4 lets an unscripted caller make one call of each kind and
then one more (initialize, execute, shutdown, anything); calls of the default
workflow are not bounded. The arguments are one set that satisfies each of the
registry's shapes, with empty tables and with a kind that is wrong. Boundary
values have depth two: what happens to a container does not depend on what is
deeper.

*Text.* Five symbols hold a `**`, a separator and a `*` or a name. Seven with four
stars hold two `**` with a name or a separator before, between and after them,
where the one that is remembered replaces the other. A piece of a payload is a brace, a
pair, a name, a digit, a blank or an escape.

*Tiers.* `MaxEdits` 2 gives a tree one file and a second one, or a rewritten one;
`MaxTrees` 2 a tree that moves and one that is in its way. The author works
between any two steps. One inventory is kept at a time, so an older token is one
that no longer is `shown`; since edits go on, it may still be stale.

### 4.2 Fairness

`txn_quiet` assumes weak fairness of `RunStep(p)` for each process, that is, a
process in `apply` which can take its next system call eventually takes one.
`apply` is straight-line code on a scheduled thread that waits for nobody, so
this is what the operating system's scheduler gives. Nothing is assumed of
kills, of the user or of new runs. That removing a staging directory ends is not
assumed but follows: without sharing nobody adds entries to it.

`host` assumes weak fairness of its `Next`: everything is one thread, which does
not stop by itself while it has something to do, and handlers return or throw
(`RunEnds` is why the longest of them does). Nothing is assumed of what a custom
workflow or an embedding program chooses to call; `CommandEnds` is about the
default workflow.

### 4.3 Mutants

Each property of a passing run comes with a change to a definition, of the kind
a slip in the code would make (operators under "A plausible bug"), that makes
TLC report it violated.

## 5. Proofs

### 5.1 Transaction

`TransactionProofs` proves, for any number of processes, locations, paths and
plans:

| theorem | statement | assumes |
|---------|-----------|---------|
| `TypeCorrect` | `Spec => []TypeOK` | nothing |
| `NeverOverwrites` | `Spec => UserFilesKept` | nothing |
| `NeverIncomplete` | `Spec => []WorkspaceComplete` | `Quiet` |
| `AlwaysDescribed` | `Spec => []RecordDescribesDisk` | `Quiet`, `OneKind` |
| `ImplementsLanding` | `Spec => LandsAtOnce` | `Quiet` |
| `NeverNested` | `Spec => []NoNestedWorkspace` | `Interference = {}` |

"Nothing" means: nothing beyond the assumptions on the constants that the module
declares (marks are distinct from contents, no path is above itself, what is
above a location that is above another is above that one too, plans are sequences
of steps). In particular both theorems hold under every interference.
`Quiet` is `Interference \subseteq {"nested_runs"}`: no two live runs share a
location, nobody deletes a live run's directories, `exists` and closing a stream
report their errors. `OneKind` says that no plan has one path as a directory and as a
file: such a plan cannot be executed, and what its record would say is nobody's
question. Files that a plan writes twice are left aside by the property itself
(`SingleRows`), since for them it is false; that is what `gen_override` is about.

*Inv1* makes types inductive. `TypeOK` alone is not: that `WriteFile` keeps trees
trees needs that the file it writes to exists where `open[p]` says it is. Inv1
adds that (`OpenOK`: a process that writes has its file open somewhere, one that
does not has none) and that the file which is open in a staging or target
directory belongs to a tree that is there (`StagingOK`). `NeverOverwrites`
follows from it: only `Land` and a write to an open file change a location, the
first needs it vacant, the second finds a file that was opened in a staging
directory, and no user tree can be where that directory landed. So a user's tree
changes in a `UserRemove` of its location or of one above it (`NextKeeps`,
`RemovedBelow`), and in no step of a run.

*Inv2* adds, for quiet hosts, `Exclusive` (two live runs have different
locations), `RunOK` (what a live run's staging directory holds is exactly what
the steps it has done leave in an empty one: `Built(staging.nodes, plan, next -
1)`, with the file being written still empty, and the record only after the last
step) and `WorkspaceComplete` itself. `WorkspaceComplete` is not inductive: that
what lands is complete can only be known from the staging directory and the
program counter. The key lemma `PutBuilds` says that `Put` takes a tree that is
`Built` for n steps to one that is `Built` for n + 1. `ImplementsLanding` then
maps every step: `Land` to `Landing!Land`, because what lands is in
`Workspaces`; the calls that make directories to `MakeDirectories`, both at the
location of the run whose step it is (`RunLands`); the user to the user; and all
else to a stutter (`NextLands`).

*Inv3* is for hosts where no two live runs are nested either. A run looks for a
workspace above its location once, long before it lands, and looks at nothing below
it. That what it saw is still so is `Unenclosed`: only `Land` makes a workspace
(`Plain` is every other step), and a run that lands above another is a run that is
nested with it, which `Apart` excludes. That nothing lies below is `Rooted`: what is
at a location or beside it lies in directories that exist, so a location that is
vacant, or empty, when the rename comes has nothing inside. Removing a directory
keeps this because what is inside goes with it. With `nested_runs` the theorem is
false: a run may land inside one that landed after it looked.

Each invariant was checked by TLC before it was proved.

### 5.2 ResourceIndex

`ResourceIndexProofs` proves, for any tree of resources, any manifests and any
roots:

| theorem | statement |
|---------|-----------|
| `TypeCorrect` | `IndexSpec => []IndexTypeOK` |
| `FirstClaim` | `IndexSpec => []FirstClaimKept` |
| `Ambiguity` | `IndexSpec => []AmbiguousIffClaimedTwice` |

from the assumptions on the constants: locations and directories are different
things and a directory holds such (`TreeAssumption`), the walk comes back
(`CollectedAssumption`: nesting ends, which a filesystem gives and a recursive
function does not say by itself), `KindOf` is a map of identities, `NoVersion`
is no version.

The invariant is `IInv == Settled /\ FirstClaimKept /\ Represented(Seen)`.
`FirstClaimKept` is inductive once `Settled` says that a root is only scanned
before the first candidate is looked at: otherwise `Seen` could grow by other
means than `next`. The key lemma is that of a sequence one longer: the claims of
`Append(seen, c)` are those of `seen`, and c's own if nobody made it before; and
`SameClaim` is an equivalence, so the first of a class is unique.
`Represented` says that every claim seen is the same as one that is kept, which
is what `Ambiguity` needs: two claims to one version give a conflict with the
one kept, whichever two they are.

### 5.3 Host

`HostProofs` proves, for any parameters, any values and any `MaxCalls`:

| theorem | statement |
|---------|-----------|
| `TypeCorrect` | `Spec => []TypeOK` |
| `ReadyAgain` | `Spec => []ReadyBetweenCalls` |
| `TruthfulExit` | `Spec => []ExitIsTruthful` |
| `Released` | `Spec => []ReleasedAtExit` |
| `AcceptedAgain` | `Spec => []AcceptedAfterRoundTrip` |
| `Refinement` | `Spec => ImplementsLifecycle` |

The invariant is `IInv == TypeOK /\ Phases`. `Phases` ties where the program is
to where the engine is: while a call runs the engine is in the state of that
call (`StateFitsCall`), between `FindWorkflow` and `SetUp` nothing has been
generated (`Starting`), while a command runs the rest of it says what was
already called (`Scripted`: `new` has landed nothing before its second call is
made), and on the way out the status agrees with what landed (`Closing`).
`ReadyBetweenCalls` alone is not inductive: that the engine is ready after a
call needs that it was operating during it.

`AcceptedAfterRoundTrip` is about values, not about states. What a value may come
back as is defined by recursion over the depth: a solution of its equation exists up
to every depth (`SomeSolves`) and two of them agree (`SolutionsAgree`), so `Returns`
satisfies the equation for every value (`ReturnsAre`). Then one level is enough: a
list without a null is a table with one border and comes back as a list of its
length (`ListReturns`), an object as an object that is not empty or as the empty
list (`ObjectReturns`), anything else as itself. The assumption on the constants is
that values are scalars, lists and objects of values less deep than themselves
(`ValueAssumption`).

### 5.4 Resolution

`ResolutionProofs` proves, for any resources, edits, requests and bounds:

| theorem | statement |
|---------|-----------|
| `TypeCorrect` | `Spec => []TypeOK` |
| `AcceptedAgain` | `Spec => []PlanAndGenerateAgree` |
| `DefaultsArrive` | `Spec => []DefaultsReach` |
| `VerdictIsExact` | `Spec => VerdictExact` |

from the assumptions on the constants: `Nothing` is no request, a reference is
neither `Nothing` nor `Malformed` and names an identity (`NothingAssumption`);
requests, manifests, candidates and replacements are of their types, so a
configuration's lists hold references or malformed entries, a manifest's areas and
parameters are lists, and where a range or a framework is written it is one as
`Versions` abstracts text, well spelled or not (`NothingAssumption`,
`RequestsAssumption`, `ManifestsAssumption`, `CandidatesAssumption`,
`ReplacementsAssumption`); the engine's capabilities have versions
(`ProvidedAssumption`); `NoRecord` is no record (`NoRecordAssumption`).

The invariant `IInv` says of the set in progress (`Resolving`) and of every set
that was accepted (`Answers`) what they owe to the index and to the cache: each
entry is the record the index selects for its reference, opened as the cache has
it, and without a defect (`Entitled`). The index never changes and the cache is
only added to (`Extends`), so nothing of this can be lost, and the files do not
occur in it. A request has one whole answer by this measure (`OneAnswer`); and a
reference that was answered once cannot be refused later (`ResolveAgain`),
because its record is in the cache and is not opened again. That a failed open is
not cached does not disturb this: an entry was opened.
`PlanAndGenerateAgree` alone is not inductive, as it says nothing of a set that is
half resolved.

The other three need `ResolvedInv == IInv /\ Held /\ LastAnswered`. `Held` is that
the index keeps one record of an identity at a version, and that what the cache has
are manifests of records. `VerdictIsExact` then goes one verdict at a time. What is
selected is the one `Highest` record (`HighestIsSelected`, from `SelectedIsHighest`
and `RangesDenote` below), what a manifest is checked for is what makes it usable
and suitable (`ChecksExact`), so one reference is resolved exactly when it is `Found` (`FoundExactly`); a
refusal on the way names a reference that is not, and a set that reaches the end has
all of them. Of the cross checks, `CompatibleExact` is the one with work in it: the
code counts the writers of an area by their position, which may name one kit twice
or an area that one kit lists twice, and the count is over one exactly when there are
two different contributions. `DefaultsArrive` is an induction over the
declarations: what a pass has set no later step of it takes away (`PassKeeps`).

### 5.5 Tiers

`TiersProofs` proves, for any names, foreign trees and bounds:

| theorem | statement |
|---------|-----------|
| `TypeCorrect` | `Spec => []TypeOK` |
| `KeepsWork` | `Spec => MovesKeepWork` |
| `OnlyListed` | `Spec => DestroysOnlyListed` |

from `BoundAssumption` (`MaxEdits` is a number). `Steady` makes the types
inductive: it adds where the fields of a command come from and which script is at
which step. `MovesKeepWork` is then a matter of single steps: a rename moves
work, whose target the guard says is vacant; a put replaces a tree by one with
all of its work (`PutKeeps`).

`DestroysOnlyListed` needs `Listed`: every inventory that was printed is of trees
of its scope, and what is still to be removed was in one. The step that
establishes it is `Confirm`, where only the token is compared: the survey of that
moment is a different one. Its lines carry the paths, so that two surveys with
one token are of the same homes (`TokenHomes`). That the token says little about
what is *in* them is the disagreement noted in section 6.

### 5.6 Generation

`GenerationProofs` proves, for any requests, any paths and any texts:

| theorem | statement |
|---------|-----------|
| `RefusalExact` | `Spec => []RefusedIffDefective` |
| `Canonical` | `Spec => []PlanIsCanonical` |
| `AuthorsFree` | `Spec => []AuthorsFilesFree` |
| `GeneratesAsked` | `Spec => GeneratesRequest` |
| `DriftFound` | `Spec => []DriftExact` |
| `TypeCorrect` | `Spec => []TypeOK` |

from the assumptions on the constants: a path has finitely many directories above
it, and those of a directory above it among them (`UnderAssumption`), `Rank` tells
paths apart (`RankAssumption`: a path is its string), a text that cannot be expanded
stays one, one that can does not become unreadable, and a directory and nothing are
no texts (`ExpandAssumption`), the record and what the author writes are no payload,
and an unsafe path is no path (`RecordAssumption`), a request has contributions, the
template first (`RequestAssumption`), in the order of the phases
(`PhaseAssumption`).

`PlannerInv` says where the two loops are (`Placed`) and what the claims made so far
are: exactly the paths of the entries done (`ClaimsExact`), each of a sound entry
that was the first with its path or overrides (`ClaimsSound`). A refusal is then a
defect wherever the loop met it, and a loop that ran to its end met every entry.

`StepsInv` says the same of the steps: one per entry done (`FilesExact`), one per
directory above such, in the phase of the first contribution with a file there
(`DirectoriesExact`), and numbered in the order of the contributions (`Numbered`).
That is a set, whatever the order within a contribution. The sort is the other
half: `SortedFacts` shows that a finite set in which no two steps have one key is
enumerated by `Sorted`, each step once and in order. Its argument counts: the number
of smaller steps is an injection into `0 .. n - 1`, so it is onto. The number of a
step takes part in the key only between steps that agree in phase, kind and path,
and there the contribution decides (`OriginOrders`), so the order does not depend
on the numbers either. `AuthorsFree` needs both: a row of the record is a file step,
a file step has the class its contribution gave it, and a generated class in the
working directory would have been refused.

`GeneratesAsked` and `DriftFound` are about executing a plan of any length
(`TreeAfter`, one `Put` per step), and so are inductions over it. The induction
theorems of the library take a predicate as a parameter, which no prover here can
instantiate; `Induction` proves, from the library's statement that the order of the
naturals is well-founded, the same for a *set* of numbers (`SetInduction`), and that
a function which is given by a first value and a step exists. With these: as long as
the steps before the n-th could be made, what is at a path is what the last of them
for it left, or a directory if one of them lies below. `Sorted` puts the steps of an
earlier phase, and of an earlier contribution within it, first, so the last file step
for a path is that of its last contributor, which is what `AskedFor` says. For
`DriftFound`, a row of the record has the hash of the *first* file step for its path
(`HashOf`); under `WritesApart` there is one, so every row has the hash of what was
generated. `WorkspaceInv` is what the types need in addition: no plan before one is
made, and trees stay trees.

### 5.7 Versions and selection

`ResolutionProofs` also proves, for all versions, ranges and manifests:

| theorem | statement |
|---------|-----------|
| `PrecedenceIsOrder` | `Less` is irreflexive and transitive, and of two versions one precedes or they are the `Same` |
| `ComparatorsAreIntervals` | a comparator admits the versions `Within` it: `gt` and `gte` what `lte` and `lt` do not; a caret and a tilde what is at least their bound and has a core below their end, where the next version that may break begins |
| `RangesDenote` | for every range as it may be written, parsed and padded, and every version: `SatisfiedBy` is `InRange` |
| `SelectedIsHighest` | over an index, `SelectAmong` is `NoRecord` when no record is admitted, else the one admitted record that all others precede |

`SelectedIsHighest` rests on a finite set in a strict order having one listing, highest first
(`SortedExists`, by induction over the size), on that listing being `VersionsAmong`
(`VersionsListed`), and on what `build_index` makes keeping one record of an identity
at a version (`RecordsHold`). Precedence is not equality: build metadata takes no
part, and two records that differ in nothing else cannot both be in an index.

### 5.8 Text

`TextProofs` proves, over any alphabet and for texts of any length:

| theorem | statement |
|---------|-----------|
| `NothingElseMatched` | `Spec => []GlobSound` |
| `NothingMissed` | `Spec => []GlobComplete` |
| `OneSpelling` | `Spec => []NormalizedIsCanonical` |
| `EveryDirectoryAbove` | `Spec => []AncestorsExact` |
| `FilledExactly` | `Spec => []SubstituteExact` |

from the assumptions on the constants: `/`, `.`, the quote and the braces are
symbols; blanks, the quote, the braces and what a name is made of are apart
(`SymbolAssumption`, `NameAssumption`); what is asked are texts, and paths that are
matched or created are tidy (`PatternsAssumption` and its neighbours). `substitute`
is given texts or values that have none.

*Why the definitions are functions.* Each recursive function satisfies its equation,
by induction over what it recurses over (`PartSteps`, `JoinSteps`, `KeptSteps`,
`LoopSteps`, `DescribedSteps`, `MatchSteps`); the rest reasons from the equations.

*The matcher ends.* It goes back in the path whenever it re-enters a `**`. But it
never goes back behind the last `**`, and a move takes it past that `**`, or the
`**` over more of the path, or on in both, so of any set of places one is furthest
(`FurthestPlace`): its moves leave the set (`MovesGoOn`). A place with a property
that every move hands on is thereby impossible unless one is at the end, and this is
how `AcceptedIsDescribed` and `DescribedIsAccepted` go.

*It loses nothing.* Completeness needs an invariant of the places: what was consumed
since the last `**` is plain and was read in step with the path (`InStep`), so what
an earlier `**` could still take the last one can take as well. This holds of
`Covered` patterns only, and the attempt to prove it showed two conditions that
`Covered` lacked although every pattern of five symbols had passed: a `**/` after
another `**` must stand for whole directories (`**x**/x` describes `xxx`, and is
refused), and a pattern must not end with a separator. The run has patterns of seven
symbols since.

*One spelling.* A path that is joined from parts has just these parts
(`PartsOfJoin`), and dots, dot-dots and backslashes are gone from them; so
normalizing the result finds nothing to change. Where a drive letter comes to the
front only once a `.` part is dropped the property makes its exception, and
`FirstPart` is why it needs no other. Conversely a tidy path is the join of its parts
(`JoinOfParts`), from which its directories are read off
(`AncestorsAreTheBeginnings`).

*Filled in place.* A placeholder ends at the first closing pair after it opened, and
its token has no brace in it but for the escape, whose own braces open nothing; so
two placeholders never overlap (`Apart`). The loop stands at a symbol that no
placeholder covers or at the first symbol of one, and has written what the symbols
before it are filled with, none of which belongs to a faulty placeholder
(`LoopGoesOn`).

### 5.9 Only model-checked

- `RunEnds` and `CommandEnds`: liveness under fairness is outside the prover.
- `SelectsHighest` and `PrecedenceIsSemVer`: they compare with lists written out
  for an instance (the examples of semver.org, 45 ranges). What is general in them
  is proved in 5.7.

## 6. Disagreements

Under "findings" in `PROJECT.json`, each with the text it disagrees with. Shown
by a run:

- Two runs for one location: the second removes the live staging directory of the
  first as a leftover, and the first lands what is left of it (`txn_shared`).
- `write_file` checks the stream before it is closed, so a full disk may land an
  empty file as a success (`txn_flush`).
- Overridden paths have two rows with the hash of the replaced content, and
  verify reports drift nobody made (`gen_override`).

By a property the modules state and no run checks, or by the model's own text:

- A file in the way of another contribution's directory is accepted at plan time
  (`Gen_collide.cfg`).
- A file of the author's own that is gone counts as a conflict, which the
  specification has for generated files only (`Gen_missing.cfg`). `AuthorsFilesFree`
  is accordingly about files reported as modified.
- A directory that can neither be made nor looked at makes `apply` throw and leave its
  staging directory (`Transaction!CallThrows`).
- `**/*` misses deep files, `*` takes them all, `./C:x` passes for relative
  (`Glob.cfg`, `TextCalls!DriveLettersRefused`).
- A location inside one that is landing: both workspaces land.
- `read_file` throws on a directory, and `workspace.verify` with it; an exception
  leaves the engine operating and ends the process (`Host_throw.cfg`).
- The removal of a leftover is never reported, although a comment says so.
- A range with no clause admits pre-releases (`Index_any.cfg`); a duplicate identity does not fail
  initialization; an engine requirement is never checked at resolution.
- A kit asked for with a template that carries a range is not checked against it.
- The lifecycle's legality matrix, and what a table keeps of a value's shape.
- Promotion and demotion replace the author's `AGENTS.md` and never rename back;
  quarantine may remove what it did not copy; the token of selfdestruct does not
  change with the contents of files.

## 7. Not modelled

Section 2 lists what would come next and "components" in `PROJECT.json` the
status of each part. Left out of what is modelled:

- the text of errors, warnings and reports; permissions and the executable flag (a
  failing `chmod` is a failing write);
- `fsync` and power loss;
- a resource's payload, which sqcart reads when it is needed: only its manifest is
  read once and kept, so `PlanAndGenerateAgree` is about the resolved set and not
  about the bytes of the files;
- in a configuration, the check for `output` (an input like `name`) and the error
  for a list that is not an array;
- the order and timing of verify's reads, which is one look at the workspace;
- assets, which are recorded in a plan and contribute no step to it;
- initialize, install and the tool directory of the environment, and what the
  token covers of a repository;
- identities, JSON, hashes and sqcart as formats; argument parsing, reports,
  doctor and drive, which keep no state; vendored and generated code.

## 8. Running

    tlc -config Txn_nested.cfg MCTransaction
    tlc -config Gen_plan.cfg MCGeneration
    tlc -config Index.cfg MCResourceIndex
    tlc -config Resolution.cfg MCResolution
    tlc -config Host.cfg MCHost
    tlc -config Text.cfg MCText
    tlc -config Tiers.cfg MCTiers
    tlapm TransactionProofs.tla
    tlapm Induction.tla
    tlapm ResourceIndexProofs.tla
    tlapm HostProofs.tla
    tlapm ResolutionProofs.tla
    tlapm TiersProofs.tla
    tlapm GenerationProofs.tla
    tlapm TextProofs.tla

The longest run takes about two minutes with two workers.
