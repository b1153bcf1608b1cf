----------------------------- MODULE Resolution -----------------------------
(***************************************************************************)
(* Resolving what a configuration asks for (Engine::Impl::resolve_set, the *)
(* typed services, ValidationService, ResourceService::open): the          *)
(* configuration is validated; then the template, each kit, each package   *)
(* and each asset is selected from the index, opened and checked; then the *)
(* parameters and the set as a whole are.                                  *)
(*                                                                         *)
(* The index is built once.  What is opened is cached, and so is not what  *)
(* the files say when they are changed under a running engine.             *)
(***************************************************************************)
EXTENDS Resources, Parameters

CONSTANTS
  Candidates,  \* the locations in discovery order
  Provided,    \* the version of each capability this engine provides
  Manifests,   \* what may be at a location
  Replacements, \* what its author may put at each location instead
  References,  \* the references to resources that text may be parsed to
  Requests,    \* the configurations that may be asked for
  Enquiries,   \* the single references that may be asked about
  Malformed,   \* text that is no resource reference
  Nothing,     \* a member the configuration or the manifest does not have
  MaxRequests, MaxEdits

ASSUME NothingAssumption ==
  /\ Nothing \notin Requests
  /\ \A ref \in References :
       ref \notin {Malformed, Nothing} /\ ref.id # Nothing /\ ref.range \in WrittenRange
ASSUME RequestsAssumption ==
  \A r \in Requests :
    /\ r.template \in References \cup {Malformed, Nothing} /\ r.framework \in Token \cup {Nothing}
    /\ \A list \in {r.kits, r.packages, r.assets} : list \in Seq(References \cup {Malformed})
ASSUME CandidatesAssumption == Candidates \in Seq(Locations)
ASSUME ManifestsAssumption ==
  /\ Unreadable \notin Manifests
  /\ \A m \in Manifests : /\ m.version \in Token /\ m.parameters \in Seq(Declaration)
                          /\ m.areas \in Seq(ToSet(m.areas))
                          /\ m.framework \in WrittenRange \cup {Nothing}
                          /\ \A need \in m.capabilities : need.range \in WrittenRange
ASSUME ProvidedAssumption == \A token \in DOMAIN Provided : Provided[token] \in Version
ASSUME NoRecordAssumption ==
  \A location \in Locations, m \in Manifests : RecordOf(location, m) # NoRecord
ASSUME ReplacementsAssumption ==
  Replacements \in [Locations -> SUBSET (Manifests \cup {Unreadable})]

VARIABLES
  file,      \* what is at each location
  records, conflicts, \* the index
  cache,     \* ResourceService::cache_: the manifest of each record opened
  request,   \* what is being resolved
  phase,     \* "idle", "template", "kits", "packages", "assets", "cross"
  set,       \* ResolvedSet, so far
  verdict,   \* the last answer: "accepted", the code of an error, "none"
  answered,  \* what each accepted request came to the first time: only history
  requested, edits \* how many so far: only bounds

indexed == <<records, conflicts>>
vars == <<file, indexed, cache, request, phase, set, verdict, answered, requested, edits>>

EmptySet == [template |-> << >>, kits |-> << >>, packages |-> << >>, assets |-> << >>]
After ==
  [template |-> "kits", kits |-> "packages", packages |-> "assets", assets |-> "cross"]
KindIn ==
  [template |-> "template", kits |-> "kit", packages |-> "package", assets |-> "asset"]

-----------------------------------------------------------------------------
(* The configuration.                                                      *)

\* The references each phase resolves, in order.
Asked(r) == [template |-> <<r.template>>, kits |-> r.kits, packages |-> r.packages,
             assets |-> r.assets]

\* validate_configuration, in its order.
ConfigurationDefect(r) ==
  IF r.name = "empty" \/ r.template = Nothing THEN "configuration.input.missing"
  ELSE IF r.name # "identifier" THEN "configuration.name.invalid"
  ELSE IF \E part \in DOMAIN KindIn : Malformed \in ToSet(Asked(r)[part])
    THEN "configuration.identity.invalid"
  ELSE IF r.framework # Nothing /\ Parse(r.framework) = NoVersion
    THEN "framework.version.invalid"
  ELSE "none"

-----------------------------------------------------------------------------
(* One reference: select_and_open, and what each typed service adds.       *)

\* Up to the record, from the index alone.
IndexDefect(ref, kind) ==
  IF ParseRange(ref.range) = NoRange THEN "version.invalid"
  ELSE IF \A r \in records : r.id # ref.id THEN "not_found"
  ELSE IF Ambiguous(conflicts, ref.id) THEN "identity.duplicate"
  ELSE LET record == SelectAmong(records, ref.id, ParseRange(ref.range))
       IN IF record = NoRecord THEN "version.unsatisfiable"
          ELSE IF record.kind # kind THEN "kind.mismatch"
          ELSE "none"

\* A plausible bug: the integrity is checked when indexing only.
OpenedUnverified(record) == IF record \in DOMAIN cache THEN cache[record] ELSE file[record.at]

\* A plausible bug: an opened cartridge is not kept.
Reread(record) == IF file[record.at] # Unreadable /\ file[record.at].intact
                    THEN file[record.at] ELSE Unreadable

\* ResourceService::open: from the cache, or from the file, checked for
\* integrity.  Whether the file is still the resource the index has there is
\* not looked at.
Opened(record) ==
  IF record \in DOMAIN cache THEN cache[record]
  ELSE IF file[record.at] # Unreadable /\ file[record.at].intact THEN file[record.at]
  ELSE Unreadable

\* What was opened is kept, whatever becomes of the request; a failure is not.
Kept(record) ==
  IF Opened(record) = Unreadable THEN cache
  ELSE [r \in DOMAIN cache \cup {record} |-> IF r = record THEN Opened(record) ELSE cache[r]]

CapabilityMet(need) ==
  /\ need.token \in DOMAIN Provided
  /\ ParseRange(need.range) # NoRange
  /\ SatisfiedBy(ParseRange(need.range), Provided[need.token])

PlatformsAdmit(declared, wanted) ==
  declared = {} \/ "all" \in declared \/ wanted \subseteq declared

\* A range that is no range, or a request without a framework, refuses nothing.
FrameworkAdmits(declared, wanted) ==
  \/ declared = Nothing \/ wanted = Nothing
  \/ ParseRange(declared) = NoRange \/ Parse(wanted) = NoVersion
  \/ SatisfiedBy(ParseRange(declared), Parse(wanted))

\* The checks of an opened resource, in their order; an asset is refused for
\* neither platforms nor framework.
ManifestDefect(manifest, kind, context) ==
  IF manifest = Unreadable THEN "payload.unreadable"
  ELSE IF \E need \in manifest.capabilities : ~CapabilityMet(need) THEN "capability.unsatisfied"
  ELSE IF ~manifest.addressed THEN "manifest.invalid"
  ELSE IF /\ kind = "kit" /\ manifest.templates # {}
          /\ context.template \notin manifest.templates \cup {Nothing}
    THEN "compatibility.template"
  ELSE IF kind # "asset" /\ ~PlatformsAdmit(manifest.platforms, context.platforms)
    THEN "compatibility.platform"
  ELSE IF kind # "asset" /\ ~FrameworkAdmits(manifest.framework, context.framework)
    THEN "framework.compatibility"
  ELSE "none"

\* TemplateService, KitService, PackageService and AssetService::resolve: the
\* defect, and what is resolved where there is none.
Resolve(ref, kind, context) ==
  LET defect == IndexDefect(ref, kind)
      record == SelectAmong(records, ref.id, ParseRange(ref.range))
  IN IF defect # "none"
       THEN [defect |-> defect, cache |-> cache, resolved |-> << >>]
       ELSE [defect |-> ManifestDefect(Opened(record), kind, context),
             cache |-> Kept(record),
             resolved |-> <<[record |-> record, manifest |-> Opened(record)]>>]

\* The template whose identity the kits are checked against.
Context(r) ==
  [template |-> r.template.id, platforms |-> r.platforms, framework |-> r.framework]

-----------------------------------------------------------------------------
(* The set as a whole: phase 6.                                            *)

PresentKits(s) == {s.kits[i].record.id : i \in DOMAIN s.kits}

\* A plausible bug: a kit is counted once however often it writes an area.
WritersById(s, area) ==
  {k \in PresentKits(s) :
     \E i \in DOMAIN s.kits : s.kits[i].record.id = k /\ area \in ToSet(s.kits[i].manifest.areas)}

\* The kits that contribute to an area, one for each time they name it.
Writers(s, area) ==
  {w \in UNION {{i} \X DOMAIN s.kits[i].manifest.areas : i \in DOMAIN s.kits} :
     s.kits[w[1]].manifest.areas[w[2]] = area}

WrittenAreas(s) == UNION {ToSet(s.kits[i].manifest.areas) : i \in DOMAIN s.kits}

\* cross_validate.  A template that declares no area is taken at its word by
\* none; missing packages are only warned of.
SetDefect(s) ==
  LET template == s.template[1].manifest
  IN IF template.areas # << >> /\ WrittenAreas(s) \ ToSet(template.areas) # {}
       THEN "kit.integration_point.undeclared"
     ELSE IF \E area \in WrittenAreas(s) \ template.multi : Cardinality(Writers(s, area)) > 1
       THEN "kit.integration_point.conflict"
     ELSE IF \E i \in DOMAIN s.kits : s.kits[i].manifest.conflicts \cap PresentKits(s) # {}
       THEN "kit.compatibility.conflict"
     ELSE IF template.kits \ PresentKits(s) # {} THEN "template.kit.required"
     ELSE "none"

\* What the engine adds to the parameters: of the request, of itself, and of
\* what was resolved.  The working directory is sq_app unless declared.
BuiltIns(r, s) ==
  [project_name |-> r.name, namespace |-> r.name, working_directory |-> "identifier",
   generator_version |-> "text", template_id |-> "package", template_version |-> "text",
   framework_version |-> "text",
   kit_list |-> CASE Len(s.kits) = 0 -> "identifier" [] Len(s.kits) = 1 -> "package"
                  [] OTHER -> "text"]

Declared(s) == s.template[1].manifest.parameters
Parameters(r, s) == Effective(r.parameters, BuiltIns(r, s), Declared(s))

ParameterDefect(r, s) ==
  IF MissingParameter(Parameters(r, s), Declared(s)) THEN "template.parameter.missing"
  ELSE IF InvalidParameter(Parameters(r, s), Declared(s)) THEN "template.parameter.invalid"
  ELSE "none"

-----------------------------------------------------------------------------
(* The steps.                                                              *)

Answer(v, s) == phase' = "idle" /\ verdict' = v /\ set' = s

\* A refusal leaves nothing but what was cached on the way.
Refuse(defect) == Answer(defect, EmptySet)

Begin(r) ==
  /\ phase = "idle" /\ requested < MaxRequests
  /\ requested' = requested + 1
  /\ request' = r
  /\ IF ConfigurationDefect(r) = "none"
       THEN phase' = "template" /\ verdict' = "none" /\ set' = EmptySet
       ELSE Refuse(ConfigurationDefect(r))
  /\ UNCHANGED <<file, indexed, cache, answered, edits>>

\* Phases 2 to 5, one reference at a time.
ResolveReference(part) ==
  /\ phase = part /\ Len(set[part]) < Len(Asked(request)[part])
  /\ LET answer == Resolve(Asked(request)[part][Len(set[part]) + 1], KindIn[part],
                           Context(request))
     IN /\ cache' = answer.cache
        /\ IF answer.defect = "none"
             THEN set' = [set EXCEPT ![part] = @ \o answer.resolved] /\ UNCHANGED <<phase, verdict>>
             ELSE Refuse(answer.defect)
  /\ UNCHANGED <<file, indexed, request, answered, requested, edits>>

NextPhase(part) ==
  /\ phase = part /\ Len(set[part]) = Len(Asked(request)[part])
  /\ phase' = After[part]
  /\ UNCHANGED <<file, indexed, cache, request, set, verdict, answered, requested, edits>>

CrossValidate ==
  /\ phase = "cross"
  /\ CASE ParameterDefect(request, set) # "none" -> Refuse(ParameterDefect(request, set))
       [] ParameterDefect(request, set) = "none" /\ SetDefect(set) # "none" ->
            Refuse(SetDefect(set))
       [] OTHER -> Answer("accepted", set)
  /\ answered' = IF verdict' # "accepted" \/ request \in DOMAIN answered THEN answered
                 ELSE [r \in DOMAIN answered \cup {request} |->
                         IF r = request THEN set ELSE answered[r]]
  /\ UNCHANGED <<file, indexed, cache, request, requested, edits>>

\* template.resolve, kit.resolve, package.resolve and asset.resolve.
ResolveAlone(e) ==
  /\ phase = "idle" /\ requested < MaxRequests
  /\ requested' = requested + 1
  /\ request' = Nothing
  /\ IF e.ref = Malformed
       THEN Refuse("configuration.identity.invalid") /\ UNCHANGED cache
       ELSE LET answer == Resolve(e.ref, e.kind, e.context)
            IN /\ cache' = answer.cache
               /\ Refuse(IF answer.defect = "none" THEN "resolved" ELSE answer.defect)
  /\ UNCHANGED <<file, indexed, answered, edits>>

\* The author of a resource changes it while the engine runs.
Replace(location, manifest) ==
  /\ edits < MaxEdits /\ file[location] # manifest
  /\ edits' = edits + 1
  /\ file' = [file EXCEPT ![location] = manifest]
  /\ UNCHANGED <<indexed, cache, request, phase, set, verdict, answered, requested>>

EngineStep ==
  \/ \E part \in DOMAIN KindIn : ResolveReference(part) \/ NextPhase(part)
  \/ CrossValidate

Init ==
  /\ file \in [Locations -> Manifests \cup {Unreadable}]
  /\ records = RecordsOf(Candidates, file) /\ conflicts = ConflictsOf(Candidates, file)
  /\ cache = << >> /\ answered = << >>
  /\ request = Nothing /\ phase = "idle" /\ set = EmptySet /\ verdict = "none"
  /\ requested \in 0..MaxRequests /\ edits \in 0..MaxEdits

Next ==
  \/ \E r \in Requests : Begin(r)
  \/ \E e \in Enquiries : ResolveAlone(e)
  \/ \E location \in Locations : \E manifest \in Replacements[location] :
       Replace(location, manifest)
  \/ EngineStep

Spec == Init /\ [][Next]_vars

-----------------------------------------------------------------------------
(* Properties.                                                             *)

\* Type: the index and the cache hold what indexing and opening put there, and
\* what is resolved so far answers the first references of each phase, in order.
TypeOK ==
  /\ file \in [Locations -> Manifests \cup {Unreadable}]
  /\ phase \in DOMAIN After \cup {"idle", "cross"}
  /\ DOMAIN cache \subseteq records
  /\ \A record \in DOMAIN cache : cache[record] \in Manifests /\ cache[record].intact
  /\ phase # "idle" \/ verdict = "accepted" =>
       \A part \in DOMAIN KindIn : \A i \in DOMAIN set[part] :
         LET ref == Asked(request)[part][i]
         IN /\ set[part][i].record = SelectAmong(records, ref.id, ParseRange(ref.range))
            /\ set[part][i].record.kind = KindIn[part]
            /\ set[part][i].manifest = cache[set[part][i].record]

\* `new` shows a plan and then generates from a second resolution (init.lua).
\* Within one engine a request that was accepted once is accepted again, with the
\* same set, whatever happens to the resources' files and whatever else was
\* resolved in between.
PlanAndGenerateAgree ==
  phase = "idle" /\ request \in DOMAIN answered =>
    verdict = "accepted" /\ set = answered[request]

\* A parameter that has no value of its own and may be copied from one that is
\* supplied, built in or has a literal default is never left without a value,
\* in whatever order they are declared (project_service.cpp:71-72).
DefaultsReach ==
  verdict = "accepted" =>
    LET before == LiteralPass(WithBuiltIns(request.parameters, BuiltIns(request, set)),
                              Declared(set))
    IN \A i \in DOMAIN Declared(set) :
         LET d == Declared(set)[i]
         IN /\ before[d.name] = Absent /\ d.from \in ParameterNames
            /\ before[d.from] # Absent
            => Parameters(request, set)[d.name] # Absent
=============================================================================
