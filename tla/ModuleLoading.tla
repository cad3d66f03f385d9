---------------------------- MODULE ModuleLoading ----------------------------
(***************************************************************************)
(* load_modules (nyarix-runtime, module_loader.rs): scan the directories   *)
(* for packages (nyarix-loader, lib.rs), read every indexed file again,    *)
(* and validate each package against all the others (validation.rs,        *)
(* conflict.rs, version_resolver.rs).                                      *)
(*                                                                         *)
(* Nothing locks the directories: a file may be replaced, torn or removed  *)
(* between the listings of two directories, and between the scan that       *)
(* indexes it and the second read that loads it.                           *)
(***************************************************************************)
EXTENDS Integers, Sequences, FiniteSets, Functions

CONSTANTS
    Files,       \* paths of .nyp files, as the listings of the directories give them
    Directories, \* how many directories are scanned, in the order given
    DirOf,       \* DirOf[f]: the directory whose listing may give path f
    Inodes,      \* the files themselves
    Inode,       \* Inode[f]: the file path f leads to; two paths may lead to one
    Manifests,   \* the manifests a file may hold
    MaxVersion,  \* versions are 1 .. MaxVersion, in semver order
    RuntimeApi,  \* the ApiVersion the Runtime requires
    Platform,    \* platforms a manifest may name
    CurrentPlatform,
    MaxChanges   \* bound: changes to files while the load runs

ApiVersion == [major : Nat, minor : Nat]

(* What a package requires of another: a set of versions, or best effort.   *)
DependencySpec == [req : SUBSET (1 .. MaxVersion), optional : BOOLEAN]

(* PackageManifest, as far as loading looks at it; names are numbers.       *)
IsManifest(m) ==
    /\ m.name \in Nat /\ m.version \in 1 .. MaxVersion /\ m.api \in ApiVersion
    /\ m.platforms \subseteq Platform
    /\ \A d \in DOMAIN m.deps : d \in Nat /\ m.deps[d] \in DependencySpec

ASSUME LoadingAssumption ==
    /\ IsFiniteSet(Files) /\ Directories \in Nat /\ DirOf \in [Files -> 1 .. Directories]
    /\ Inode \in [Files -> Inodes]
    /\ MaxVersion \in Nat /\ MaxChanges \in Nat
    /\ RuntimeApi \in ApiVersion /\ CurrentPlatform \in Platform
    /\ \A m \in Manifests : IsManifest(m)

(* What a file is besides a package that opens: bytes that do not parse, or *)
(* nothing.                                                                 *)
Torn == [kind |-> "torn"]
Absent == [kind |-> "absent"]
Package(m) == [kind |-> "package", manifest |-> m]

VARIABLES
    disk,        \* disk[n]: what file n holds
    changes,     \* how often a file has changed
    phase,       \* "scan", "read", "validate", "done"
    scanned,     \* directories listed so far
    todo,        \* files the current loop has still to visit
    index,       \* ModuleIndex: the packages indexed, oldest-discovered first
    duplicates,  \* ScanReport::duplicates
    candidates,  \* files read again, with their data
    errors,      \* ModuleLoadReport::errors, by path
    valid,       \* ModuleLoadReport::valid
    invalid,     \* ModuleLoadReport::invalid
    turn,        \* how many candidates have been validated
    listed       \* observer: the files read_dir returned

report == <<errors, valid, invalid>>
vars == <<disk, changes, phase, scanned, todo, index, duplicates, candidates, errors, valid, invalid, turn, listed>>

Contents == {Torn, Absent} \cup {Package(m) : m \in Manifests}

OnDisk(f) == disk[Inode[f]]

Init == /\ disk \in [Inodes -> Contents]
        /\ changes = 0 /\ phase = "scan" /\ scanned = 0 /\ todo = {} /\ listed = {}
        /\ index = <<>> /\ duplicates = {} /\ candidates = <<>>
        /\ errors = <<>> /\ valid = {} /\ invalid = {} /\ turn = 0

(* Somebody else installs, truncates or removes a file while modules load.   *)
Change(n, c) ==
    /\ changes < MaxChanges /\ phase \in {"scan", "read"} /\ scanned > 0 /\ disk[n] # c
    /\ disk' = [disk EXCEPT ![n] = c]
    /\ changes' = changes + 1
    /\ UNCHANGED <<phase, scanned, todo, index, duplicates, candidates, report, turn, listed>>

-----------------------------------------------------------------------------
(* scan_directories.                                                        *)

(* read_dir of the next directory, once the files of the last one are done. *)
ReadDir ==
    /\ phase = "scan" /\ todo = {} /\ scanned < Directories
    /\ scanned' = scanned + 1
    /\ todo' = {f \in Files : DirOf[f] = scanned' /\ OnDisk(f) # Absent}
    /\ listed' = listed \cup todo'
    /\ UNCHANGED <<disk, changes, phase, index, duplicates, candidates, report, turn>>

Discovered(f, m) == [path |-> f, name |-> m.name, version |-> m.version]
Indexed(m) == \E i \in 1 .. Len(index) : index[i].name = m.name /\ index[i].version = m.version

(* mutant: a duplicate is dropped without being recorded                    *)
InsertForgets(f, m) ==
    /\ index' = IF Indexed(m) THEN index
                ELSE Append(index, Discovered(f, m))
    /\ UNCHANGED duplicates

(* ModuleIndex::insert: the first file of a name and version is kept.       *)
Insert(f, m) ==
    IF Indexed(m)
    THEN duplicates' = duplicates \cup {f} /\ UNCHANGED index
    ELSE /\ index' = Append(index, Discovered(f, m))
         /\ UNCHANGED duplicates

(* discover_one: a file that does not read or open is recorded and skipped. *)
DiscoverOne(f) ==
    /\ phase = "scan" /\ f \in todo
    /\ todo' = todo \ {f}
    /\ IF OnDisk(f).kind = "package"
       THEN Insert(f, OnDisk(f).manifest) /\ UNCHANGED errors
       ELSE errors' = Append(errors, f) /\ UNCHANGED <<index, duplicates>>
    /\ UNCHANGED <<disk, changes, phase, scanned, candidates, valid, invalid, turn, listed>>

-----------------------------------------------------------------------------
(* load_modules, after the scan.                                            *)

ScanDone ==
    /\ phase = "scan" /\ todo = {} /\ scanned = Directories
    /\ phase' = "read"
    /\ todo' = {index[i].path : i \in 1 .. Len(index)}
    /\ UNCHANGED <<disk, changes, scanned, index, duplicates, candidates, report, turn, listed>>

(* Each indexed file is read again; the bytes may be other ones by now.     *)
ReadOne(f) ==
    /\ phase = "read" /\ f \in todo
    /\ todo' = todo \ {f}
    /\ IF OnDisk(f) # Absent
       THEN candidates' = Append(candidates, [path |-> f, data |-> OnDisk(f)]) /\ UNCHANGED errors
       ELSE errors' = Append(errors, f) /\ UNCHANGED candidates
    /\ UNCHANGED <<disk, changes, phase, scanned, index, duplicates, valid, invalid, turn, listed>>

ReadDone ==
    /\ phase = "read" /\ todo = {}
    /\ phase' = "validate"
    /\ UNCHANGED <<disk, changes, scanned, todo, index, duplicates, candidates, report, turn, listed>>

(* The candidates that open, by position, and their manifests: a validation *)
(* is given the others' and adds its own, so that each sees all of them.    *)
Opened == {i \in 1 .. Len(candidates) : candidates[i].data.kind = "package"}
AllManifests == [i \in Opened |-> candidates[i].data.manifest]

-----------------------------------------------------------------------------
(* resolve_versions, detect_conflicts, validate_package.                    *)

Requirement(m, d) ==
    [requirer |-> m.name, req |-> m.deps[d].req, optional |-> m.deps[d].optional]
Requirements(d) ==
    {Requirement(m, d) : m \in {n \in Range(AllManifests) : d \in DOMAIN n.deps}}

Required == UNION {DOMAIN m.deps : m \in Range(AllManifests)}

Versions(d) == {index[i].version : i \in {j \in 1 .. Len(index) : index[j].name = d}}

(* mutant: a version that suits one of the requirers is good enough         *)
SatisfyingAny(d) == {v \in Versions(d) : \E r \in Requirements(d) : v \in r.req}

Satisfying(d) == {v \in Versions(d) : \A r \in Requirements(d) : v \in r.req}

(* max(): the highest version that satisfies every requirer.                *)
Best(d) == CHOOSE v \in Satisfying(d) : \A w \in Satisfying(d) : w <= v
Resolved == [d \in {e \in Required : Satisfying(e) # {}} |-> Best(d)]
UnavailableOptional == {d \in Required : Satisfying(d) = {} /\ \A r \in Requirements(d) : r.optional}
Unresolved == Required \ (DOMAIN Resolved \cup UnavailableOptional)

IsCompatible(required, provided) ==
    required.major = provided.major /\ provided.minor >= required.minor

(* detect_conflicts: a dependency no version of which suits everybody, or   *)
(* that nobody provides, and every manifest whose API version is too old.   *)
Conflict(kind, name, parties) == [kind |-> kind, name |-> name, parties |-> parties]
Conflicts ==
    {Conflict(IF Versions(d) = {} THEN "MissingDependency" ELSE "IncompatibleVersions",
              d, {r.requirer : r \in Requirements(d)}) : d \in Unresolved}
    \cup {Conflict("IncompatibleApiVersion", m.name, {m.name}) :
            m \in {n \in Range(AllManifests) : ~IsCompatible(RuntimeApi, n.api)}}

(* conflict_involves: as a requirer, or as the package itself.              *)
ConflictInvolves(c, name) == name \in c.parties

(* An empty list names every platform.                                      *)
PlatformSupported(m) == m.platforms = {} \/ CurrentPlatform \in m.platforms

(* mutant: nothing narrows the conflicts down                               *)
IsValidUnnarrowed(m) ==
    /\ Conflicts = {}
    /\ PlatformSupported(m)

(* ValidationReport::is_valid after the narrowing.                          *)
IsValid(m) ==
    /\ \A c \in Conflicts : ~ConflictInvolves(c, m.name)
    /\ PlatformSupported(m)

(* The candidates are validated one by one, in the order they were read.    *)
ValidateOne ==
    /\ phase = "validate" /\ turn < Len(candidates)
    /\ turn' = turn + 1
    /\ LET c == candidates[turn']
       IN  \/ /\ c.data.kind = "package" /\ IsValid(c.data.manifest)
              /\ valid' = valid \cup {c} /\ UNCHANGED <<invalid, errors>>
           \/ /\ c.data.kind = "package" /\ ~IsValid(c.data.manifest)
              /\ invalid' = invalid \cup {c} /\ UNCHANGED <<valid, errors>>
           \/ /\ c.data.kind # "package"
              /\ errors' = Append(errors, c.path) /\ UNCHANGED <<valid, invalid>>
    /\ UNCHANGED <<disk, changes, phase, scanned, todo, index, duplicates, candidates, listed>>

ValidateDone ==
    /\ phase = "validate" /\ turn = Len(candidates)
    /\ phase' = "done"
    /\ UNCHANGED <<disk, changes, scanned, todo, index, duplicates, candidates, report, turn, listed>>

(* record_module_load_report: the gauges over the report.                   *)
ModulesLoaded == Cardinality(valid)
ModulesFailed == Cardinality(invalid) + Len(errors)

-----------------------------------------------------------------------------
(* fallback::resolve over the packages that opened, in the order they were  *)
(* read: an exact API version before a compatible one before the fallback   *)
(* the manifest names, if it names one.                                     *)
NoFallback == 0
Resolution(kind, name) == [kind |-> kind, name |-> name]

FirstOf(S) == CHOOSE i \in S : \A j \in S : i <= j
Resolve(required, fallback) ==
    LET exact == {i \in Opened : AllManifests[i].api = required}
        compatible == {i \in Opened : IsCompatible(required, AllManifests[i].api)}
    IN  IF exact # {} THEN Resolution("ExactMatch", AllManifests[FirstOf(exact)].name)
        ELSE IF compatible # {}
        THEN Resolution("CompatibleVersion", AllManifests[FirstOf(compatible)].name)
        ELSE Resolution(IF fallback = NoFallback THEN "Incompatible" ELSE "Fallback", fallback)

-----------------------------------------------------------------------------
Next == \/ ReadDir \/ ScanDone \/ ReadDone \/ ValidateOne \/ ValidateDone
        \/ \E f \in Files : DiscoverOne(f) \/ ReadOne(f)
        \/ \E n \in Inodes, c \in Contents : Change(n, c)

Spec == Init /\ [][Next]_vars

-----------------------------------------------------------------------------
(* Types.                                                                   *)
TypeOK ==
    /\ disk \in [Inodes -> Contents] /\ changes \in 0 .. MaxChanges
    /\ phase \in {"scan", "read", "validate", "done"} /\ scanned \in 0 .. Directories
    /\ todo \subseteq Files /\ listed \subseteq Files /\ duplicates \subseteq Files
    /\ index \in Seq([path : Files, name : {m.name : m \in Manifests}, version : 1 .. MaxVersion])
    /\ \A i, j \in 1 .. Len(index) :
           index[i].name = index[j].name /\ index[i].version = index[j].version => i = j
    /\ candidates \in Seq([path : Files, data : Contents]) /\ turn \in 0 .. Len(candidates)
    /\ errors \in Seq(Files)
    /\ valid \subseteq Range(candidates) /\ invalid \subseteq Range(candidates)

(* Every file the scan listed ends in exactly one place: kept out as a       *)
(* duplicate, reported once as an error, rejected, or loaded; even one that  *)
(* was replaced, torn or removed meanwhile, or is listed under two paths.   *)
(* The gauges count every one of them but the duplicates.                   *)
EveryFileAccounted ==
    /\ TypeOK
    /\ phase = "done" =>
        /\ ModulesLoaded + ModulesFailed + Cardinality(duplicates) = Cardinality(listed)
        /\ \A f \in listed :
               Cardinality({i \in 1 .. Len(errors) : errors[i] = f})
               + (IF f \in duplicates THEN 1 ELSE 0)
               + Cardinality({c \in valid \cup invalid : c.path = f}) = 1

(* Whatever a loaded package requires has an indexed version that suits it   *)
(* and every other package that opened and requires it too, loaded or not,   *)
(* of whatever version; or all of them can do without.  The packages loaded  *)
(* together so agree on one version of each dependency.                     *)
LoadedAgree ==
    phase = "done" =>
        \A d \in UNION {DOMAIN c.data.manifest.deps : c \in valid} :
            LET users == {m \in Range(AllManifests) : d \in DOMAIN m.deps}
            IN  \/ \E v \in 1 .. MaxVersion :
                       /\ \E i \in 1 .. Len(index) : index[i].name = d /\ index[i].version = v
                       /\ \A m \in users : v \in m.deps[d].req
                \/ \A m \in users : m.deps[d].optional

(* The packages whose part in a conflict nothing blurs: no other version of   *)
(* the name opened (conflict_involves compares names), and what one can do   *)
(* without no other package insists on (a resolution is for all of them).    *)
Unambiguous(m) ==
    \A o \in Range(AllManifests) :
        /\ o.name = m.name => o = m
        /\ \A d \in DOMAIN m.deps \cap DOMAIN o.deps : m.deps[d].optional => o.deps[d].optional

(* Such a package is rejected only for a fault it is itself party to: its    *)
(* platform, an API too old, or a dependency it insists on and no indexed    *)
(* version of which suits all that require it, whatever else the directories *)
(* hold, and however it changes while they are read.                        *)
UnrelatedSpared ==
    phase = "done" =>
        \A m \in {c.data.manifest : c \in invalid} : Unambiguous(m) =>
            \/ ~PlatformSupported(m)
            \/ ~IsCompatible(RuntimeApi, m.api)
            \/ \E d \in DOMAIN m.deps :
                   /\ ~m.deps[d].optional
                   /\ \A v \in 1 .. MaxVersion :
                          \/ \A i \in 1 .. Len(index) : index[i].name # d \/ index[i].version # v
                          \/ \E o \in Range(AllManifests) : d \in DOMAIN o.deps /\ v \notin o.deps[d].req

(* A fallback is resolved to, or loading refused, only where none of the     *)
(* packages that opened could be loaded; otherwise the package resolved to   *)
(* has an API version that validation accepts, and the exact one if any has. *)
FallbackIsLast ==
    phase = "done" =>
        \A fallback \in {NoFallback, 9} :
            LET r == Resolve(RuntimeApi, fallback)
                named == {m.api : m \in {n \in Range(AllManifests) : n.name = r.name}}
            IN  IF r.kind \in {"Fallback", "Incompatible"} THEN valid = {}
                ELSE \E api \in named :
                         /\ api.major = RuntimeApi.major /\ api.minor >= RuntimeApi.minor
                         /\ (\E m \in Range(AllManifests) : m.api = RuntimeApi) => api = RuntimeApi

(* What is loaded fits together and fits the Runtime: validation and the     *)
(* choice among API versions never disagree.                                *)
LoadedFits == LoadedAgree /\ FallbackIsLast
==============================================================================
