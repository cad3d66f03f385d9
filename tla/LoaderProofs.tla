------------------------------ MODULE LoaderProofs ------------------------------
(***************************************************************************)
(* Proofs about nyarix-loader and the loading of modules.                  *)
(*                                                                         *)
(* ModuleLoading, for any files, any packages and any changes to them      *)
(* while they are read: each file the scan listed ends in one place, what  *)
(* is loaded fits together, and nothing is rejected for another's fault.   *)
(***************************************************************************)
EXTENDS ModuleLoading, FiniteSetTheorems, SequenceTheorems, WellFoundedInduction, TLAPS

-----------------------------------------------------------------------------
(* Sequences as the loader grows them.                                     *)

(* What a sequence holds once an element has been pushed. *)
LEMMA Pushed ==
  ASSUME NEW T, NEW s \in Seq(T), NEW x \in T
  PROVE  /\ Append(s, x) \in Seq(T) /\ Len(Append(s, x)) = Len(s) + 1 /\ Len(s) \in Nat
         /\ \A i \in 1 .. Len(s) + 1 : Append(s, x)[i] = IF i = Len(s) + 1 THEN x ELSE s[i]
         /\ \A i \in 1 .. Len(s) : s[i] \in T
         /\ 1 .. Len(s) + 1 = (1 .. Len(s)) \cup {Len(s) + 1} /\ Len(s) + 1 \notin 1 .. Len(s)
OBVIOUS

(* Two sets that match one for one have the same size.                     *)
LEMMA SameSize ==
  ASSUME NEW S, NEW T, IsFiniteSet(S), NEW f \in [S -> T],
         \A x, y \in S : f[x] = f[y] => x = y, \A t \in T : \E x \in S : f[x] = t
  PROVE  IsFiniteSet(T) /\ Cardinality(T) = Cardinality(S)
<1>1. f \in Bijection(S, T)
  BY DEF Bijection, Injection, IsInjective, Surjection
<1>. QED
  BY <1>1, FS_Bijection DEF ExistsBijection

(* Sets with nothing in common add up.                                     *)
LEMMA DisjointSize ==
  ASSUME NEW S, NEW T, IsFiniteSet(S), IsFiniteSet(T), S \cap T = {}
  PROVE  /\ IsFiniteSet(S \cup T) /\ Cardinality(S \cup T) = Cardinality(S) + Cardinality(T)
         /\ Cardinality(S) \in Nat /\ Cardinality(T) \in Nat
<1>1. Cardinality(S \cap T) = 0
  BY FS_EmptySet
<1>2. Cardinality(S) \in Nat /\ Cardinality(T) \in Nat
  BY FS_CardinalityType
<1>3. /\ IsFiniteSet(S \cup T)
      /\ Cardinality(S \cup T) = Cardinality(S) + Cardinality(T) - Cardinality(S \cap T)
  BY FS_Union
<1>. QED
  BY <1>1, <1>2, <1>3

-----------------------------------------------------------------------------
(* Type correctness.                                                       *)

(* A path that holds a package holds one of the manifests.                 *)
LEMMA PackageContent ==
  ASSUME NEW x \in Contents, x.kind = "package"
  PROVE  x.manifest \in Manifests /\ IsManifest(x.manifest) /\ x # Absent
BY LoadingAssumption DEF Contents, Torn, Absent, Package

IndexEntry == [path : Files, name : {m.name : m \in Manifests}, version : 1 .. MaxVersion]
Candidate == [path : Files, data : Contents]
IndexInv ==
  /\ index \in Seq(IndexEntry)
  /\ \A i, j \in 1 .. Len(index) :
        index[i].name = index[j].name /\ index[i].version = index[j].version => i = j

(* A package that is indexed is the first of its name and version.         *)
LEMMA InsertType ==
  ASSUME IndexInv, duplicates \subseteq Files, NEW f \in Files, NEW m \in Manifests, Insert(f, m)
  PROVE  IndexInv' /\ duplicates' \subseteq Files
<1>1. Discovered(f, m) \in IndexEntry
  BY LoadingAssumption DEF Discovered, IndexEntry, IsManifest
<1>2. CASE Indexed(m)
  BY <1>2 DEF Insert, IndexInv
<1>3. CASE ~Indexed(m)
  <2>. DEFINE e == Discovered(f, m)
  <2>1. index' = Append(index, e) /\ duplicates' = duplicates /\ index \in Seq(IndexEntry)
    BY <1>3 DEF Insert, IndexInv
  <2>2. e.name = m.name /\ e.version = m.version
    BY DEF Discovered
  <2>. HIDE DEF e
  <2>3. /\ index' \in Seq(IndexEntry) /\ Len(index') = Len(index) + 1 /\ Len(index) \in Nat
        /\ \A i \in 1 .. Len(index) + 1 : index'[i] = IF i = Len(index) + 1 THEN e ELSE index[i]
        /\ 1 .. Len(index) + 1 = (1 .. Len(index)) \cup {Len(index) + 1}
        /\ Len(index) + 1 \notin 1 .. Len(index)
    BY <1>1, <2>1, Pushed DEF e
  <2>4. ASSUME NEW i \in 1 .. Len(index'), NEW j \in 1 .. Len(index'),
               index'[i].name = index'[j].name, index'[i].version = index'[j].version
        PROVE  i = j
    <3>1. CASE i \in 1 .. Len(index) /\ j \in 1 .. Len(index)
      BY <2>3, <2>4, <3>1 DEF IndexInv
    <3>2. CASE i = Len(index) + 1 /\ j \in 1 .. Len(index)
      BY <1>3, <2>2, <2>3, <2>4, <3>2 DEF Indexed
    <3>3. CASE j = Len(index) + 1 /\ i \in 1 .. Len(index)
      BY <1>3, <2>2, <2>3, <2>4, <3>3 DEF Indexed
    <3>. QED
      BY <2>3, <3>1, <3>2, <3>3
  <2>. QED
    BY <2>1, <2>3, <2>4 DEF IndexInv
<1>. QED
  BY <1>2, <1>3

(* The files, the directory listing and the index are well typed.          *)
LEMMA InitType == Init => TypeOK
BY LoadingAssumption DEF Init, TypeOK, Range

(* The index keeps its type through every step. *)
LEMMA NextType == TypeOK /\ [Next]_vars => TypeOK'
<1>. SUFFICES ASSUME TypeOK, [Next]_vars PROVE TypeOK'
  OBVIOUS
<1>t. /\ IndexInv /\ candidates \in Seq(Candidate) /\ errors \in Seq(Files)
      /\ Len(candidates) \in Nat /\ turn \in Nat
  BY DEF TypeOK, IndexInv, IndexEntry, Candidate
<1>1. ASSUME NEW n \in Inodes, NEW c \in Contents, Change(n, c) PROVE TypeOK'
  BY <1>1, LoadingAssumption DEF Change, TypeOK, report
<1>2. CASE ReadDir \/ ScanDone \/ ReadDone \/ ValidateDone \/ UNCHANGED vars
  <2>1. phase' \in {"scan", "read", "validate", "done"}
    BY <1>2 DEF ReadDir, ScanDone, ReadDone, ValidateDone, vars, TypeOK
  <2>2. \A i \in 1 .. Len(index) : index[i].path \in Files
    <3>1. \A i \in 1 .. Len(index) : index[i] \in IndexEntry
      BY <1>t DEF IndexInv
    <3>. QED
      BY <3>1 DEF IndexEntry
  <2>3. todo' \subseteq Files /\ listed' \subseteq Files
    BY <1>2, <2>2 DEF ReadDir, ScanDone, ReadDone, ValidateDone, vars, TypeOK
  <2>5. scanned' \in 0 .. Directories
    <3>1. CASE ReadDir
      <4>1. scanned \in 0 .. Directories /\ Directories \in Nat
        BY LoadingAssumption DEF TypeOK
      <4>2. scanned < Directories /\ scanned' = scanned + 1
        BY <3>1 DEF ReadDir
      <4>. QED
        BY <4>1, <4>2
    <3>2. CASE ~ReadDir
      BY <1>2, <3>2 DEF ScanDone, ReadDone, ValidateDone, vars, TypeOK
    <3>. QED
      BY <3>1, <3>2
  <2>4. UNCHANGED <<disk, changes, index, duplicates, candidates, errors, valid, invalid, turn>>
    BY <1>2 DEF ReadDir, ScanDone, ReadDone, ValidateDone, vars, report
  <2>. QED
    BY <2>1, <2>3, <2>4, <2>5 DEF TypeOK
<1>3. ASSUME NEW f \in Files, DiscoverOne(f) PROVE TypeOK'
  <2>1. UNCHANGED <<disk, changes, phase, scanned, candidates, valid, invalid, turn, listed>> /\ todo' \subseteq Files
    BY <1>3 DEF DiscoverOne, TypeOK
  <2>2. OnDisk(f) \in Contents
    BY LoadingAssumption DEF TypeOK, OnDisk
  <2>3. CASE OnDisk(f).kind = "package"
    <3>1. IndexInv' /\ duplicates' \subseteq Files /\ UNCHANGED errors
      BY <1>3, <1>t, <2>2, <2>3, PackageContent, InsertType DEF DiscoverOne, TypeOK
    <3>. QED
      BY <2>1, <3>1 DEF TypeOK, IndexInv, IndexEntry
  <2>4. CASE OnDisk(f).kind # "package"
    <3>1. errors' \in Seq(Files) /\ UNCHANGED <<index, duplicates>>
      BY <1>3, <1>t, <2>4, Pushed DEF DiscoverOne
    <3>. QED
      BY <2>1, <3>1 DEF TypeOK
  <2>. QED
    BY <2>3, <2>4
<1>4. ASSUME NEW f \in Files, ReadOne(f) PROVE TypeOK'
  <2>1. UNCHANGED <<disk, changes, phase, scanned, index, duplicates, valid, invalid, turn, listed>> /\ todo' \subseteq Files
    BY <1>4 DEF ReadOne, TypeOK
  <2>2. [path |-> f, data |-> OnDisk(f)] \in Candidate
    BY LoadingAssumption DEF TypeOK, Candidate, OnDisk
  <2>3. CASE OnDisk(f) # Absent
    <3>1. candidates' = Append(candidates, [path |-> f, data |-> OnDisk(f)]) /\ UNCHANGED errors
      BY <1>4, <2>3 DEF ReadOne
    <3>2. /\ candidates' \in Seq(Candidate) /\ Len(candidates') = Len(candidates) + 1
          /\ \A i \in 1 .. Len(candidates) : candidates'[i] = candidates[i]
      BY <1>t, <2>2, <3>1, Pushed
    <3>3. Range(candidates) \subseteq Range(candidates')
      BY <1>t, <3>2 DEF Range
    <3>4. turn \in 0 .. Len(candidates') /\ valid \subseteq Range(candidates') /\ invalid \subseteq Range(candidates')
      BY <1>t, <3>2, <3>3 DEF TypeOK
    <3>. QED
      BY <2>1, <3>1, <3>2, <3>4 DEF TypeOK, Candidate
  <2>4. CASE OnDisk(f) = Absent
    <3>1. errors' \in Seq(Files) /\ UNCHANGED candidates
      BY <1>4, <1>t, <2>4, Pushed DEF ReadOne
    <3>. QED
      BY <2>1, <3>1 DEF TypeOK
  <2>. QED
    BY <2>3, <2>4
<1>5. CASE ValidateOne
  <2>. DEFINE c == candidates[turn']
  <2>1. /\ turn' = turn + 1 /\ turn' \in 1 .. Len(candidates)
        /\ UNCHANGED <<disk, changes, phase, scanned, todo, index, duplicates, candidates, listed>>
    BY <1>5, <1>t DEF ValidateOne
  <2>2. c \in Range(candidates) /\ c.path \in Files
    <3>1. c \in Candidate /\ turn' \in DOMAIN candidates
      BY <1>t, <2>1
    <3>. QED
      BY <3>1 DEF Range, Candidate
  <2>3. Append(errors, c.path) \in Seq(Files)
    BY <1>t, <2>2
  <2>4. /\ valid' = valid \/ valid' = valid \cup {c}
        /\ invalid' = invalid \/ invalid' = invalid \cup {c}
        /\ errors' = errors \/ errors' = Append(errors, c.path)
    BY <1>5 DEF ValidateOne
  <2>. HIDE DEF c
  <2>5. valid' \subseteq Range(candidates) /\ invalid' \subseteq Range(candidates) /\ errors' \in Seq(Files)
    BY <1>t, <2>2, <2>3, <2>4 DEF TypeOK
  <2>6. turn' \in 0 .. Len(candidates)
    BY <1>t, <2>1
  <2>. QED
    BY <2>1, <2>5, <2>6 DEF TypeOK
<1>. QED
  BY <1>1, <1>2, <1>3, <1>4, <1>5 DEF Next

(* Whatever the files hold, and however they change, the load is well typed, *)
(* and its index holds no name and version twice.                          *)
THEOREM LoadTypes == Spec => []TypeOK
BY InitType, NextType, PTL DEF Spec
-----------------------------------------------------------------------------
(* Verdicts: once the files have been read, the packages that opened and   *)
(* the index no longer change, and neither do the conflicts among them.    *)

VerdictInv ==
  /\ phase \in {"scan", "read"} => valid = {} /\ invalid = {} /\ turn = 0
  /\ phase = "done" => turn = Len(candidates)
  /\ \A c \in valid : IsValid(c.data.manifest) /\ \E i \in Opened : i <= turn /\ c = candidates[i]
  /\ \A c \in invalid : ~IsValid(c.data.manifest) /\ \E i \in Opened : i <= turn /\ c = candidates[i]

(* A verdict depends on what was read and on the index alone. *)
LEMMA VerdictStays ==
  ASSUME UNCHANGED <<candidates, index>>
  PROVE  Opened' = Opened /\ \A m : IsValid(m)' <=> IsValid(m)
<1>1. Opened' = Opened /\ AllManifests' = AllManifests
  BY DEF Opened, AllManifests
<1>2. Range(AllManifests)' = Range(AllManifests)
  BY <1>1
<1>3. \A d : Requirements(d)' = Requirements(d)
  BY <1>2 DEF Requirements, Requirement
<1>4. \A d : Versions(d)' = Versions(d)
  BY DEF Versions
<1>5. \A d : Satisfying(d)' = Satisfying(d)
  BY <1>3, <1>4 DEF Satisfying
<1>6. Required' = Required
  BY <1>2 DEF Required
<1>7. Unresolved' = Unresolved
  BY <1>3, <1>5, <1>6 DEF Unresolved, Resolved, UnavailableOptional
<1>8. Conflicts' = Conflicts
  BY <1>2, <1>3, <1>4, <1>7 DEF Conflicts
<1>. QED
  BY <1>1, <1>8 DEF IsValid

LEMMA InitVerdict == Init => VerdictInv
BY DEF Init, VerdictInv

(* A verdict is passed once per candidate, and is the same ever after.     *)
LEMMA NextVerdict == TypeOK /\ VerdictInv /\ [Next]_vars => VerdictInv'
<1>. SUFFICES ASSUME TypeOK, VerdictInv, [Next]_vars PROVE VerdictInv'
  OBVIOUS
<1>t. Len(candidates) \in Nat /\ turn \in Nat
  BY DEF TypeOK
<1>1. CASE /\ phase \in {"scan", "read"} /\ phase' \in {"scan", "read", "validate"}
           /\ UNCHANGED <<valid, invalid, turn>>
  BY <1>1 DEF VerdictInv
<1>2. CASE /\ UNCHANGED <<candidates, index, valid, invalid, turn>>
           /\ \/ phase' = phase
              \/ phase = "validate" /\ phase' = "done" /\ turn = Len(candidates)
  <2>1. Opened' = Opened /\ \A m : IsValid(m)' <=> IsValid(m)
    BY <1>2, VerdictStays
  <2>. QED
    BY <1>2, <2>1 DEF VerdictInv
<1>3. CASE ValidateOne
  <2>. DEFINE c == candidates[turn']
  <2>1. Opened' = Opened /\ \A m : IsValid(m)' <=> IsValid(m)
    BY <1>3, VerdictStays DEF ValidateOne
  <2>2. /\ turn' = turn + 1 /\ turn' \in 1 .. Len(candidates) /\ UNCHANGED <<phase, candidates>>
        /\ phase = "validate"
    BY <1>3, <1>t DEF ValidateOne
  <2>3. \/ /\ IsValid(c.data.manifest) /\ turn' \in Opened
           /\ valid' = valid \cup {c} /\ invalid' = invalid
        \/ /\ ~IsValid(c.data.manifest) /\ turn' \in Opened
           /\ invalid' = invalid \cup {c} /\ valid' = valid
        \/ invalid' = invalid /\ valid' = valid
    BY <1>3, <2>2 DEF ValidateOne, Opened
  <2>4. \A i \in Opened : i <= turn => i <= turn'
    BY <1>t, <2>2 DEF Opened
  <2>5. c = candidates'[turn'] /\ turn' <= turn'
    BY <2>2
  <2>. HIDE DEF c
  <2>6. \A x \in valid' : IsValid(x.data.manifest) /\ \E i \in Opened : i <= turn' /\ x = candidates'[i]
    BY <2>2, <2>3, <2>4, <2>5 DEF VerdictInv
  <2>7. \A x \in invalid' : ~IsValid(x.data.manifest) /\ \E i \in Opened : i <= turn' /\ x = candidates'[i]
    BY <2>2, <2>3, <2>4, <2>5 DEF VerdictInv
  <2>. QED
    BY <2>1, <2>2, <2>6, <2>7 DEF VerdictInv
<1>4. CASE UNCHANGED vars \/ \E n \in Inodes, x \in Contents : Change(n, x)
  BY <1>2, <1>4 DEF vars, Change, report
<1>5. CASE ReadDir \/ ScanDone \/ ReadDone
  BY <1>1, <1>5 DEF ReadDir, ScanDone, ReadDone, report
<1>6. ASSUME NEW f \in Files, DiscoverOne(f) \/ ReadOne(f) PROVE VerdictInv'
  BY <1>1, <1>6 DEF DiscoverOne, ReadOne
<1>7. CASE ValidateDone
  BY <1>2, <1>7 DEF ValidateDone, report
<1>. QED
  BY <1>3, <1>4, <1>5, <1>6, <1>7 DEF Next

(* A dependency is unresolved when no version suits everybody and somebody *)
(* cannot do without.                                                      *)
LEMMA UnresolvedMeans ==
  ASSUME NEW d
  PROVE  d \in Unresolved <=> /\ d \in Required /\ Satisfying(d) = {}
                             /\ \E r \in Requirements(d) : ~r.optional
BY DEF Unresolved, Resolved, UnavailableOptional

(* A package is valid unless its platform, an API of its name, or an       *)
(* unresolved dependency its name requires speaks against it.              *)
LEMMA ValidMeans ==
  ASSUME NEW m
  PROVE  IsValid(m) <=>
           /\ PlatformSupported(m)
           /\ \A d \in Unresolved : \A r \in Requirements(d) : r.requirer # m.name
           /\ \A n \in Range(AllManifests) : ~IsCompatible(RuntimeApi, n.api) => n.name # m.name
<1>. DEFINE Lacking(d) == Conflict(IF Versions(d) = {} THEN "MissingDependency" ELSE "IncompatibleVersions",
                                   d, {r.requirer : r \in Requirements(d)})
            TooOld(n) == Conflict("IncompatibleApiVersion", n.name, {n.name})
<1>1. /\ \A d : Lacking(d).parties = {r.requirer : r \in Requirements(d)}
      /\ \A n : TooOld(n).parties = {n.name}
  BY DEF Conflict
<1>2. \A c : c \in Conflicts <=>
        \/ \E d \in Unresolved : c = Lacking(d)
        \/ \E n \in Range(AllManifests) : ~IsCompatible(RuntimeApi, n.api) /\ c = TooOld(n)
  BY DEF Conflicts
<1>. HIDE DEF Lacking, TooOld
<1>3. (\A c \in Conflicts : m.name \notin c.parties) <=>
        /\ \A d \in Unresolved : m.name \notin {r.requirer : r \in Requirements(d)}
        /\ \A n \in Range(AllManifests) : ~IsCompatible(RuntimeApi, n.api) => m.name # n.name
  BY <1>1, <1>2
<1>. QED
  BY <1>3 DEF IsValid, ConflictInvolves

(* The manifests of the candidates that open.                              *)
LEMMA OpenedManifest ==
  ASSUME NEW i \in Opened
  PROVE  candidates[i].data.manifest \in Range(AllManifests)
BY DEF AllManifests, Range

(* A package that requires d is one of its requirers.                      *)
LEMMA RequirerOf ==
  ASSUME NEW m \in Range(AllManifests), NEW d \in DOMAIN m.deps
  PROVE  d \in Required /\ Requirement(m, d) \in Requirements(d)
         /\ Requirement(m, d).requirer = m.name /\ Requirement(m, d).req = m.deps[d].req
         /\ Requirement(m, d).optional = m.deps[d].optional
BY DEF Required, Requirements, Requirement

(* The packages loaded together agree on their dependencies.               *)
LEMMA ValidAgree == TypeOK /\ VerdictInv => LoadedAgree
<1>. SUFFICES ASSUME TypeOK, VerdictInv,
                     NEW d \in UNION {DOMAIN c.data.manifest.deps : c \in valid}
              PROVE  LET users == {m \in Range(AllManifests) : d \in DOMAIN m.deps}
                     IN  \/ \E v \in 1 .. MaxVersion :
                              /\ \E i \in 1 .. Len(index) : index[i].name = d /\ index[i].version = v
                              /\ \A m \in users : v \in m.deps[d].req
                         \/ \A m \in users : m.deps[d].optional
  BY DEF LoadedAgree
<1>. DEFINE users == {m \in Range(AllManifests) : d \in DOMAIN m.deps}
<1>1. \A m \in users : m \in Range(AllManifests) /\ d \in DOMAIN m.deps
  OBVIOUS
<1>2. PICK u \in users : IsValid(u)
  BY OpenedManifest DEF VerdictInv
<1>. HIDE DEF users
<1>3. /\ d \in Required
      /\ \A m \in users : /\ Requirement(m, d) \in Requirements(d) /\ Requirement(m, d).requirer = m.name
                          /\ Requirement(m, d).req = m.deps[d].req
                          /\ Requirement(m, d).optional = m.deps[d].optional
  BY <1>1, <1>2, RequirerOf
<1>4. CASE Satisfying(d) # {}
  <2>1. PICK v \in Versions(d) : \A r \in Requirements(d) : v \in r.req
    BY <1>4 DEF Satisfying
  <2>2. PICK i \in 1 .. Len(index) : index[i].name = d /\ index[i].version = v
    BY <2>1 DEF Versions
  <2>3. v \in 1 .. MaxVersion
    <3>1. index \in Seq(IndexEntry)
      BY DEF TypeOK, IndexEntry
    <3>2. index[i] \in IndexEntry
      BY <2>2, <3>1
    <3>. QED
      BY <2>2, <3>2 DEF IndexEntry
  <2>. QED
    BY <1>3, <2>1, <2>2, <2>3 DEF users
<1>5. CASE Satisfying(d) = {}
  <2>1. d \notin Unresolved
    BY <1>1, <1>2, <1>3, ValidMeans
  <2>2. \A r \in Requirements(d) : r.optional
    BY <1>3, <1>5, <2>1, UnresolvedMeans
  <2>. QED
    BY <1>3, <2>2 DEF users
<1>. QED
  BY <1>4, <1>5

(* A non-empty set of naturals has a least element.                        *)
LEMMA HasLeast ==
  ASSUME NEW S, S \subseteq Nat, S # {}
  PROVE  \E x \in S : \A y \in S : x <= y
<1>. DEFINE R == OpToRel(<, Nat)
<1>1. \A x, y \in Nat : x < y => <<x, y>> \in R
  BY DEF OpToRel
<1>2. IsWellFoundedOn(R, Nat)
  BY NatLessThanWellFounded, Zenon
<1>. HIDE DEF R
<1>3. PICK x \in S : \A y \in S : ~(<<y, x>> \in R)
  BY <1>2, WFMin
<1>4. \A y \in S : ~(y < x)
  BY <1>1, <1>3, Zenon
<1>. QED
  BY <1>4

(* The package fallback::resolve settles on is the first of its kind.      *)
LEMMA FirstOfOpened ==
  ASSUME NEW S \in SUBSET Opened, S # {}
  PROVE  FirstOf(S) \in S
<1>1. S \subseteq Nat
  BY DEF Opened
<1>2. \E i \in S : \A j \in S : i <= j
  BY <1>1, HasLeast
<1>. QED
  BY <1>2 DEF FirstOf

(* The choice among API versions accepts what validation accepts.          *)
LEMMA ValidCompatible == TypeOK /\ VerdictInv => FallbackIsLast
<1>. SUFFICES ASSUME TypeOK, VerdictInv, NEW fallback \in {NoFallback, 9}
              PROVE  LET r == Resolve(RuntimeApi, fallback)
                         named == {m.api : m \in {n \in Range(AllManifests) : n.name = r.name}}
                     IN  IF r.kind \in {"Fallback", "Incompatible"} THEN valid = {}
                         ELSE \E api \in named :
                                  /\ api.major = RuntimeApi.major /\ api.minor >= RuntimeApi.minor
                                  /\ (\E m \in Range(AllManifests) : m.api = RuntimeApi) => api = RuntimeApi
  BY DEF FallbackIsLast
<1>. DEFINE exact == {i \in Opened : AllManifests[i].api = RuntimeApi}
            compatible == {i \in Opened : IsCompatible(RuntimeApi, AllManifests[i].api)}
            r == Resolve(RuntimeApi, fallback)
            M == Range(AllManifests)
<1>1. \A i \in Opened : AllManifests[i] \in M
  BY DEF AllManifests, Range
<1>2. \A m \in M : \E i \in Opened : m = AllManifests[i]
  BY DEF AllManifests, Range
<1>3. RuntimeApi.minor >= RuntimeApi.minor
  BY LoadingAssumption DEF ApiVersion
<1>4. CASE exact # {}
  <2>1. FirstOf(exact) \in exact
    BY <1>4, FirstOfOpened
  <2>. DEFINE m == AllManifests[FirstOf(exact)]
  <2>2. m \in M /\ m.api = RuntimeApi /\ r.kind = "ExactMatch" /\ r.name = m.name
    BY <1>1, <1>4, <2>1 DEF Resolve, Resolution
  <2>. HIDE DEF m, r
  <2>. QED
    BY <1>3, <2>2 DEF r
<1>5. CASE exact = {} /\ compatible # {}
  <2>1. FirstOf(compatible) \in compatible
    BY <1>5, FirstOfOpened
  <2>. DEFINE m == AllManifests[FirstOf(compatible)]
  <2>2. /\ m \in M /\ m.api.major = RuntimeApi.major /\ m.api.minor >= RuntimeApi.minor
        /\ r.kind = "CompatibleVersion" /\ r.name = m.name
    BY <1>1, <1>5, <2>1 DEF Resolve, Resolution, IsCompatible
  <2>3. ~ \E n \in M : n.api = RuntimeApi
    BY <1>2, <1>5
  <2>. HIDE DEF m, r
  <2>. QED
    BY <2>2, <2>3 DEF r
<1>6. CASE exact = {} /\ compatible = {}
  <2>1. r.kind \in {"Fallback", "Incompatible"}
    BY <1>6 DEF Resolve, Resolution
  <2>2. ASSUME NEW c \in valid PROVE FALSE
    <3>1. PICK i \in Opened : c = candidates[i] /\ IsValid(c.data.manifest)
      BY DEF VerdictInv
    <3>2. AllManifests[i] = c.data.manifest /\ AllManifests[i] \in M
      BY <1>1, <3>1 DEF AllManifests
    <3>3. ~IsCompatible(RuntimeApi, c.data.manifest.api)
      BY <1>6, <3>2
    <3>. QED
      BY <3>1, <3>2, <3>3, ValidMeans
  <2>. QED
    BY <2>1, <2>2
<1>. QED
  BY <1>4, <1>5, <1>6

(* The packages loaded agree on one version of each dependency, and on the *)
(* API of the Runtime: validation and the resolvers never disagree.        *)
THEOREM LoadedFit == Spec => []LoadedFits
<1>1. TypeOK /\ VerdictInv => LoadedFits
  BY ValidAgree, ValidCompatible DEF LoadedFits
<1>. QED
  BY <1>1, InitType, NextType, InitVerdict, NextVerdict, PTL DEF Spec

(* A package whose part in a conflict nothing blurs is rejected only for a  *)
(* fault it is party to.                                                   *)
THEOREM Spared == Spec => []UnrelatedSpared
<1>1. ASSUME TypeOK, VerdictInv, NEW c \in invalid, Unambiguous(c.data.manifest)
      PROVE  LET m == c.data.manifest
             IN  \/ ~PlatformSupported(m)
                 \/ ~IsCompatible(RuntimeApi, m.api)
                 \/ \E d \in DOMAIN m.deps :
                       /\ ~m.deps[d].optional
                       /\ \A v \in 1 .. MaxVersion :
                           \/ \A i \in 1 .. Len(index) : index[i].name # d \/ index[i].version # v
                           \/ \E o \in Range(AllManifests) : d \in DOMAIN o.deps /\ v \notin o.deps[d].req
  <2>. DEFINE m == c.data.manifest
  <2>1. ~IsValid(m)
    BY <1>1 DEF VerdictInv
  <2>2. \A n \in Range(AllManifests) : n.name = m.name => n = m
    BY <1>1 DEF Unambiguous
  <2>3. CASE \E d \in Unresolved : \E r \in Requirements(d) : r.requirer = m.name
    <3>0. PICK d \in Unresolved : \E r \in Requirements(d) : r.requirer = m.name
      BY <2>3
    <3>1. PICK r \in Requirements(d) : r.requirer = m.name
      BY <3>0
    <3>2. PICK n \in Range(AllManifests) : d \in DOMAIN n.deps /\ r = Requirement(n, d)
      BY DEF Requirements
    <3>3. n = m
      BY <2>2, <3>1, <3>2, RequirerOf
    <3>4. ~m.deps[d].optional
      <4>1. PICK q \in Requirements(d) : ~q.optional
        BY UnresolvedMeans
      <4>2. PICK o \in Range(AllManifests) : d \in DOMAIN o.deps /\ q = Requirement(o, d)
        BY DEF Requirements
      <4>3. ~o.deps[d].optional
        BY <4>1, <4>2, RequirerOf
      <4>. QED
        BY <1>1, <3>2, <3>3, <4>2, <4>3 DEF Unambiguous
    <3>5. ASSUME NEW v \in 1 .. MaxVersion, NEW i \in 1 .. Len(index),
                 index[i].name = d, index[i].version = v
          PROVE  \E o \in Range(AllManifests) : d \in DOMAIN o.deps /\ v \notin o.deps[d].req
      <4>1. v \in Versions(d)
        BY <3>5 DEF Versions
      <4>2. Satisfying(d) = {}
        BY UnresolvedMeans
      <4>3. PICK q \in Requirements(d) : v \notin q.req
        BY <4>1, <4>2 DEF Satisfying
      <4>4. PICK o \in Range(AllManifests) : d \in DOMAIN o.deps /\ q = Requirement(o, d)
        BY DEF Requirements
      <4>. QED
        BY <4>3, <4>4, RequirerOf
    <3>. QED
      BY <3>2, <3>3, <3>4, <3>5
  <2>. QED
    BY <2>1, <2>2, <2>3, ValidMeans
<1>2. TypeOK /\ VerdictInv => UnrelatedSpared
  BY <1>1 DEF UnrelatedSpared
<1>. QED
  BY <1>2, InitType, NextType, InitVerdict, NextVerdict, PTL DEF Spec
-----------------------------------------------------------------------------
(* Where each file of the listing stands: it waits for its turn in the     *)
(* loop under way, or it ended as an error, a duplicate or a verdict.      *)

Paths(s) == {s[i].path : i \in 1 .. Len(s)}
Failing == {errors[i] : i \in 1 .. Len(errors)}
Ahead == {candidates[i].path : i \in turn + 1 .. Len(candidates)}
Judged == {c.path : c \in valid \cup invalid}
Waiting ==
  IF phase = "scan" THEN todo \cup Paths(index)
  ELSE IF phase = "read" THEN todo \cup Paths(candidates) ELSE Ahead

Sorted ==
  /\ listed = Waiting \cup Failing \cup duplicates \cup Judged
  /\ Waiting \cap (Failing \cup duplicates \cup Judged) = {}
  /\ Failing \cap (duplicates \cup Judged) = {} /\ duplicates \cap Judged = {}

OnceInErrors == \A i, j \in 1 .. Len(errors) : errors[i] = errors[j] => i = j
OnceInCandidates ==
  \A i, j \in 1 .. Len(candidates) : candidates[i].path = candidates[j].path => i = j

(* The inductive invariant behind EveryFileAccounted.                      *)
PlaceInv ==
  /\ Sorted /\ OnceInErrors /\ OnceInCandidates
  /\ phase = "scan" => /\ candidates = <<>> /\ todo \cap Paths(index) = {}
                       /\ \A f \in listed : DirOf[f] <= scanned
  /\ phase = "read" => todo \cap Paths(candidates) = {}

(* A file that waited and moves to one other place leaves the rest sorted. *)
LEMMA SortOne ==
  ASSUME Sorted, listed' = listed, NEW f \in Waiting, Waiting' = Waiting \ {f},
         \/ Failing' = Failing \cup {f} /\ duplicates' = duplicates /\ Judged' = Judged
         \/ duplicates' = duplicates \cup {f} /\ Failing' = Failing /\ Judged' = Judged
         \/ Judged' = Judged \cup {f} /\ Failing' = Failing /\ duplicates' = duplicates
  PROVE  Sorted'
BY DEF Sorted

(* What pushing a path that was not there does to the errors. *)
LEMMA PushError ==
  ASSUME TypeOK, OnceInErrors, NEW f \in Files, f \notin Failing, errors' = Append(errors, f)
  PROVE  Failing' = Failing \cup {f} /\ OnceInErrors'
<1>1. /\ Len(errors') = Len(errors) + 1 /\ Len(errors) \in Nat
      /\ \A i \in 1 .. Len(errors) + 1 : errors'[i] = IF i = Len(errors) + 1 THEN f ELSE errors[i]
      /\ 1 .. Len(errors) + 1 = (1 .. Len(errors)) \cup {Len(errors) + 1}
      /\ Len(errors) + 1 \notin 1 .. Len(errors)
  BY Pushed DEF TypeOK
<1>. QED
  BY <1>1 DEF Failing, OnceInErrors

(* And what pushing a candidate does to theirs.                            *)
LEMMA PushPath ==
  ASSUME NEW T, NEW s \in Seq(T), NEW x \in T
  PROVE  /\ Paths(Append(s, x)) = Paths(s) \cup {x.path}
         /\ (\A i, j \in 1 .. Len(s) : s[i].path = s[j].path => i = j) /\ x.path \notin Paths(s) =>
              \A i, j \in 1 .. Len(Append(s, x)) :
                 Append(s, x)[i].path = Append(s, x)[j].path => i = j
<1>. DEFINE t == Append(s, x)
<1>1. /\ Len(t) = Len(s) + 1
      /\ \A i \in 1 .. Len(s) + 1 : t[i] = IF i = Len(s) + 1 THEN x ELSE s[i]
      /\ 1 .. Len(s) + 1 = (1 .. Len(s)) \cup {Len(s) + 1}
      /\ Len(s) + 1 \notin 1 .. Len(s)
  BY Pushed
<1>. HIDE DEF t
<1>2. Paths(t) = Paths(s) \cup {x.path}
  BY <1>1 DEF Paths
<1>3. ASSUME \A i, j \in 1 .. Len(s) : s[i].path = s[j].path => i = j, x.path \notin Paths(s)
      PROVE  \A i, j \in 1 .. Len(t) : t[i].path = t[j].path => i = j
  BY <1>1, <1>3 DEF Paths
<1>. QED
  BY <1>2, <1>3 DEF t

(* The empty sequence names no path.                                       *)
LEMMA NoPaths == Paths(<<>>) = {}
BY DEF Paths

LEMMA InitPlace == Init => PlaceInv
BY NoPaths DEF Init, PlaceInv, Sorted, Waiting, Failing, Judged, OnceInErrors, OnceInCandidates

(* The scan sorts one listed file at a time. *)
LEMMA DiscoverPlace ==
  ASSUME TypeOK, VerdictInv, PlaceInv, NEW f \in Files, DiscoverOne(f)
  PROVE  PlaceInv'
<1>1. /\ phase = "scan" /\ f \in todo /\ f \notin Paths(index) /\ todo' = todo \ {f}
      /\ UNCHANGED <<phase, scanned, candidates, valid, invalid, listed>>
      /\ candidates = <<>> /\ todo \cap Paths(index) = {}
  BY DEF DiscoverOne, PlaceInv
<1>2. /\ f \in Waiting /\ Waiting = todo \cup Paths(index) /\ Waiting' = todo' \cup Paths(index)'
      /\ Judged' = Judged /\ OnceInCandidates'
  BY <1>1 DEF Waiting, Judged, PlaceInv, OnceInCandidates
<1>3. CASE OnDisk(f).kind # "package"
  <2>1. errors' = Append(errors, f) /\ UNCHANGED <<index, duplicates>>
    BY <1>3 DEF DiscoverOne
  <2>2. Failing' = Failing \cup {f} /\ OnceInErrors'
    BY <1>2, <2>1, PushError DEF PlaceInv, Sorted
  <2>3. Sorted'
    BY <1>1, <1>2, <2>1, <2>2, SortOne DEF PlaceInv
  <2>. QED
    BY <1>1, <1>2, <2>1, <2>2, <2>3 DEF PlaceInv
<1>4. CASE OnDisk(f).kind = "package" /\ Indexed(OnDisk(f).manifest)
  <2>1. UNCHANGED <<errors, index>> /\ duplicates' = duplicates \cup {f}
    BY <1>4 DEF DiscoverOne, Insert
  <2>2. Failing' = Failing /\ OnceInErrors'
    BY <2>1 DEF PlaceInv, Failing, OnceInErrors
  <2>3. Sorted'
    BY <1>1, <1>2, <2>1, <2>2, SortOne DEF PlaceInv
  <2>. QED
    BY <1>1, <1>2, <2>1, <2>2, <2>3 DEF PlaceInv
<1>5. CASE OnDisk(f).kind = "package" /\ ~Indexed(OnDisk(f).manifest)
  <2>. DEFINE e == Discovered(f, OnDisk(f).manifest)
  <2>1. UNCHANGED <<errors, duplicates>> /\ index' = Append(index, e) /\ e.path = f
    BY <1>5 DEF DiscoverOne, Insert, Discovered
  <2>2. e \in IndexEntry /\ index \in Seq(IndexEntry)
    <3>1. OnDisk(f).manifest \in Manifests /\ IsManifest(OnDisk(f).manifest)
      BY <1>5, PackageContent, LoadingAssumption DEF TypeOK, OnDisk
    <3>. QED
      BY <3>1 DEF TypeOK, IndexEntry, Discovered, IsManifest
  <2>. HIDE DEF e
  <2>3. Paths(index)' = Paths(index) \cup {f}
    <3>1. Paths(Append(index, e)) = Paths(index) \cup {f}
      BY <2>1, <2>2, PushPath
    <3>. QED
      BY <2>1, <3>1 DEF Paths
  <2>4. Waiting' = Waiting /\ todo' \cap Paths(index)' = {}
    BY <1>1, <1>2, <2>3
  <2>5. Failing' = Failing /\ OnceInErrors'
    BY <2>1 DEF PlaceInv, Failing, OnceInErrors
  <2>. QED
    BY <1>1, <1>2, <2>1, <2>4, <2>5 DEF PlaceInv, Sorted
<1>. QED
  BY <1>3, <1>4, <1>5

(* The second read keeps a file waiting, or makes it an error. *)
LEMMA ReadPlace ==
  ASSUME TypeOK, VerdictInv, PlaceInv, NEW f \in Files, ReadOne(f)
  PROVE  PlaceInv'
<1>1. /\ phase = "read" /\ f \in todo /\ todo' = todo \ {f}
      /\ UNCHANGED <<phase, index, duplicates, valid, invalid, listed>>
      /\ todo \cap Paths(candidates) = {} /\ f \notin Paths(candidates)
  BY DEF ReadOne, PlaceInv
<1>2. /\ f \in Waiting /\ Waiting = todo \cup Paths(candidates)
      /\ Waiting' = todo' \cup Paths(candidates)' /\ Judged' = Judged
  BY <1>1 DEF Waiting, Judged
<1>3. CASE OnDisk(f) = Absent
  <2>1. errors' = Append(errors, f) /\ UNCHANGED candidates
    BY <1>3 DEF ReadOne
  <2>2. Failing' = Failing \cup {f} /\ OnceInErrors'
    BY <1>2, <2>1, PushError DEF PlaceInv, Sorted
  <2>3. Sorted' /\ OnceInCandidates'
    BY <1>1, <1>2, <2>1, <2>2, SortOne DEF PlaceInv, OnceInCandidates
  <2>. QED
    BY <1>1, <1>2, <2>1, <2>2, <2>3 DEF PlaceInv
<1>4. CASE OnDisk(f) # Absent
  <2>. DEFINE e == [path |-> f, data |-> OnDisk(f)]
  <2>1. UNCHANGED errors /\ candidates' = Append(candidates, e) /\ e.path = f
    BY <1>4 DEF ReadOne
  <2>2. e \in Candidate /\ candidates \in Seq(Candidate)
    BY LoadingAssumption DEF TypeOK, Candidate, OnDisk
  <2>. HIDE DEF e
  <2>3. Paths(candidates)' = Paths(candidates) \cup {f} /\ OnceInCandidates'
    <3>1. /\ Paths(Append(candidates, e)) = Paths(candidates) \cup {f}
          /\ \A i, j \in 1 .. Len(Append(candidates, e)) :
                 Append(candidates, e)[i].path = Append(candidates, e)[j].path => i = j
      BY <1>1, <2>1, <2>2, PushPath DEF PlaceInv, OnceInCandidates
    <3>. QED
      BY <2>1, <3>1 DEF Paths, OnceInCandidates
  <2>4. Waiting' = Waiting /\ todo' \cap Paths(candidates)' = {}
    BY <1>1, <1>2, <2>3
  <2>5. Failing' = Failing /\ OnceInErrors'
    BY <2>1 DEF PlaceInv, Failing, OnceInErrors
  <2>. QED
    BY <1>1, <1>2, <2>3, <2>4, <2>5 DEF PlaceInv, Sorted
<1>. QED
  BY <1>3, <1>4

(* A validation sorts the next candidate, and no other. *)
LEMMA ValidatePlace ==
  ASSUME TypeOK, VerdictInv, PlaceInv, ValidateOne
  PROVE  PlaceInv'
<1>. DEFINE c == candidates[turn']
            n == Len(candidates)
<1>1. /\ phase = "validate" /\ turn' = turn + 1 /\ turn \in Nat /\ n \in Nat /\ turn' \in 1 .. n
      /\ UNCHANGED <<phase, todo, index, duplicates, candidates, listed>>
  BY DEF ValidateOne, TypeOK
<1>2. candidates \in Seq(Candidate) /\ c \in Candidate /\ c.path \in Files
  <2>1. candidates \in Seq(Candidate)
    BY DEF TypeOK, Candidate
  <2>2. c \in Candidate
    BY <1>1, <2>1
  <2>. QED
    BY <2>1, <2>2 DEF Candidate
<1>3. /\ c.path \in Waiting /\ Waiting' = Waiting \ {c.path}
  <2>1. turn + 1 .. n = {turn'} \cup (turn' + 1 .. n) /\ turn' \notin turn' + 1 .. n
        /\ turn + 1 .. n \subseteq 1 .. n
    BY <1>1
  <2>2. Ahead = {c.path} \cup {candidates[i].path : i \in turn' + 1 .. n}
    BY <2>1 DEF Ahead
  <2>3. c.path \notin {candidates[i].path : i \in turn' + 1 .. n}
    BY <1>1, <2>1 DEF PlaceInv, OnceInCandidates
  <2>4. Ahead' = {candidates[i].path : i \in turn' + 1 .. n}
    BY <1>1 DEF Ahead
  <2>5. Waiting = Ahead /\ Waiting' = Ahead'
    BY <1>1 DEF Waiting
  <2>. QED
    BY <2>2, <2>3, <2>4, <2>5
<1>4. \/ valid' = valid \cup {c} /\ UNCHANGED <<invalid, errors>>
      \/ invalid' = invalid \cup {c} /\ UNCHANGED <<valid, errors>>
      \/ errors' = Append(errors, c.path) /\ UNCHANGED <<valid, invalid>>
  BY DEF ValidateOne
<1>. HIDE DEF c
<1>5. CASE errors' = Append(errors, c.path) /\ UNCHANGED <<valid, invalid>>
  <2>1. Failing' = Failing \cup {c.path} /\ OnceInErrors' /\ Judged' = Judged
    BY <1>2, <1>3, <1>5, PushError DEF PlaceInv, Sorted, Judged
  <2>2. Sorted'
    BY <1>1, <1>3, <2>1, SortOne DEF PlaceInv
  <2>. QED
    BY <1>1, <2>1, <2>2 DEF PlaceInv, OnceInCandidates
<1>6. CASE UNCHANGED errors /\ valid' \cup invalid' = valid \cup invalid \cup {c}
  <2>1. Failing' = Failing /\ OnceInErrors' /\ Judged' = Judged \cup {c.path}
    BY <1>6 DEF PlaceInv, Failing, OnceInErrors, Judged
  <2>2. Sorted'
    BY <1>1, <1>3, <2>1, SortOne DEF PlaceInv
  <2>. QED
    BY <1>1, <2>1, <2>2 DEF PlaceInv, OnceInCandidates
<1>. QED
  BY <1>4, <1>5, <1>6

(* Every step keeps the files sorted. *)
LEMMA NextPlace == TypeOK /\ VerdictInv /\ PlaceInv /\ [Next]_vars => PlaceInv'
<1>. SUFFICES ASSUME TypeOK, VerdictInv, PlaceInv, [Next]_vars PROVE PlaceInv'
  OBVIOUS
<1>2. UNCHANGED <<index, duplicates, candidates, errors, valid, invalid, turn>> =>
        /\ UNCHANGED <<Failing, Judged, Ahead, Paths(index), Paths(candidates)>>
        /\ OnceInErrors' /\ OnceInCandidates'
  BY DEF PlaceInv, Failing, Judged, Ahead, Paths, OnceInErrors, OnceInCandidates
<1>3. CASE ReadDir
  <2>1. /\ phase = "scan" /\ phase' = "scan" /\ todo = {} /\ listed' = listed \cup todo'
        /\ scanned' = scanned + 1 /\ scanned \in Nat /\ todo' \subseteq Files
        /\ \A f \in todo' : DirOf[f] = scanned + 1
        /\ UNCHANGED <<index, duplicates, candidates, errors, valid, invalid, turn>>
    BY <1>3 DEF ReadDir, report, TypeOK
  <2>2. \A f \in listed : f \in Files /\ DirOf[f] \in Nat /\ DirOf[f] <= scanned
    BY <2>1, LoadingAssumption DEF PlaceInv, TypeOK
  <2>3. todo' \cap listed = {} /\ \A f \in listed' : DirOf[f] <= scanned'
    <3>1. ASSUME NEW f \in todo' \cap listed PROVE FALSE
      BY <2>1, <2>2
    <3>. QED
      BY <2>1, <2>2, <3>1
  <2>4. Waiting' = Waiting \cup todo' /\ Paths(index) \subseteq Waiting
    BY <1>2, <2>1 DEF Waiting
  <2>5. Sorted' /\ todo' \cap Paths(index)' = {}
    BY <1>2, <2>1, <2>3, <2>4 DEF PlaceInv, Sorted
  <2>. QED
    BY <1>2, <2>1, <2>3, <2>5 DEF PlaceInv
<1>4. CASE ScanDone \/ ReadDone \/ ValidateDone
  <2>1. UNCHANGED <<index, duplicates, candidates, errors, valid, invalid, turn, listed>>
    BY <1>4 DEF ScanDone, ReadDone, ValidateDone, report
  <2>2. CASE ScanDone
    <3>1. /\ phase = "scan" /\ phase' = "read" /\ todo = {} /\ todo' = Paths(index)
          /\ Paths(candidates) = {}
      BY <2>2, NoPaths DEF ScanDone, PlaceInv, Paths
    <3>2. Waiting' = Waiting
      BY <1>2, <2>1, <3>1 DEF Waiting
    <3>. QED
      BY <1>2, <2>1, <3>1, <3>2 DEF PlaceInv, Sorted
  <2>3. CASE ReadDone
    <3>1. phase = "read" /\ phase' = "validate" /\ todo = {} /\ turn = 0
      BY <2>3 DEF ReadDone, VerdictInv
    <3>2. Ahead = Paths(candidates)
      BY <3>1 DEF Ahead, Paths
    <3>3. Waiting' = Waiting
      BY <1>2, <2>1, <3>1, <3>2 DEF Waiting
    <3>. QED
      BY <1>2, <2>1, <3>1, <3>3 DEF PlaceInv, Sorted
  <2>4. CASE ValidateDone
    <3>1. phase = "validate" /\ phase' = "done"
      BY <2>4 DEF ValidateDone
    <3>2. Waiting' = Waiting
      BY <1>2, <2>1, <3>1 DEF Waiting
    <3>. QED
      BY <1>2, <2>1, <3>1, <3>2 DEF PlaceInv, Sorted
  <2>. QED
    BY <1>4, <2>2, <2>3, <2>4
<1>5. CASE UNCHANGED vars \/ \E n \in Inodes, x \in Contents : Change(n, x)
  <2>1. UNCHANGED <<phase, scanned, todo, index, duplicates, candidates, errors, valid, invalid, turn, listed>>
    BY <1>5 DEF vars, Change, report
  <2>2. Waiting' = Waiting
    BY <1>2, <2>1 DEF Waiting
  <2>. QED
    BY <1>2, <2>1, <2>2 DEF PlaceInv, Sorted
<1>. QED
  BY <1>3, <1>4, <1>5, DiscoverPlace, ReadPlace, ValidatePlace DEF Next

(* Every file the scan listed ends in exactly one place, and the gauges    *)
(* count all of them but the duplicates.                                   *)
LEMMA AllAccounted ==
  ASSUME TypeOK, VerdictInv, PlaceInv, phase = "done"
  PROVE  /\ ModulesLoaded + ModulesFailed + Cardinality(duplicates) = Cardinality(listed)
         /\ \A f \in listed :
               Cardinality({i \in 1 .. Len(errors) : errors[i] = f})
               + (IF f \in duplicates THEN 1 ELSE 0)
               + Cardinality({c \in valid \cup invalid : c.path = f}) = 1
<1>. DEFINE V == valid \cup invalid
<1>1. Waiting = {}
  <2>1. turn = Len(candidates) /\ Len(candidates) \in Nat
    BY DEF VerdictInv, TypeOK
  <2>. QED
    BY <2>1 DEF Waiting, Ahead
<1>2. /\ listed = Failing \cup duplicates \cup Judged
      /\ Failing \cap (duplicates \cup Judged) = {} /\ duplicates \cap Judged = {}
  BY <1>1 DEF PlaceInv, Sorted
<1>3. IsFiniteSet(valid) /\ IsFiniteSet(invalid) /\ valid \cap invalid = {}
  <2>1. candidates \in Surjection(1 .. Len(candidates), Range(candidates))
    <3>1. candidates \in Seq(Candidate)
      BY DEF TypeOK, Candidate
    <3>2. candidates \in [1 .. Len(candidates) -> Candidate]
      BY <3>1
    <3>. QED
      BY <3>2 DEF Surjection, Range
  <2>2. IsFiniteSet(1 .. Len(candidates))
    BY FS_Interval DEF TypeOK
  <2>3. IsFiniteSet(Range(candidates))
    BY <2>1, <2>2, FS_Surjection
  <2>. QED
    BY <2>3, FS_Subset DEF TypeOK, VerdictInv
<1>4. IsFiniteSet(V) /\ Cardinality(V) = Cardinality(valid) + Cardinality(invalid)
      /\ Cardinality(valid) \in Nat /\ Cardinality(invalid) \in Nat
  BY <1>3, DisjointSize
<1>5. \A c, d \in V : c.path = d.path => c = d
  BY DEF VerdictInv, Opened, PlaceInv, OnceInCandidates
<1>6. IsFiniteSet(Judged) /\ Cardinality(Judged) = Cardinality(V)
  <2>. DEFINE p == [c \in V |-> c.path]
  <2>1. p \in [V -> Judged] /\ \A t \in Judged : \E c \in V : p[c] = t
    BY DEF Judged
  <2>2. \A c, d \in V : p[c] = p[d] => c = d
    BY <1>5
  <2>. HIDE DEF p, V
  <2>. QED
    BY <1>4, <2>1, <2>2, SameSize
<1>7. IsFiniteSet(Failing) /\ Cardinality(Failing) = Len(errors) /\ Len(errors) \in Nat
  <2>. DEFINE n == Len(errors)
  <2>1. /\ n \in Nat /\ errors \in [1 .. n -> Failing]
        /\ \A t \in Failing : \E i \in 1 .. n : errors[i] = t
        /\ \A i, j \in 1 .. n : errors[i] = errors[j] => i = j
    BY DEF TypeOK, Failing, PlaceInv, OnceInErrors
  <2>. HIDE DEF n
  <2>2. IsFiniteSet(1 .. n) /\ Cardinality(1 .. n) = IF 1 > n THEN 0 ELSE n - 1 + 1
    BY <2>1, FS_Interval
  <2>3. Cardinality(1 .. n) = n
    BY <2>1, <2>2
  <2>4. IsFiniteSet(Failing) /\ Cardinality(Failing) = Cardinality(1 .. n)
    BY <2>1, <2>2, SameSize
  <2>. QED
    BY <2>1, <2>3, <2>4 DEF n
<1>8. IsFiniteSet(duplicates)
  BY LoadingAssumption, FS_Subset DEF TypeOK
<1>9. Cardinality(listed) = Len(errors) + Cardinality(duplicates) + Cardinality(V)
  <2>1. /\ IsFiniteSet(Failing \cup duplicates)
        /\ Cardinality(Failing \cup duplicates) = Len(errors) + Cardinality(duplicates)
    <3>1. Failing \cap duplicates = {}
      BY <1>2
    <3>. QED
      BY <1>7, <1>8, <3>1, DisjointSize
  <2>2. (Failing \cup duplicates) \cap Judged = {}
    BY <1>2
  <2>. HIDE DEF V
  <2>3. Cardinality((Failing \cup duplicates) \cup Judged)
          = Cardinality(Failing \cup duplicates) + Cardinality(Judged)
    BY <1>6, <2>1, <2>2, DisjointSize
  <2>. QED
    BY <1>2, <1>6, <2>1, <2>3
<1>10. ModulesLoaded + ModulesFailed + Cardinality(duplicates) = Cardinality(listed)
  BY <1>4, <1>7, <1>8, <1>9, FS_CardinalityType DEF ModulesLoaded, ModulesFailed
<1>11. ASSUME NEW f \in listed
       PROVE  Cardinality({i \in 1 .. Len(errors) : errors[i] = f})
              + (IF f \in duplicates THEN 1 ELSE 0)
              + Cardinality({c \in V : c.path = f}) = 1
  <2>. DEFINE E == {i \in 1 .. Len(errors) : errors[i] = f}
              W == {c \in V : c.path = f}
  <2>1. f \notin Failing => E = {}
    BY DEF Failing
  <2>2. f \in Failing => \E i : E = {i}
    <3>1. SUFFICES ASSUME f \in Failing PROVE \E i : E = {i}
      OBVIOUS
    <3>2. PICK i \in 1 .. Len(errors) : errors[i] = f
      BY <3>1 DEF Failing
    <3>3. E = {i}
      BY <3>2 DEF PlaceInv, OnceInErrors
    <3>. QED
      BY <3>3
  <2>3. f \notin Judged => W = {}
    BY DEF Judged
  <2>4. f \in Judged => \E c : W = {c}
    BY <1>5 DEF Judged
  <2>. HIDE DEF E, W
  <2>5. Cardinality({}) = 0 /\ \A x : Cardinality({x}) = 1
    BY FS_EmptySet, FS_Singleton
  <2>6. Cardinality(E) = (IF f \in Failing THEN 1 ELSE 0) /\ Cardinality(W) = IF f \in Judged THEN 1 ELSE 0
    BY <2>1, <2>2, <2>3, <2>4, <2>5
  <2>. QED
    BY <1>2, <2>6 DEF E, W
<1>. QED
  BY <1>10, <1>11

(* No file of the listing is lost or counted twice, whatever happens to it *)
(* between the two reads of it.                                            *)
THEOREM FilesAccounted == Spec => []EveryFileAccounted
<1>1. TypeOK /\ VerdictInv /\ PlaceInv => EveryFileAccounted
  BY AllAccounted DEF EveryFileAccounted
<1>. QED
  BY <1>1, InitType, NextType, InitVerdict, NextVerdict, InitPlace, NextPlace, PTL DEF Spec
=================================================================================
