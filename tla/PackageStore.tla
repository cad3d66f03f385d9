------------------------------ MODULE PackageStore ------------------------------
(***************************************************************************)
(* What nyarix-loader keeps on disk: the install tree (installer.rs), the  *)
(* package cache and its packages.json (cache.rs), the rollback history    *)
(* and its history.json (rollback.rs), and the ModuleIndex held in memory  *)
(* (lib.rs).  One process calls them; it may be killed between any two     *)
(* file-system calls and started again.                                    *)
(*                                                                         *)
(* A slot is <install_root>/<name>/<version>/.  A build is the contents of *)
(* a .nyp archive; builds of one name and version share their slot.  A     *)
(* file is Absent, Torn, or the build that wrote it: fs::write truncates   *)
(* the file before it writes it, so a failed or killed write tears it.     *)
(***************************************************************************)
EXTENDS Integers, Sequences, FiniteSets, FiniteSetsExt, SequencesExt

CONSTANTS
  Name, Version,
  Build,        (* The archives the process is given.                      *)
  SlotOf,       (* [Build -> Slot]: name and version in the manifest.      *)
  File,         (* The payload/ paths archives hold.                       *)
  Files,        (* [Build -> Seq(File)]: an archive's payload, in order.   *)
  Escaping,     (* The paths with a ParentDir component.                   *)
  Needs,        (* [Build -> SUBSET SUBSET Slot]: per required dependency  *)
                (* the slots that satisfy it.                              *)
  Loadable,     (* Builds for this platform and this Module API version.   *)
  Size,         (* [Build -> Nat]: the archive's size_bytes.               *)
  MaxBytes,     (* evict_to_fit's max_bytes.                               *)
  Clock,        (* Bound: clock readings, 1 .. Clock.                      *)
  MaxHistory,   (* Bound: history entries per package name.                *)
  Crashes,      (* Bound: how often the process is killed.                 *)
  Absent, Torn, Idle

Now == 1 .. Clock
Slot == Name \X Version
Entry == [slot : Slot, at : Now, size : Nat]
Kind == {"Installed", "RolledBack"}
Record == [version : Version, kind : Kind]

ASSUME StoreAssumption ==
  /\ SlotOf \in [Build -> Slot] /\ Files \in [Build -> Seq(File)]
  /\ Needs \in [Build -> SUBSET SUBSET Slot] /\ Size \in [Build -> Nat]
  /\ Loadable \subseteq Build /\ Escaping \subseteq File
  /\ Clock \in Nat /\ Crashes \in Nat /\ MaxHistory \in Nat /\ MaxBytes \in Nat
  /\ Absent \notin Build /\ Torn \notin Build /\ Absent # Torn

VARIABLES
  archive,     (* [Slot -> package.nyp].                                   *)
  payload,     (* [Slot -> [File -> the file below payload/]].             *)
  cacheFile,   (* packages.json.                                           *)
  historyFile, (* history.json.                                            *)
  up,          (* Whether a process has the store open.                    *)
  cache,       (* PackageCache::entries.                                   *)
  history,     (* RollbackHistory::entries, by name.                       *)
  index,       (* The slots in the ModuleIndex.                            *)
  fresh,       (* Slots reported Installed and not yet recorded in history. *)
  job,         (* The install_package under way, or Idle.                  *)
  crashes

disk == <<archive, payload>>
files == <<cacheFile, historyFile>>
memory == <<cache, history, index, fresh>>
vars == <<disk, files, up, memory, job, crashes>>

-----------------------------------------------------------------------------
NoRecords == [n \in Name |-> <<>>]
Ready == up /\ job = Idle

Total(es) ==
  LET last[k \in 0 .. Len(es)] == IF k = 0 THEN 0 ELSE es[Len(es) + 1 - k].size + last[k - 1]
  IN last[Len(es)]

(* The positions in S, each behind those ahead of it. *)
Places(S, ahead) ==
  [k \in 1 .. Cardinality(S) |-> CHOOSE i \in S : Cardinality(ahead[i]) = k - 1]
Arranged(es, places) == [k \in DOMAIN places |-> es[places[k]]]

(* sort_by_key(installed_at): stable. *)
Older(es) ==
  [i \in DOMAIN es |-> {j \in DOMAIN es : es[j].at < es[i].at \/ (es[j].at = es[i].at /\ j < i)}]
SortedByAge(es) == Arranged(es, Places(DOMAIN es, Older(es)))

(* retain: all but the entries of a slot, in their order. *)
Others(es, s) == {i \in DOMAIN es : es[i].slot # s}
Retained(es, s) ==
  LET S == Others(es, s) IN Arranged(es, Places(S, [i \in S |-> {j \in S : j < i}]))

(* active_version and previous_version, where there is one. *)
Active(h) == Last(h).version
(* Mutant of Previous: one record too few is skipped.                       *)
PreviousIsActive(h) == h[Len(h)].version
Previous(h) == h[Len(h) - 1].version

(* install_root/name/version/package.nyp parses. *)
Whole(s) == archive[s] \in Build

(* detect_conflicts finds nothing against the index, and the platform fits. *)
IsValid(b) == b \in Loadable /\ \A alternatives \in Needs[b] : alternatives \cap index # {}

-----------------------------------------------------------------------------
(* install_package of an archive that parses.  Its first write is          *)
(* package.nyp, the next ones the payload entries, in order.  A call that  *)
(* fails, or an entry that would leave payload/, ends the install there;   *)
(* a call that fails before the first write has changed nothing.           *)
InstallArchive(b) ==
  /\ Ready
  /\ \/ /\ archive' = [archive EXCEPT ![SlotOf[b]] = b]
        /\ job' = [build |-> b, step |-> 1]
     \/ archive' = [archive EXCEPT ![SlotOf[b]] = Torn] /\ UNCHANGED job
  /\ UNCHANGED <<payload, files, up, memory, crashes>>

Writes(b) == Len(Files[b])

(* Mutant of InstallPayload: a file that is there is not written again.    *)
InstallPayloadKeeps ==
  /\ up /\ job # Idle /\ job.step \in 1 .. Writes(job.build)
  /\ LET s == SlotOf[job.build]
         f == Files[job.build][job.step]
     IN \/ /\ f \notin Escaping
           /\ payload' = IF payload[s][f] = Absent
                         THEN [payload EXCEPT ![s][f] = job.build] ELSE payload
           /\ job' = [job EXCEPT !.step = @ + 1]
        \/ f \notin Escaping /\ payload' = [payload EXCEPT ![s][f] = Torn] /\ job' = Idle
        \/ UNCHANGED payload /\ job' = Idle
  /\ UNCHANGED <<archive, files, up, memory, crashes>>

InstallPayload ==
  /\ up /\ job # Idle /\ job.step \in 1 .. Writes(job.build)
  /\ LET s == SlotOf[job.build]
         f == Files[job.build][job.step]
     IN \/ /\ f \notin Escaping
           /\ payload' = [payload EXCEPT ![s][f] = job.build]
           /\ job' = [job EXCEPT !.step = @ + 1]
        \/ f \notin Escaping /\ payload' = [payload EXCEPT ![s][f] = Torn] /\ job' = Idle
        \/ UNCHANGED payload /\ job' = Idle
  /\ UNCHANGED <<archive, files, up, memory, crashes>>

(* index.insert, last: Installed, or AlreadyInstalled. *)
InstallIndex ==
  /\ up /\ job # Idle /\ job.step = Writes(job.build) + 1
  /\ LET s == SlotOf[job.build]
     IN \/ s \in index /\ UNCHANGED <<index, fresh>>
        \/ s \notin index /\ index' = index \cup {s} /\ fresh' = fresh \cup {s}
  /\ job' = Idle
  /\ UNCHANGED <<disk, files, up, cache, history, crashes>>

-----------------------------------------------------------------------------
(* PackageCache::record, for a package that is there. *)
RecordCache(s, t) ==
  /\ Ready /\ Whole(s)
  /\ cache' = Append(Retained(cache, s),
                     [slot |-> s, at |-> t, size |-> Size[archive[s]]])
  /\ UNCHANGED <<disk, files, up, history, index, fresh, job, crashes>>

(* Mutant of Kept: one entry more than needed is evicted.                   *)
KeptStrict(es) ==
  LET sorted == SortedByAge(es)
      fits == {i \in 0 .. Len(sorted) : Total(SubSeq(sorted, i + 1, Len(sorted))) < MaxBytes
                                        \/ i = Len(sorted)}
  IN SubSeq(sorted, Min(fits) + 1, Len(sorted))

(* evict_to_fit: drop the oldest entries until the rest fits. *)
Kept(es) ==
  LET sorted == SortedByAge(es)
      fits == {i \in 0 .. Len(sorted) : Total(SubSeq(sorted, i + 1, Len(sorted))) <= MaxBytes}
  IN SubSeq(sorted, Min(fits) + 1, Len(sorted))

(* The directory of an evicted entry is deleted.  remove_dir_all may fail  *)
(* anywhere in it, unreported, and leaves what it has not come to.         *)
Evict ==
  /\ Ready
  /\ cache' = Kept(cache)
  /\ LET evicted == {e.slot : e \in Range(cache) \ Range(cache')}
         unpacked == {x \in evicted \X File : payload[x[1]][x[2]] # Absent}
     IN \E gone \in SUBSET evicted, deleted \in SUBSET unpacked :
          /\ archive' = [s \in Slot |-> IF s \in gone THEN Absent ELSE archive[s]]
          /\ payload' = [s \in Slot |-> [f \in File |->
                            IF <<s, f>> \in deleted THEN Absent ELSE payload[s][f]]]
  /\ UNCHANGED <<files, up, history, index, fresh, job, crashes>>

(* PackageCache::save and RollbackHistory::save rewrite their file. *)
SaveCache ==
  /\ Ready
  /\ cacheFile' \in {cache, Torn}
  /\ UNCHANGED <<disk, historyFile, up, memory, job, crashes>>

SaveHistory ==
  /\ Ready
  /\ historyFile' \in {history, Torn}
  /\ UNCHANGED <<disk, cacheFile, up, memory, job, crashes>>

(* record_install, for a version install_package has reported Installed. *)
RecordInstall(n, v) ==
  /\ Ready /\ <<n, v>> \in fresh /\ Len(history[n]) < MaxHistory
  /\ history' = [history EXCEPT ![n] = Append(@, [version |-> v, kind |-> "Installed"])]
  /\ fresh' = fresh \ {<<n, v>>}
  /\ UNCHANGED <<disk, files, up, cache, index, job, crashes>>

(* rollback_package where it succeeds; otherwise it changes nothing. *)
RollbackPackage(n) ==
  /\ Ready /\ Len(history[n]) \in 2 .. MaxHistory - 1
  /\ LET s == <<n, Previous(history[n])>> IN Whole(s) /\ IsValid(archive[s])
  /\ history' = [history EXCEPT ![n] = Append(@, [version |-> Previous(@), kind |-> "RolledBack"])]
  /\ UNCHANGED <<disk, files, up, cache, index, fresh, job, crashes>>

-----------------------------------------------------------------------------
(* The process is killed, between two file-system calls or in one (which   *)
(* is a failed call followed by this).                                     *)
Crash ==
  /\ up /\ crashes < Crashes
  /\ crashes' = crashes + 1
  /\ up' = FALSE
  /\ cache' = <<>> /\ history' = NoRecords /\ index' = {} /\ fresh' = {}
  /\ job' = Idle
  /\ UNCHANGED <<disk, files>>

(* PackageCache::open and RollbackHistory::open, which reject a torn file, *)
(* and a scan_directories of some version directories.                     *)
Open ==
  /\ ~up /\ cacheFile # Torn /\ historyFile # Torn
  /\ up' = TRUE
  /\ cache' = cacheFile /\ history' = historyFile
  /\ index' \in SUBSET {s \in Slot : Whole(s)}
  /\ UNCHANGED <<disk, files, fresh, job, crashes>>

Init ==
  /\ archive = [s \in Slot |-> Absent]
  /\ payload = [s \in Slot |-> [f \in File |-> Absent]]
  /\ cacheFile = <<>> /\ historyFile = NoRecords
  /\ up = TRUE /\ cache = <<>> /\ history = NoRecords /\ index = {} /\ fresh = {}
  /\ job = Idle /\ crashes = 0

Install == (\E b \in Build : InstallArchive(b)) \/ InstallPayload \/ InstallIndex

Next ==
  \/ Install
  \/ \E s \in Slot, t \in Now : RecordCache(s, t)
  \/ \E n \in Name, v \in Version : RecordInstall(n, v)
  \/ \E n \in Name : RollbackPackage(n)
  \/ Evict \/ SaveCache \/ SaveHistory \/ Crash \/ Open

Spec == Init /\ [][Next]_vars
-----------------------------------------------------------------------------
Content == Build \cup {Absent, Torn}

(* Type invariant of the install tree, of the two indexes and of memory: a *)
(* version reported Installed is in the index.                             *)
TypeOK ==
  /\ archive \in [Slot -> Content] /\ payload \in [Slot -> [File -> Content]]
  /\ cache \in Seq(Entry) /\ (cacheFile = Torn \/ cacheFile \in Seq(Entry))
  /\ history \in [Name -> Seq(Record)] /\ (historyFile = Torn \/ historyFile \in [Name -> Seq(Record)])
  /\ index \subseteq Slot /\ fresh \subseteq index
  /\ up \in BOOLEAN /\ crashes \in 0 .. Crashes
  /\ job # Idle => job.build \in Build /\ job.step \in 1 .. Writes(job.build) + 1

(* Whatever installs of this or another build of the version failed or     *)
(* were killed before it, and whatever was evicted in part or as a whole,  *)
(* an install_package that reports Installed leaves its own archive and    *)
(* every payload file of it on disk.  AlreadyInstalled is documented as    *)
(* "not re-installed" and promises nothing about the files.                *)
InstallCompletes ==
  [][job # Idle /\ SlotOf[job.build] \in fresh' \ fresh =>
       LET s == SlotOf[job.build]
       IN archive'[s] = job.build /\ \A f \in Range(Files[job.build]) : payload'[s][f] = job.build]_vars

(* "Rolling back twice in a row alternates between its two most recent     *)
(* versions": a rollback restores the version before the last record,      *)
(* through saves, crashes and reopened histories.                          *)
Alternates(h) ==
  \A i \in 1 .. Len(h) :
    h[i].kind = "RolledBack" => i > 2 /\ h[i].version = h[i - 2].version

(* Each record changes the active version, so that a rollback goes to      *)
(* another one, or finds none: NoPreviousVersion.                          *)
Changes(h) == \A i \in 2 .. Len(h) : h[i].version # h[i - 1].version

(* A rollback alternates, and it does change the version, whatever is      *)
(* installed, recorded late or rolled back in between, unless the store    *)
(* was reopened: a process whose scan missed an installed version reports  *)
(* it Installed again, and recorded twice it is its own predecessor (the   *)
(* check of rollback.rs 230-237 counts records, its doc counts versions).  *)
RollbackAlternates ==
  \A n \in Name : Alternates(history[n]) /\ (crashes = 0 => Changes(history[n]))

(* evict_to_fit evicts oldest first and stops as soon as the rest fits.    *)
EvictsOldestFirst ==
  up /\ up' /\ Len(cache') < Len(cache) =>
       LET gone == Range(cache) \ Range(cache')
       IN /\ Total(cache') <= MaxBytes
          /\ \A g \in gone : \A k \in Range(cache') : g.at <= k.at
          /\ \E g \in gone : Total(cache') + g.size > MaxBytes

(* "The index no longer lists it either way": an eviction deletes no file  *)
(* of a version that PackageCache goes on listing.                         *)
EvictionSparesListed ==
  \A e \in Range(cache') :
    /\ archive'[e.slot] = Absent => archive[e.slot] = Absent
    /\ \A f \in File : payload'[e.slot][f] = Absent => payload[e.slot][f] = Absent

(* packages.json lags behind: after an eviction it lists what is deleted   *)
(* until save.  Until a process is killed there, which no reopening mends, *)
(* it does so of no version that memory lists too, so the save repairs it. *)
FileLagsOnly ==
  crashes = 0 /\ cacheFile # Torn =>
    \A e \in Range(cacheFile) : archive[e.slot] = Absent => \A k \in Range(cache) : k.slot # e.slot

(* Eviction deletes what it drops from the index, the oldest and no more.  *)
EvictionSound == []FileLagsOnly /\ [][EvictsOldestFirst /\ EvictionSparesListed]_vars
=============================================================================
