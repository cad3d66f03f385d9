--------------------------- MODULE PackageStoreProofs ---------------------------
(***************************************************************************)
(* Proofs about PackageStore, for any set of archives, names and versions, *)
(* any number of installs, failures, evictions and crashes: an install     *)
(* reported Installed is complete, rollbacks alternate, and an eviction    *)
(* drops the oldest entries, as few as make the rest fit.                  *)
(***************************************************************************)
EXTENDS PackageStore, FiniteSetTheorems, SequenceTheorems, WellFoundedInduction, TLAPS

-----------------------------------------------------------------------------
(* Installs.  The invariant says how far the install under way has come:   *)
(* what it has written so far is still on disk.                            *)

Job == [build : Build, step : Nat]
DiskType == archive \in [Slot -> Content] /\ payload \in [Slot -> [File -> Content]]

Progress ==
  LET b == job.build
  IN /\ job \in Job /\ job.step <= Writes(b) + 1
     /\ archive[SlotOf[b]] = b
     /\ \A i \in 1 .. job.step - 1 : payload[SlotOf[b]][Files[b][i]] = b
InstallInv == DiskType /\ (job # Idle => Progress)

(* The constants of an archive, as the install of it reads them. *)
LEMMA BuildFields ==
  ASSUME NEW b \in Build
  PROVE  /\ SlotOf[b] \in Slot /\ Files[b] \in Seq(File) /\ Writes(b) \in Nat
         /\ \A i \in 1 .. Writes(b) : Files[b][i] \in File
BY StoreAssumption DEF Writes

(* Nothing is written and nothing under way at the start. *)
LEMMA InitInstall == Init => InstallInv
BY DEF Init, InstallInv, DiskType, Content

(* package.nyp is written, or torn by a failure that ends the install. *)
LEMMA ArchiveInstall ==
  ASSUME InstallInv, NEW b \in Build, InstallArchive(b)
  PROVE  InstallInv'
<1> DEFINE s == SlotOf[b]
<1>1. s \in Slot /\ Writes(b) \in Nat
  BY BuildFields
<1>2. DiskType'
  BY <1>1 DEF InstallInv, DiskType, InstallArchive, Content
<1>3. CASE UNCHANGED job
  BY <1>2, <1>3 DEF InstallInv, InstallArchive, Ready
<1>4. CASE archive' = [archive EXCEPT ![s] = b] /\ job' = [build |-> b, step |-> 1]
  <2>1. job' \in Job /\ job'.build = b /\ job'.step = 1
    BY <1>4 DEF Job
  <2>2. archive'[s] = b
    BY <1>1, <1>4 DEF InstallInv, DiskType
  <2>. QED
    BY <1>1, <1>2, <2>1, <2>2 DEF InstallInv, Progress, Writes
<1>. QED
  BY <1>3, <1>4 DEF InstallArchive

(* A payload entry is written behind those that were. *)
LEMMA PayloadInstall ==
  ASSUME InstallInv, InstallPayload
  PROVE  InstallInv'
<1> DEFINE b == job.build
           s == SlotOf[b]
           f == Files[b][job.step]
<1>1. /\ job \in Job /\ b \in Build /\ job # Idle /\ job.step \in 1 .. Writes(b)
      /\ archive[s] = b
      /\ \A i \in 1 .. job.step - 1 : payload[s][Files[b][i]] = b
  BY DEF InstallInv, Progress, InstallPayload, Job
<1>2. s \in Slot /\ Writes(b) \in Nat /\ \A i \in 1 .. Writes(b) : Files[b][i] \in File
  BY <1>1, BuildFields
<1>3. f \in File /\ archive' = archive
  BY <1>1, <1>2 DEF InstallPayload
<1>4. DiskType'
  <2>1. payload[s] \in [File -> Content]
    BY <1>2 DEF InstallInv, DiskType
  <2>2. \/ payload' = [payload EXCEPT ![s][f] = b]
        \/ payload' = [payload EXCEPT ![s][f] = Torn]
        \/ payload' = payload
    BY DEF InstallPayload
  <2>3. b \in Content /\ Torn \in Content
    BY <1>1 DEF Content
  <2>. QED
    BY <1>2, <1>3, <2>1, <2>2, <2>3 DEF InstallInv, DiskType
<1>5. CASE job' = Idle
  BY <1>4, <1>5 DEF InstallInv
<1>6. CASE payload' = [payload EXCEPT ![s][f] = b] /\ job' = [job EXCEPT !.step = @ + 1]
  <2>1. job' \in Job /\ job'.build = b /\ job'.step = job.step + 1
    BY <1>1, <1>6 DEF Job, InstallInv, Progress
  <2>2. payload'[s][f] = b /\ \A g \in File : g # f => payload'[s][g] = payload[s][g]
    BY <1>2, <1>3, <1>6 DEF InstallInv, DiskType
  <2>3. \A i \in 1 .. job.step : payload'[s][Files[b][i]] = b
    <3>1. SUFFICES ASSUME NEW i \in 1 .. job.step PROVE payload'[s][Files[b][i]] = b
      OBVIOUS
    <3>2. Files[b][i] \in File
      BY <1>1, <1>2
    <3>3. CASE i = job.step
      BY <2>2, <3>3
    <3>4. CASE i # job.step
      <4>1. i \in 1 .. job.step - 1
        BY <1>1, <1>2, <3>4
      <4>. QED
        BY <1>1, <2>2, <3>2, <4>1
    <3>. QED
      BY <3>3, <3>4
  <2>4. job'.step <= Writes(b) + 1 /\ job'.step - 1 = job.step
    BY <1>1, <1>2, <2>1
  <2>. QED
    BY <1>1, <1>3, <1>4, <2>1, <2>3, <2>4 DEF InstallInv, Progress, Writes
<1>. QED
  BY <1>5, <1>6 DEF InstallPayload

(* Evictions happen between installs and leave files or nothing. *)
LEMMA EvictInstall ==
  ASSUME InstallInv, Evict
  PROVE  InstallInv'
<1>1. job = Idle /\ job' = Idle
  BY DEF Evict, Ready
<1>. DEFINE evicted == {e.slot : e \in Range(cache) \ Range(cache')}
            unpacked == {x \in evicted \X File : payload[x[1]][x[2]] # Absent}
<1>2. PICK gone \in SUBSET evicted, deleted \in SUBSET unpacked :
        /\ archive' = [s \in Slot |-> IF s \in gone THEN Absent ELSE archive[s]]
        /\ payload' = [s \in Slot |-> [f \in File |->
                          IF <<s, f>> \in deleted THEN Absent ELSE payload[s][f]]]
  BY Zenon DEF Evict
<1>. HIDE DEF evicted, unpacked
<1>. QED
  BY <1>1, <1>2 DEF InstallInv, DiskType, Content

(* Every step preserves the progress of the install under way. *)
LEMMA NextInstall == InstallInv /\ [Next]_vars => InstallInv'
<1> SUFFICES ASSUME InstallInv, [Next]_vars PROVE InstallInv'
  OBVIOUS
<1>1. CASE job' = Idle /\ UNCHANGED disk
  BY <1>1 DEF InstallInv, DiskType, disk
<1>2. CASE UNCHANGED <<job, disk>>
  BY <1>2 DEF InstallInv, DiskType, Progress, disk
<1>3. CASE Install
  BY <1>1, <1>3, ArchiveInstall, PayloadInstall DEF Install, InstallIndex
<1>4. ASSUME NEW s \in Slot, NEW t \in Now, RecordCache(s, t) PROVE InstallInv'
  BY <1>2, <1>4 DEF RecordCache
<1>5. ASSUME NEW n \in Name, NEW v \in Version, RecordInstall(n, v) PROVE InstallInv'
  BY <1>2, <1>5 DEF RecordInstall
<1>6. ASSUME NEW n \in Name, RollbackPackage(n) PROVE InstallInv'
  BY <1>2, <1>6 DEF RollbackPackage
<1>7. CASE Evict
  BY <1>7, EvictInstall
<1>8. CASE SaveCache \/ SaveHistory \/ Open
  BY <1>2, <1>8 DEF SaveCache, SaveHistory, Open
<1>9. CASE Crash
  BY <1>1, <1>9 DEF Crash
<1>10. CASE UNCHANGED vars
  BY <1>2, <1>10 DEF vars
<1>. QED
  BY <1>3, <1>4, <1>5, <1>6, <1>7, <1>8, <1>9, <1>10 DEF Next

(* An install reported Installed has taken every step, and its last one    *)
(* writes nothing more.                                                    *)
LEMMA InstallEnds ==
  ASSUME InstallInv, [Next]_vars,
         job # Idle, SlotOf[job.build] \in fresh' \ fresh
  PROVE  LET s == SlotOf[job.build]
         IN archive'[s] = job.build /\ \A f \in Range(Files[job.build]) : payload'[s][f] = job.build
<1>1. Progress
  BY DEF InstallInv
<1>2. InstallIndex
  <2>1. ~(\E b \in Build : InstallArchive(b)) /\ ~Evict /\ ~SaveCache /\ ~SaveHistory
    BY DEF InstallArchive, Evict, SaveCache, SaveHistory, Ready
  <2>2. /\ \A s \in Slot, t \in Now : ~RecordCache(s, t)
        /\ \A n \in Name, v \in Version : ~RecordInstall(n, v)
        /\ \A n \in Name : ~RollbackPackage(n)
    BY DEF RecordCache, RecordInstall, RollbackPackage, Ready
  <2>3. ~Crash /\ ~Open /\ ~UNCHANGED vars /\ ~InstallPayload
    BY DEF Crash, Open, InstallPayload, vars, memory
  <2>. QED
    BY <2>1, <2>2, <2>3 DEF Next, Install
<1> DEFINE b == job.build
<1>3. /\ b \in Build /\ job.step = Writes(b) + 1 /\ UNCHANGED disk
      /\ Writes(b) \in Nat /\ Files[b] \in Seq(File)
  BY <1>1, <1>2, BuildFields DEF Progress, Job, InstallIndex
<1>4. ASSUME NEW f \in Range(Files[b]) PROVE payload[SlotOf[b]][f] = b
  <2>1. PICK i \in 1 .. Writes(b) : f = Files[b][i]
    BY <1>3 DEF Range, Writes
  <2>. QED
    BY <1>1, <1>3, <2>1 DEF Progress
<1>. QED
  BY <1>1, <1>3, <1>4 DEF Progress, disk

(* install_package, whatever failures, kills, evictions and other installs *)
(* came before it, reports Installed only with its archive and all of its  *)
(* payload on disk.                                                        *)
THEOREM InstallsComplete == Spec => InstallCompletes
<1>1. InstallInv /\ [Next]_vars =>
        [job # Idle /\ SlotOf[job.build] \in fresh' \ fresh =>
           LET s == SlotOf[job.build]
           IN archive'[s] = job.build
              /\ \A f \in Range(Files[job.build]) : payload'[s][f] = job.build]_vars
  BY InstallEnds
<1>. QED
  BY <1>1, InitInstall, NextInstall, PTL DEF Spec, InstallCompletes

-----------------------------------------------------------------------------
(* The process.  What is still to be recorded is in the index, and a store *)
(* that was never killed has never been closed.                            *)
ProcessInv ==
  /\ crashes \in Nat /\ (up \/ crashes > 0)
  /\ fresh \subseteq index /\ (~up => fresh = {})

(* A store starts open, with nothing installed. *)
LEMMA InitProcess == Init => ProcessInv
BY DEF Init, ProcessInv

(* Every step keeps it. *)
LEMMA NextProcess == ProcessInv /\ [Next]_vars => ProcessInv'
<1>. SUFFICES ASSUME ProcessInv, [Next]_vars PROVE ProcessInv'
  OBVIOUS
<1>. USE DEF ProcessInv, memory
<1>1. CASE Install
  BY <1>1 DEF Install, InstallArchive, InstallPayload, InstallIndex
<1>2. ASSUME NEW s \in Slot, NEW t \in Now, RecordCache(s, t) PROVE ProcessInv'
  BY <1>2 DEF RecordCache
<1>3. ASSUME NEW n \in Name, NEW v \in Version, RecordInstall(n, v) PROVE ProcessInv'
  BY <1>3 DEF RecordInstall, Ready
<1>4. ASSUME NEW n \in Name, RollbackPackage(n) PROVE ProcessInv'
  BY <1>4 DEF RollbackPackage
<1>5. CASE Evict \/ SaveCache \/ SaveHistory
  BY <1>5 DEF Evict, SaveCache, SaveHistory
<1>6. CASE Crash
  BY <1>6 DEF Crash
<1>7. CASE Open
  BY <1>7 DEF Open
<1>8. CASE UNCHANGED vars
  BY <1>8 DEF vars
<1>. QED
  BY <1>1, <1>2, <1>3, <1>4, <1>5, <1>6, <1>7, <1>8 DEF Next

-----------------------------------------------------------------------------
(* Rollbacks.  The history in memory alternates because the one on disk    *)
(* does, and a rollback copies the record before the last.                 *)

HistoryInv ==
  /\ history \in [Name -> Seq(Record)] /\ \A n \in Name : Alternates(history[n])
  /\ historyFile # Torn => historyFile \in [Name -> Seq(Record)]
                           /\ \A n \in Name : Alternates(historyFile[n])

(* No history holds a rollback at the start. *)
LEMMA InitHistory == Init => HistoryInv
BY DEF Init, HistoryInv, NoRecords, Alternates

(* A record of an install may follow any history. *)
LEMMA AppendInstall ==
  ASSUME NEW h \in Seq(Record), Alternates(h), NEW v \in Version
  PROVE  /\ Append(h, [version |-> v, kind |-> "Installed"]) \in Seq(Record)
         /\ Alternates(Append(h, [version |-> v, kind |-> "Installed"]))
BY DEF Record, Kind, Alternates

(* A rollback repeats the version before the last. *)
LEMMA AppendRollback ==
  ASSUME NEW h \in Seq(Record), Alternates(h), Len(h) >= 2
  PROVE  /\ Append(h, [version |-> Previous(h), kind |-> "RolledBack"]) \in Seq(Record)
         /\ Alternates(Append(h, [version |-> Previous(h), kind |-> "RolledBack"]))
<1> DEFINE r == [version |-> Previous(h), kind |-> "RolledBack"]
<1>1. h[Len(h) - 1] \in Record
  OBVIOUS
<1>2. r \in Record
  BY <1>1 DEF Record, Kind, Previous
<1>3. ASSUME NEW i \in 1 .. Len(h) + 1, Append(h, r)[i].kind = "RolledBack"
      PROVE  i > 2 /\ Append(h, r)[i].version = Append(h, r)[i - 2].version
  <2>1. CASE i = Len(h) + 1
    BY <1>2, <2>1 DEF Previous
  <2>2. CASE i \in 1 .. Len(h)
    BY <1>2, <1>3, <2>2 DEF Alternates
  <2>. QED
    BY <2>1, <2>2
<1>. QED
  BY <1>2, <1>3 DEF Alternates

(* Every step keeps both histories alternating. *)
LEMMA NextHistory == HistoryInv /\ [Next]_vars => HistoryInv'
<1> SUFFICES ASSUME HistoryInv, [Next]_vars PROVE HistoryInv'
  OBVIOUS
<1>1. CASE UNCHANGED <<history, historyFile>>
  BY <1>1 DEF HistoryInv
<1>2. CASE Install \/ Evict \/ SaveCache \/ UNCHANGED vars
  BY <1>1, <1>2 DEF Install, InstallArchive, InstallPayload, InstallIndex,
                    Evict, SaveCache, files, memory, vars
<1>3. ASSUME NEW s \in Slot, NEW t \in Now, RecordCache(s, t) PROVE HistoryInv'
  BY <1>1, <1>3 DEF RecordCache, files
<1>4. ASSUME NEW n \in Name, NEW v \in Version, RecordInstall(n, v) PROVE HistoryInv'
  <2>1. history' = [history EXCEPT ![n] = Append(history[n], [version |-> v, kind |-> "Installed"])]
        /\ historyFile' = historyFile
    BY <1>4 DEF RecordInstall, files
  <2>. QED
    BY <2>1, AppendInstall DEF HistoryInv
<1>5. ASSUME NEW n \in Name, RollbackPackage(n) PROVE HistoryInv'
  <2>1. /\ history' = [history EXCEPT ![n] =
                         Append(history[n], [version |-> Previous(history[n]), kind |-> "RolledBack"])]
        /\ historyFile' = historyFile /\ Len(history[n]) >= 2
    BY <1>5, StoreAssumption DEF RollbackPackage, files
  <2>. QED
    BY <2>1, AppendRollback DEF HistoryInv
<1>6. CASE SaveHistory
  BY <1>6 DEF HistoryInv, SaveHistory, memory
<1>7. CASE Open
  BY <1>7 DEF HistoryInv, Open, files
<1>8. CASE Crash
  BY <1>8 DEF HistoryInv, Crash, NoRecords, Alternates, files
<1>. QED
  BY <1>2, <1>3, <1>4, <1>5, <1>6, <1>7, <1>8 DEF Next

(* Until the store is reopened, the versions in a history are indexed and  *)
(* recorded once when they were installed: one that is fresh is new to it. *)
RecordedOnce(n) ==
  \A i \in 1 .. Len(history[n]) : <<n, history[n][i].version>> \in index \ fresh
ChangesInv ==
  crashes = 0 => \A n \in Name : Changes(history[n]) /\ RecordedOnce(n)

(* No history holds anything at the start. *)
LEMMA InitChanges == Init => ChangesInv
BY DEF Init, ChangesInv, RecordedOnce, NoRecords, Changes

(* A record of another version than the last may follow. *)
LEMMA AppendChange ==
  ASSUME NEW h \in Seq(Record), Changes(h), NEW r \in Record,
         Len(h) > 0 => r.version # h[Len(h)].version
  PROVE  Changes(Append(h, r))
<1>1. SUFFICES ASSUME NEW i \in 2 .. Len(h) + 1
               PROVE  Append(h, r)[i].version # Append(h, r)[i - 1].version
  BY DEF Changes
<1>2. CASE i = Len(h) + 1
  BY <1>2
<1>3. CASE i \in 2 .. Len(h)
  BY <1>3 DEF Changes
<1>. QED
  BY <1>2, <1>3

(* Every step keeps the records of an unbroken process apart: what is      *)
(* recorded as installed is new, and a rollback goes to the record before  *)
(* the last, which is of another version.                                  *)
LEMMA NextChanges == HistoryInv /\ ProcessInv /\ ChangesInv /\ [Next]_vars => ChangesInv'
<1>. SUFFICES ASSUME HistoryInv, ProcessInv, ChangesInv, [Next]_vars, crashes' = 0,
                     NEW n \in Name
              PROVE  Changes(history'[n]) /\ RecordedOnce(n)'
  BY DEF ChangesInv
<1>0. history[n] \in Seq(Record) /\ Len(history[n]) \in Nat
  BY DEF HistoryInv
<1>1. ~Crash /\ crashes = 0
  <2>1. ~Crash
    BY DEF Crash, ProcessInv
  <2>2. crashes' = crashes
    BY <2>1 DEF Next, Install, InstallArchive, InstallPayload, InstallIndex, RecordCache,
                RecordInstall, RollbackPackage, Evict, SaveCache, SaveHistory, Open, vars
  <2>. QED
    BY <2>1, <2>2
<1>2. up /\ Changes(history[n]) /\ RecordedOnce(n)
  BY <1>1 DEF ChangesInv, ProcessInv
<1>3. CASE UNCHANGED <<history, index, fresh>>
  BY <1>2, <1>3 DEF RecordedOnce
<1>4. CASE Install
  <2>1. CASE InstallIndex
    <3>1. UNCHANGED history /\ index \ fresh \subseteq index' \ fresh'
      BY <2>1 DEF InstallIndex
    <3>. QED
      BY <1>2, <3>1 DEF RecordedOnce
  <2>. QED
    BY <1>3, <1>4, <2>1 DEF Install, InstallArchive, InstallPayload, memory
<1>5. ASSUME NEW m \in Name, NEW v \in Version, RecordInstall(m, v)
      PROVE  Changes(history'[n]) /\ RecordedOnce(n)'
  <2>1. /\ <<m, v>> \in fresh /\ fresh' = fresh \ {<<m, v>>} /\ index' = index
        /\ history' = [history EXCEPT ![m] = Append(history[m], [version |-> v, kind |-> "Installed"])]
    BY <1>5 DEF RecordInstall
  <2>2. CASE m # n
    BY <1>2, <2>1, <2>2 DEF HistoryInv, RecordedOnce
  <2>3. CASE m = n
    <3>. DEFINE r == [version |-> v, kind |-> "Installed"]
    <3>1. r \in Record /\ r.version = v /\ history'[n] = Append(history[n], r)
      BY <2>1, <2>3 DEF Record, Kind, HistoryInv
    <3>2. Len(history[n]) > 0 => v # history[n][Len(history[n])].version
      BY <1>0, <1>2, <2>1, <2>3 DEF RecordedOnce
    <3>3. Changes(history'[n])
      BY <1>0, <1>2, <3>1, <3>2, AppendChange
    <3>4. <<n, v>> \in index' \ fresh'
      BY <2>1, <2>3 DEF ProcessInv
    <3>5. ASSUME NEW i \in 1 .. Len(history'[n])
          PROVE  <<n, history'[n][i].version>> \in index' \ fresh'
      <4>. HIDE DEF r
      <4>1. CASE i = Len(history[n]) + 1
        BY <1>0, <3>1, <3>4, <4>1
      <4>2. CASE i \in 1 .. Len(history[n])
        <5>1. history'[n][i] = history[n][i]
          BY <1>0, <3>1, <4>2
        <5>. QED
          BY <1>2, <2>1, <4>2, <5>1 DEF RecordedOnce
      <4>. QED
        BY <1>0, <3>1, <4>1, <4>2
    <3>. QED
      BY <3>3, <3>5 DEF RecordedOnce
  <2>. QED
    BY <2>2, <2>3
<1>6. ASSUME NEW m \in Name, RollbackPackage(m)
      PROVE  Changes(history'[n]) /\ RecordedOnce(n)'
  <2>1. /\ UNCHANGED <<index, fresh>> /\ Len(history[m]) >= 2
        /\ history' = [history EXCEPT ![m] =
                         Append(history[m], [version |-> Previous(history[m]), kind |-> "RolledBack"])]
    BY <1>6, StoreAssumption DEF RollbackPackage
  <2>2. CASE m # n
    BY <1>2, <2>1, <2>2 DEF HistoryInv, RecordedOnce
  <2>3. CASE m = n
    <3>. DEFINE l == Len(history[n])
                r == [version |-> history[n][l - 1].version, kind |-> "RolledBack"]
    <3>1. l - 1 \in 1 .. l /\ l \in 2 .. l /\ history[n][l - 1] \in Record
      BY <1>0, <2>1, <2>3
    <3>2. r \in Record /\ r.version = history[n][l - 1].version /\ history'[n] = Append(history[n], r)
      BY <2>1, <2>3, <3>1 DEF Record, Kind, HistoryInv, Previous
    <3>3. history[n][l].version # history[n][l - 1].version
      BY <1>2, <3>1 DEF Changes
    <3>. HIDE DEF r
    <3>4. Changes(history'[n])
      BY <1>0, <1>2, <3>2, <3>3, AppendChange
    <3>5. ASSUME NEW i \in 1 .. Len(history'[n])
          PROVE  <<n, history'[n][i].version>> \in index' \ fresh'
      <4>1. CASE i = l + 1
        BY <1>0, <1>2, <2>1, <3>1, <3>2, <4>1 DEF RecordedOnce
      <4>2. CASE i \in 1 .. l
        <5>1. history'[n][i] = history[n][i]
          BY <1>0, <3>2, <4>2
        <5>. QED
          BY <1>2, <2>1, <4>2, <5>1 DEF RecordedOnce
      <4>3. Len(history'[n]) = l + 1
        BY <1>0, <3>2
      <4>. QED
        BY <3>1, <4>1, <4>2, <4>3
    <3>. QED
      BY <3>4, <3>5 DEF RecordedOnce
  <2>. QED
    BY <2>2, <2>3
<1>7. ASSUME NEW s \in Slot, NEW t \in Now, RecordCache(s, t)
      PROVE  Changes(history'[n]) /\ RecordedOnce(n)'
  BY <1>3, <1>7 DEF RecordCache
<1>8. CASE Evict \/ SaveCache \/ SaveHistory \/ UNCHANGED vars
  BY <1>3, <1>8 DEF Evict, SaveCache, SaveHistory, memory, vars
<1>9. ~Open
  BY <1>2 DEF Open
<1>. QED
  BY <1>1, <1>4, <1>5, <1>6, <1>7, <1>8, <1>9 DEF Next

(* rollback_package alternates between the two most recent versions for    *)
(* every history, saved, lost and reopened any number of times; and until  *)
(* a store is reopened, every one of its rollbacks, however many installs  *)
(* and rollbacks came before, changes the version.                         *)
THEOREM RollbacksAlternate == Spec => []RollbackAlternates
<1>1. HistoryInv /\ ChangesInv => RollbackAlternates
  BY DEF HistoryInv, ChangesInv, RollbackAlternates
<1>. QED
  BY <1>1, InitHistory, NextHistory, InitProcess, NextProcess, InitChanges, NextChanges, PTL
     DEF Spec

-----------------------------------------------------------------------------
(* Evictions.  A sequence is arranged by counting, for each element, those  *)
(* ahead of it; its sizes are added up from the last one on.               *)

(* Every nonempty set of naturals has a least element.                     *)
LEMMA HasLeast ==
  ASSUME NEW S, S \subseteq Nat, S # {}
  PROVE  \E x \in S : \A y \in S : x <= y
<1>. DEFINE R == OpToRel(<, Nat)
<1>1. \A x, y \in Nat : x < y => <<x, y>> \in R
  BY DEF OpToRel
<1>2. IsWellFoundedOn(R, Nat)
  BY NatLessThanWellFounded, Zenon
<1>. HIDE DEF R
<1>3. PICK x \in S : \A y \in S : ~(<<y, x>> \in R)
  BY <1>2, WFMin
<1>4. \A y \in S : ~(y < x)
  BY <1>1, <1>3, Zenon
<1>. QED
  BY <1>4

LinearOrder(S, ahead) ==
  /\ IsFiniteSet(S) /\ ahead \in [S -> SUBSET S] /\ \A i \in S : i \notin ahead[i]
  /\ \A i, j \in S : i # j => i \in ahead[j] \/ j \in ahead[i]
  /\ \A i, j \in S : i \in ahead[j] => ahead[i] \subseteq ahead[j]

(* If who is ahead of whom is a linear order, the places are every         *)
(* position once, in that order.                                           *)
LEMMA PlacesInOrder ==
  ASSUME NEW S, NEW ahead, LinearOrder(S, ahead)
  PROVE  LET n == Cardinality(S)
             p == Places(S, ahead)
         IN  /\ n \in Nat /\ p \in [1 .. n -> S]
             /\ \A j, k \in 1 .. n : j < k => p[j] \in ahead[p[k]]
             /\ \A i \in S : \E k \in 1 .. n : p[k] = i
             /\ \A j, k \in 1 .. n : p[j] = p[k] => j = k
<1>. DEFINE n == Cardinality(S)
            c == [i \in S |-> Cardinality(ahead[i]) + 1]
            p == Places(S, ahead)
<1>. USE DEF LinearOrder
<1>1. n \in Nat
  BY FS_CardinalityType
<1>2. \A i \in S : /\ IsFiniteSet(ahead[i]) /\ Cardinality(ahead[i]) \in Nat
                   /\ Cardinality(ahead[i]) < n
  <2>1. SUFFICES ASSUME NEW i \in S
                 PROVE  /\ IsFiniteSet(ahead[i]) /\ Cardinality(ahead[i]) \in Nat
                        /\ Cardinality(ahead[i]) < n
    OBVIOUS
  <2>2. ahead[i] \in SUBSET S /\ ahead[i] # S
    OBVIOUS
  <2>3. /\ IsFiniteSet(ahead[i]) /\ Cardinality(ahead[i]) <= n
        /\ Cardinality(S) = Cardinality(ahead[i]) => S = ahead[i]
    BY <2>2, FS_Subset
  <2>4. Cardinality(ahead[i]) \in Nat
    BY <2>3, FS_CardinalityType
  <2>. QED
    BY <1>1, <2>2, <2>3, <2>4
<1>3. ASSUME NEW i \in S, NEW j \in S, i \in ahead[j]
      PROVE  Cardinality(ahead[i]) < Cardinality(ahead[j])
  <2>1. ahead[i] \in SUBSET ahead[j] /\ ahead[i] # ahead[j]
    BY <1>3
  <2>2. /\ Cardinality(ahead[i]) <= Cardinality(ahead[j])
        /\ Cardinality(ahead[j]) = Cardinality(ahead[i]) => ahead[j] = ahead[i]
    BY <1>2, <2>1, FS_Subset
  <2>. QED
    BY <1>2, <2>1, <2>2
<1>4. c \in Surjection(S, 1 .. n)
  <2>1. c \in [S -> 1 .. n]
    BY <1>1, <1>2
  <2>2. \A i, j \in S : c[i] = c[j] => i = j
    BY <1>2, <1>3
  <2>3. c \in Injection(S, 1 .. n)
    BY <2>1, <2>2 DEF Injection, IsInjective
  <2>. HIDE DEF c, n
  <2>4. IsFiniteSet(1 .. n) /\ Cardinality(1 .. n) = IF 1 > n THEN 0 ELSE n - 1 + 1
    BY <1>1, FS_Interval
  <2>5. Cardinality(1 .. n) = Cardinality(S)
    BY <1>1, <2>4 DEF n
  <2>. QED
    BY <2>3, <2>4, <2>5, FS_Injection
<1>5. \A k \in 1 .. n : \E i \in S : Cardinality(ahead[i]) = k - 1
  <2>1. SUFFICES ASSUME NEW k \in 1 .. n PROVE \E i \in S : Cardinality(ahead[i]) = k - 1
    OBVIOUS
  <2>2. PICK i \in S : c[i] = k
    BY <1>4 DEF Surjection
  <2>3. Cardinality(ahead[i]) + 1 = k
    BY <2>2
  <2>. QED
    BY <1>2, <2>3
<1>6. \A k \in 1 .. n : p[k] \in S /\ Cardinality(ahead[p[k]]) = k - 1
  BY <1>5 DEF Places
<1>7. p \in [1 .. n -> S]
  BY <1>6 DEF Places
<1>. HIDE DEF p
<1>8. ASSUME NEW j \in 1 .. n, NEW k \in 1 .. n, j < k PROVE p[j] \in ahead[p[k]]
  <2>1. p[j] # p[k]
    BY <1>1, <1>6, <1>8
  <2>2. p[k] \notin ahead[p[j]]
    BY <1>1, <1>3, <1>6, <1>8
  <2>. QED
    BY <1>6, <2>1, <2>2
<1>9. ASSUME NEW i \in S PROVE \E k \in 1 .. n : p[k] = i
  <2>. DEFINE k == Cardinality(ahead[i]) + 1
  <2>1. k \in 1 .. n /\ Cardinality(ahead[p[k]]) = Cardinality(ahead[i])
    BY <1>1, <1>2, <1>6
  <2>2. p[k] = i
    <3>1. p[k] \in S
      BY <1>6, <2>1
    <3>. QED
      BY <1>2, <1>3, <2>1, <3>1
  <2>. QED
    BY <2>1, <2>2
<1>10. ASSUME NEW j \in 1 .. n, NEW k \in 1 .. n, p[j] = p[k] PROVE j = k
  BY <1>1, <1>6, <1>10
<1>. QED
  BY <1>1, <1>7, <1>8, <1>9, <1>10 DEF p

(* A sequence in another order is a sequence of the same elements. *)
LEMMA ArrangedSeq ==
  ASSUME NEW T, NEW es \in Seq(T), NEW S \in SUBSET (1 .. Len(es)), NEW n \in Nat, NEW p \in [1 .. n -> S]
  PROVE  /\ Arranged(es, p) \in Seq(T) /\ Len(Arranged(es, p)) = n
         /\ \A k \in 1 .. n : Arranged(es, p)[k] = es[p[k]]
<1>1. \A i \in 1 .. Len(es) : es[i] \in T
  OBVIOUS
<1>2. \A k \in 1 .. n : es[p[k]] \in T
  BY <1>1
<1>3. Arranged(es, p) = [k \in 1 .. n |-> es[p[k]]]
  BY DEF Arranged
<1>4. Arranged(es, p) \in [1 .. n -> T]
  BY <1>2, <1>3
<1>. QED
  BY <1>3, <1>4

Distinct(es) == \A i, j \in 1 .. Len(es) : es[i].slot = es[j].slot => i = j

(* Sorting the index by age permutes it.                                   *)
LEMMA Sorting ==
  ASSUME NEW es \in Seq(Entry), Distinct(es)
  PROVE  LET s == SortedByAge(es)
         IN  /\ s \in Seq(Entry) /\ Len(s) = Len(es) /\ Distinct(s) /\ Range(s) = Range(es)
             /\ \A j, k \in 1 .. Len(s) : j < k => s[j].at <= s[k].at
<1>. DEFINE n == Len(es)
            s == SortedByAge(es)
            ahead == Older(es)
            p == Places(1 .. n, ahead)
<1>1. n \in Nat /\ DOMAIN es = 1 .. n /\ \A i \in 1 .. n : es[i] \in Entry
  OBVIOUS
<1>2. \A i \in 1 .. n : es[i].at \in Nat
  BY <1>1 DEF Entry, Now
<1>3. /\ ahead \in [1 .. n -> SUBSET (1 .. n)]
      /\ \A i, j \in 1 .. n : j \in ahead[i] <=> es[j].at < es[i].at \/ (es[j].at = es[i].at /\ j < i)
  BY <1>1 DEF Older
<1>4. IsFiniteSet(1 .. n) /\ Cardinality(1 .. n) = n
  <2>. HIDE DEF n
  <2>1. IsFiniteSet(1 .. n) /\ Cardinality(1 .. n) = IF 1 > n THEN 0 ELSE n - 1 + 1
    BY <1>1, FS_Interval
  <2>. QED
    BY <1>1, <2>1
<1>5. LinearOrder(1 .. n, ahead)
  <2>. HIDE DEF ahead, n
  <2>1. /\ \A i \in 1 .. n : i \notin ahead[i]
        /\ \A i, j \in 1 .. n : i # j => i \in ahead[j] \/ j \in ahead[i]
    BY <1>2, <1>3
  <2>2. ASSUME NEW i \in 1 .. n, NEW j \in 1 .. n, i \in ahead[j] PROVE ahead[i] \subseteq ahead[j]
    <3>1. SUFFICES ASSUME NEW k \in ahead[i] PROVE k \in ahead[j]
      OBVIOUS
    <3>2. k \in 1 .. n
      BY <1>3
    <3>. QED
      BY <1>2, <1>3, <2>2, <3>1, <3>2
  <2>. QED
    BY <1>3, <1>4, <2>1, <2>2 DEF LinearOrder
<1>6. s = Arranged(es, p)
  BY <1>1 DEF SortedByAge
<1>. HIDE DEF n, ahead, p, s
<1>7. /\ p \in [1 .. n -> 1 .. n]
      /\ \A j, k \in 1 .. n : j < k => p[j] \in ahead[p[k]]
  BY <1>4, <1>5, PlacesInOrder DEF p
<1>12. \A i \in 1 .. n : \E k \in 1 .. n : p[k] = i
  BY <1>4, <1>5, PlacesInOrder DEF p
<1>13. \A j, k \in 1 .. n : p[j] = p[k] => j = k
  BY <1>4, <1>5, PlacesInOrder DEF p
<1>14. s \in Seq(Entry) /\ Len(s) = n /\ \A k \in 1 .. n : s[k] = es[p[k]]
  <2>1. 1 .. n \in SUBSET (1 .. Len(es))
    BY DEF n
  <2>2. /\ Arranged(es, p) \in Seq(Entry) /\ Len(Arranged(es, p)) = n
        /\ \A k \in 1 .. n : Arranged(es, p)[k] = es[p[k]]
    BY <1>1, <1>7, <2>1, ArrangedSeq, Zenon
  <2>. QED
    BY <1>6, <2>2
<1>8. Range(s) = {s[k] : k \in 1 .. n} /\ Range(es) = {es[k] : k \in 1 .. n}
  BY <1>1, <1>14 DEF Range
<1>9. ASSUME NEW j \in 1 .. n, NEW k \in 1 .. n, s[j].slot = s[k].slot PROVE j = k
  <2>1. s[j] = es[p[j]] /\ s[k] = es[p[k]] /\ p[j] \in 1 .. n /\ p[k] \in 1 .. n
    BY <1>7, <1>14
  <2>2. p[j] = p[k]
    BY <1>9, <2>1 DEF Distinct, n
  <2>. QED
    BY <1>13, <2>2
<1>10. Range(s) = Range(es)
  <2>1. \A k \in 1 .. n : s[k] \in Range(es)
    BY <1>7, <1>8, <1>14
  <2>2. \A i \in 1 .. n : es[i] \in Range(s)
    <3>1. SUFFICES ASSUME NEW i \in 1 .. n PROVE es[i] \in Range(s)
      OBVIOUS
    <3>2. PICK k \in 1 .. n : p[k] = i
      BY <1>12
    <3>. QED
      BY <1>14, <1>8, <3>2
  <2>. QED
    BY <1>8, <2>1, <2>2
<1>11. ASSUME NEW j \in 1 .. n, NEW k \in 1 .. n, j < k PROVE s[j].at <= s[k].at
  <2>1. /\ p[j] \in ahead[p[k]] /\ p[j] \in 1 .. n /\ p[k] \in 1 .. n
        /\ s[j] = es[p[j]] /\ s[k] = es[p[k]]
    BY <1>7, <1>11, <1>14
  <2>. QED
    BY <1>2, <1>3, <2>1
<1>. QED
  BY <1>9, <1>10, <1>11, <1>14 DEF s, n, Distinct

(* record drops at most the one entry of its slot.                         *)
LEMMA Retaining ==
  ASSUME NEW es \in Seq(Entry), Distinct(es), NEW s
  PROVE  LET r == Retained(es, s)
         IN  /\ r \in Seq(Entry) /\ Distinct(r) /\ Len(r) >= Len(es) - 1
             /\ \A k \in 1 .. Len(r) : r[k].slot # s /\ r[k] \in Range(es)
<1>. DEFINE n == Len(es)
            S == Others(es, s)
            ahead == [i \in S |-> {j \in S : j < i}]
            p == Places(S, ahead)
            m == Cardinality(S)
            r == Retained(es, s)
<1>1. n \in Nat /\ DOMAIN es = 1 .. n
  OBVIOUS
<1>2. /\ S \in SUBSET (1 .. n) /\ \A i \in S : i \in Nat /\ es[i].slot # s
      /\ \A i \in 1 .. n : i \notin S => es[i].slot = s
  BY <1>1 DEF Others
<1>3. r = Arranged(es, p)
  BY DEF Retained
<1>. HIDE DEF n, S
<1>4. IsFiniteSet(1 .. n) /\ Cardinality(1 .. n) = n
  <2>1. IsFiniteSet(1 .. n) /\ Cardinality(1 .. n) = IF 1 > n THEN 0 ELSE n - 1 + 1
    BY <1>1, FS_Interval
  <2>. QED
    BY <1>1, <2>1
<1>5. LinearOrder(S, ahead)
  <2>1. IsFiniteSet(S)
    BY <1>2, <1>4, FS_Subset
  <2>2. ahead \in [S -> SUBSET S] /\ \A i, j \in S : j \in ahead[i] <=> j < i
    OBVIOUS
  <2>. HIDE DEF ahead
  <2>3. \A i \in S : i \notin ahead[i]
    BY <1>2, <2>2
  <2>4. \A i, j \in S : i # j => i \in ahead[j] \/ j \in ahead[i]
    BY <1>2, <2>2
  <2>5. \A i, j \in S : i \in ahead[j] => ahead[i] \subseteq ahead[j]
    BY <1>2, <2>2
  <2>. QED
    BY <2>1, <2>2, <2>3, <2>4, <2>5 DEF LinearOrder
<1>. HIDE DEF ahead, p, r
<1>6. /\ m \in Nat /\ p \in [1 .. m -> S]
      /\ \A j, k \in 1 .. m : p[j] = p[k] => j = k
  BY <1>5, PlacesInOrder DEF p
<1>7. m >= n - 1
  <2>1. IsFiniteSet((1 .. n) \ S) /\ Cardinality((1 .. n) \ S) = n - m
    <3>1. (1 .. n) \cap S = S
      BY <1>2
    <3>2. /\ IsFiniteSet((1 .. n) \ S)
          /\ Cardinality((1 .. n) \ S) = Cardinality(1 .. n) - Cardinality((1 .. n) \cap S)
      BY <1>4, FS_Difference, Zenon
    <3>. QED
      BY <1>4, <3>1, <3>2
  <2>2. \A i, j \in (1 .. n) \ S : i = j
    BY <1>2 DEF Distinct, n
  <2>3. CASE (1 .. n) \ S = {}
    BY <1>1, <1>6, <2>1, <2>3, FS_EmptySet
  <2>4. CASE (1 .. n) \ S # {}
    <3>1. PICK i : (1 .. n) \ S = {i}
      BY <2>2, <2>4
    <3>2. Cardinality((1 .. n) \ S) = 1
      BY <3>1, FS_Singleton
    <3>. QED
      BY <1>1, <1>6, <2>1, <3>2
  <2>. QED
    BY <2>3, <2>4
<1>. HIDE DEF m
<1>8. r \in Seq(Entry) /\ Len(r) = m /\ \A k \in 1 .. m : r[k] = es[p[k]]
  <2>1. S \in SUBSET (1 .. Len(es))
    BY <1>2 DEF n
  <2>2. /\ Arranged(es, p) \in Seq(Entry) /\ Len(Arranged(es, p)) = m
        /\ \A k \in 1 .. m : Arranged(es, p)[k] = es[p[k]]
    <3>1. m \in Nat /\ p \in [1 .. m -> S]
      BY <1>6
    <3>. QED
      BY <2>1, <3>1, ArrangedSeq
  <2>. QED
    BY <1>3, <2>2
<1>9. ASSUME NEW j \in 1 .. m, NEW k \in 1 .. m, r[j].slot = r[k].slot PROVE j = k
  <2>1. r[j] = es[p[j]] /\ r[k] = es[p[k]] /\ p[j] \in 1 .. n /\ p[k] \in 1 .. n
    BY <1>2, <1>6, <1>8
  <2>2. p[j] = p[k]
    BY <1>9, <2>1 DEF Distinct, n
  <2>. QED
    BY <1>6, <2>2
<1>10. ASSUME NEW k \in 1 .. m PROVE r[k].slot # s /\ r[k] \in Range(es)
  <2>1. p[k] \in S /\ r[k] = es[p[k]]
    BY <1>6, <1>8
  <2>. QED
    BY <1>1, <1>2, <2>1 DEF Range
<1>. QED
  BY <1>7, <1>8, <1>9, <1>10 DEF r, n, Distinct

(* A sum over a sequence of numbers exists, and its parts are numbers.     *)
LEMMA SumExists ==
  ASSUME NEW n \in Nat, NEW w \in [1 .. n -> Nat]
  PROVE  \E g \in [0 .. n -> Nat] : g[0] = 0 /\ \A k \in 1 .. n : g[k] = w[k] + g[k - 1]
<1>. DEFINE Sums(m, g) == g \in [0 .. m -> Nat] /\ g[0] = 0 /\ \A k \in 1 .. m : g[k] = w[k] + g[k - 1]
            Summed(m) == \E g : Sums(m, g)
            Bad == {m \in 0 .. n : ~Summed(m)}
<1>1. CASE Bad = {}
  <2>1. Summed(n)
    <3>. HIDE DEF Summed
    <3>. QED
      BY <1>1
  <2>. QED
    BY <2>1
<1>2. CASE Bad # {}
  <2>1. PICK m \in Bad : \A k \in Bad : m <= k
    <3>. HIDE DEF Summed
    <3>1. Bad \subseteq Nat
      OBVIOUS
    <3>. HIDE DEF Bad
    <3>. QED
      BY <1>2, <3>1, HasLeast
  <2>9. m \in 0 .. n /\ ~Summed(m) /\ \A k \in 0 .. n : ~Summed(k) => m <= k
    <3>. HIDE DEF Summed
    <3>. QED
      BY <2>1
  <2>2. m # 0
    <3>1. [i \in 0 .. 0 |-> 0] \in [0 .. 0 -> Nat] /\ [i \in 0 .. 0 |-> 0][0] = 0 /\ 1 .. 0 = {}
      OBVIOUS
    <3>2. Sums(0, [i \in 0 .. 0 |-> 0])
      BY <3>1
    <3>. QED
      BY <2>9, <3>2
  <2>3. m - 1 \in 0 .. n /\ Summed(m - 1)
    <3>. HIDE DEF Summed
    <3>. QED
      BY <2>9, <2>2
  <2>4. PICK g : Sums(m - 1, g)
    BY <2>3
  <2>. DEFINE h == [i \in 0 .. m |-> IF i = m THEN w[m] + g[m - 1] ELSE g[i]]
  <2>5. /\ m \in 1 .. n /\ w[m] \in Nat /\ g[m - 1] \in Nat
        /\ \A i \in 0 .. m - 1 : g[i] \in Nat
    BY <2>9, <2>2, <2>4
  <2>6. h \in [0 .. m -> Nat] /\ h[0] = 0
    BY <2>4, <2>5
  <2>7. ASSUME NEW k \in 1 .. m PROVE h[k] = w[k] + h[k - 1]
    <3>1. CASE k = m
      BY <2>5, <3>1
    <3>2. CASE k # m
      <4>1. k \in 1 .. m - 1 /\ h[k] = g[k] /\ h[k - 1] = g[k - 1]
        BY <2>5, <3>2
      <4>. QED
        BY <2>4, <4>1
    <3>. QED
      BY <3>1, <3>2
  <2>8. Sums(m, h)
    BY <2>6, <2>7
  <2>. QED
    BY <2>9, <2>8
<1>. QED
  BY <1>1, <1>2

(* Total adds up the sizes from the last entry on.                         *)
LEMMA TotalSums ==
  ASSUME NEW es \in Seq(Entry)
  PROVE  \E g \in [0 .. Len(es) -> Nat] :
            /\ Total(es) = g[Len(es)] /\ g[0] = 0
            /\ \A k \in 1 .. Len(es) : g[k] = es[Len(es) + 1 - k].size + g[k - 1]
<1>. DEFINE n == Len(es)
            w == [k \in 1 .. n |-> es[n + 1 - k].size]
            Sum(g) == g = [k \in 0 .. n |-> IF k = 0 THEN 0 ELSE es[n + 1 - k].size + g[k - 1]]
            f == CHOOSE g : Sum(g)
<1>1. n \in Nat /\ \A i \in 1 .. n : es[i] \in Entry
  OBVIOUS
<1>2. w \in [1 .. n -> Nat] /\ \A k \in 1 .. n : w[k] = es[n + 1 - k].size
  <2>1. \A i \in 1 .. n : es[i].size \in Nat
    BY <1>1 DEF Entry
  <2>2. \A k \in 1 .. n : n + 1 - k \in 1 .. n
    BY <1>1
  <2>. QED
    BY <2>1, <2>2
<1>3. Total(es) = f[n]
  BY DEF Total
<1>. HIDE DEF n, w
<1>4. PICK g \in [0 .. n -> Nat] : g[0] = 0 /\ \A k \in 1 .. n : g[k] = w[k] + g[k - 1]
  BY <1>1, <1>2, SumExists
<1>5. Sum(g)
  <2>1. \A k \in 0 .. n : g[k] = IF k = 0 THEN 0 ELSE es[n + 1 - k].size + g[k - 1]
    <3>1. \A k \in 0 .. n : k = 0 \/ k \in 1 .. n
      BY <1>1
    <3>2. ASSUME NEW k \in 1 .. n PROVE k # 0 /\ g[k] = es[n + 1 - k].size + g[k - 1]
      <4>1. w[k] = es[n + 1 - k].size
        BY <1>2
      <4>2. g[k] = w[k] + g[k - 1]
        BY <1>4
      <4>. QED
        BY <1>1, <4>1, <4>2
    <3>. QED
      BY <1>4, <3>1, <3>2
  <2>. QED
    BY <2>1
<1>6. Sum(f)
  <2>. HIDE DEF Sum
  <2>. QED
    BY <1>5
<1>7. f = g
  <2>. HIDE DEF f
  <2>1. /\ DOMAIN f = 0 .. n /\ f[0] = 0 /\ f = [k \in 0 .. n |-> f[k]]
        /\ \A k \in 1 .. n : f[k] = es[n + 1 - k].size + f[k - 1]
    <3>1. f = [k \in 0 .. n |-> IF k = 0 THEN 0 ELSE es[n + 1 - k].size + f[k - 1]]
      BY <1>6
    <3>2. 0 \in 0 .. n /\ \A k \in 1 .. n : k \in 0 .. n /\ k # 0
      BY <1>1
    <3>3. DOMAIN f = 0 .. n /\ f = [k \in 0 .. n |-> f[k]]
      BY <3>1
    <3>4. \A k \in 0 .. n : f[k] = IF k = 0 THEN 0 ELSE es[n + 1 - k].size + f[k - 1]
      BY <3>1
    <3>. QED
      BY <3>2, <3>3, <3>4
  <2>. DEFINE Bad == {k \in 0 .. n : f[k] # g[k]}
  <2>2. CASE Bad = {}
    <3>1. \A k \in 0 .. n : f[k] = g[k]
      BY <2>2
    <3>2. g = [k \in 0 .. n |-> g[k]]
      OBVIOUS
    <3>3. [k \in 0 .. n |-> f[k]] = [k \in 0 .. n |-> g[k]]
      BY <3>1
    <3>. QED
      BY <2>1, <3>2, <3>3
  <2>3. CASE Bad # {}
    <3>1. PICK k \in Bad : \A j \in Bad : k <= j
      <4>1. Bad \subseteq Nat
        OBVIOUS
      <4>. HIDE DEF Bad
      <4>. QED
        BY <2>3, <4>1, HasLeast
    <3>2. k \in 1 .. n /\ f[k] # g[k]
      BY <1>4, <2>1, <3>1
    <3>3. k - 1 \in 0 .. n /\ ~(k <= k - 1)
      BY <1>1, <3>2
    <3>4. f[k - 1] = g[k - 1]
      BY <3>1, <3>3
    <3>. QED
      BY <1>2, <1>4, <2>1, <3>2, <3>4
  <2>. QED
    BY <2>2, <2>3
<1>. QED
  <2>. HIDE DEF f
  <2>. QED
    BY <1>2, <1>3, <1>4, <1>7 DEF n

(* A total is a number, and that of no entries is 0.                       *)
LEMMA TotalType ==
  ASSUME NEW es \in Seq(Entry)
  PROVE  Total(es) \in Nat /\ (Len(es) = 0 => Total(es) = 0)
BY TotalSums

(* One entry more in front adds its size to the total.                     *)
LEMMA TotalAhead ==
  ASSUME NEW es \in Seq(Entry), NEW ds \in Seq(Entry), Len(es) = Len(ds) + 1,
         \A i \in 1 .. Len(ds) : es[i + 1] = ds[i]
  PROVE  Total(es) = es[1].size + Total(ds)
<1>. DEFINE n == Len(ds)
<1>1. n \in Nat /\ Len(es) = n + 1
  OBVIOUS
<1>2. PICK f \in [0 .. n + 1 -> Nat] :
         /\ Total(es) = f[n + 1] /\ f[0] = 0
         /\ \A k \in 1 .. n + 1 : f[k] = es[n + 2 - k].size + f[k - 1]
  <2>1. PICK f \in [0 .. Len(es) -> Nat] :
           /\ Total(es) = f[Len(es)] /\ f[0] = 0
           /\ \A k \in 1 .. Len(es) : f[k] = es[Len(es) + 1 - k].size + f[k - 1]
    BY TotalSums
  <2>2. \A k \in 1 .. n + 1 : n + 1 + 1 - k = n + 2 - k
    BY <1>1
  <2>. QED
    BY <1>1, <2>1, <2>2
<1>3. PICK g \in [0 .. n -> Nat] :
         /\ Total(ds) = g[n] /\ g[0] = 0
         /\ \A k \in 1 .. n : g[k] = ds[n + 1 - k].size + g[k - 1]
  BY TotalSums
<1>4. \A k \in 1 .. n : es[n + 2 - k] = ds[n + 1 - k]
  <2>1. \A k \in 1 .. n : n + 1 - k \in 1 .. n /\ (n + 1 - k) + 1 = n + 2 - k
    BY <1>1
  <2>. QED
    BY <2>1
<1>. HIDE DEF n
<1>. DEFINE Bad == {k \in 0 .. n : f[k] # g[k]}
<1>5. Bad = {}
  <2>1. SUFFICES ASSUME Bad # {} PROVE FALSE
    OBVIOUS
  <2>2. PICK k \in Bad : \A j \in Bad : k <= j
    <3>1. Bad \subseteq Nat
      OBVIOUS
    <3>. HIDE DEF Bad
    <3>. QED
      BY <2>1, <3>1, HasLeast
  <2>3. k \in 1 .. n /\ f[k] # g[k]
    BY <1>2, <1>3, <2>2
  <2>4. k - 1 \in 0 .. n /\ ~(k <= k - 1)
    BY <1>1, <2>3
  <2>6. f[k - 1] = g[k - 1]
    BY <2>2, <2>4
  <2>5. f[k] = es[n + 2 - k].size + f[k - 1]
    BY <1>1, <1>2, <2>3
  <2>. QED
    BY <1>3, <1>4, <2>3, <2>5, <2>6
<1>6. f[n] = g[n]
  <2>1. n \in 0 .. n
    BY <1>1
  <2>2. n \notin Bad
    BY <1>5, Zenon
  <2>. QED
    BY <2>1, <2>2
<1>7. f[n + 1] = es[1].size + f[n]
  <2>1. n + 1 \in 1 .. n + 1 /\ n + 2 - (n + 1) = 1 /\ (n + 1) - 1 = n
    BY <1>1
  <2>. QED
    BY <1>2, <2>1
<1>. QED
  BY <1>2, <1>3, <1>6, <1>7

(* The first m of the sorted entries are evicted, and m is as small as may *)
(* be: the entry evicted last would not have fitted.                       *)
LEMMA Keeping ==
  ASSUME NEW es \in Seq(Entry), Distinct(es)
  PROVE  LET s == SortedByAge(es)
             n == Len(s)
         IN  \E m \in 0 .. n :
               /\ Kept(es) \in Seq(Entry) /\ Len(Kept(es)) = n - m
               /\ \A i \in 1 .. n - m : Kept(es)[i] = s[m + i]
               /\ Total(Kept(es)) <= MaxBytes
               /\ m > 0 => Total(Kept(es)) + s[m].size > MaxBytes
<1>. DEFINE s == SortedByAge(es)
            n == Len(s)
            tail(m) == SubSeq(s, m + 1, n)
            fits == {i \in 0 .. n : Total(tail(i)) <= MaxBytes}
            m == Min(fits)
<1>1. s \in Seq(Entry) /\ n \in Nat
  BY Sorting
<1>2. Kept(es) = SubSeq(s, m + 1, n)
  BY DEF Kept
<1>. HIDE DEF s
<1>3. \A i \in 0 .. n : /\ tail(i) \in Seq(Entry) /\ Len(tail(i)) = n - i
                        /\ \A k \in 1 .. n - i : tail(i)[k] = s[i + k]
  <2>1. SUFFICES ASSUME NEW i \in 0 .. n
                 PROVE  /\ tail(i) \in Seq(Entry) /\ Len(tail(i)) = n - i
                        /\ \A k \in 1 .. n - i : tail(i)[k] = s[i + k]
    OBVIOUS
  <2>2. /\ SubSeq(s, i + 1, n) \in Seq(Entry)
        /\ Len(SubSeq(s, i + 1, n)) = IF i + 1 <= n THEN n - (i + 1) + 1 ELSE 0
        /\ \A k \in 1 .. n - (i + 1) + 1 : SubSeq(s, i + 1, n)[k] = s[(i + 1) + k - 1]
    <3>1. \A k \in i + 1 .. n : s[k] \in Entry
      BY <1>1
    <3>. QED
      BY <1>1, <3>1, SubSeqProperties
  <2>3. n - (i + 1) + 1 = n - i /\ \A k \in 1 .. n - i : (i + 1) + k - 1 = i + k
    BY <1>1
  <2>. QED
    BY <1>1, <2>2, <2>3
<1>. HIDE DEF tail
<1>4. m \in fits /\ \A i \in fits : m <= i
  <2>1. n \in fits
    <3>1. Total(tail(n)) = 0
      BY <1>1, <1>3, TotalType
    <3>. QED
      BY <1>1, <3>1, StoreAssumption
  <2>2. fits \subseteq Nat
    OBVIOUS
  <2>. HIDE DEF fits
  <2>3. \E x \in fits : \A y \in fits : x <= y
    BY <2>1, <2>2, HasLeast
  <2>. QED
    BY <2>3 DEF Min
<1>5. Kept(es) = tail(m)
  BY <1>2 DEF tail
<1>. HIDE DEF m
<1>6. m \in 0 .. n /\ Total(tail(m)) <= MaxBytes
  BY <1>4
<1>7. ASSUME m > 0 PROVE Total(tail(m)) + s[m].size > MaxBytes
  <2>1. m - 1 \in 0 .. n /\ m - 1 \notin fits
    BY <1>1, <1>4, <1>6, <1>7
  <2>2. ~(Total(tail(m - 1)) <= MaxBytes)
    BY <2>1
  <2>3. Total(tail(m - 1)) = tail(m - 1)[1].size + Total(tail(m))
    <3>1. /\ tail(m) \in Seq(Entry) /\ tail(m - 1) \in Seq(Entry)
          /\ Len(tail(m)) = n - m /\ Len(tail(m - 1)) = n - m + 1
      BY <1>1, <1>3, <1>6, <2>1
    <3>2. \A i \in 1 .. Len(tail(m)) : tail(m - 1)[i + 1] = tail(m)[i]
      <4>1. SUFFICES ASSUME NEW i \in 1 .. n - m PROVE tail(m - 1)[i + 1] = tail(m)[i]
        BY <3>1
      <4>2. i + 1 \in 1 .. n - (m - 1) /\ (m - 1) + (i + 1) = m + i
        BY <1>1, <1>6
      <4>3. tail(m - 1)[i + 1] = s[(m - 1) + (i + 1)]
        BY <1>3, <2>1, <4>2
      <4>4. tail(m)[i] = s[m + i]
        BY <1>3, <1>6
      <4>. QED
        BY <4>2, <4>3, <4>4
    <3>. QED
      BY <3>1, <3>2, TotalAhead
  <2>4. tail(m - 1)[1] = s[m]
    <3>1. 1 \in 1 .. n - (m - 1) /\ (m - 1) + 1 = m
      BY <1>1, <1>6, <1>7
    <3>. QED
      BY <1>3, <2>1, <3>1
  <2>5. Total(tail(m)) \in Nat /\ s[m].size \in Nat
    <3>1. s[m] \in Entry
      BY <1>1, <1>6, <1>7
    <3>. QED
      BY <1>3, <1>6, <3>1, TotalType DEF Entry
  <2>. QED
    BY <2>2, <2>3, <2>4, <2>5, StoreAssumption
<1>8. /\ Kept(es) \in Seq(Entry) /\ Len(Kept(es)) = n - m
      /\ \A i \in 1 .. n - m : Kept(es)[i] = s[m + i]
  BY <1>3, <1>5, <1>6
<1>9. Total(Kept(es)) <= MaxBytes /\ (m > 0 => Total(Kept(es)) + s[m].size > MaxBytes)
  BY <1>5, <1>6, <1>7
<1>. QED
  BY <1>6, <1>8, <1>9, Zenon DEF s

(* The index, in memory and saved, lists a slot once.                      *)
Listing(es) == es \in Seq(Entry) /\ Distinct(es)
CacheInv == Listing(cache) /\ (cacheFile # Torn => Listing(cacheFile))

(* Both lists are empty at the start.                                      *)
LEMMA InitCache == Init => CacheInv
BY DEF Init, CacheInv, Listing, Distinct

(* What record leaves is a list of the slots, the new one last. *)
LEMMA RecordListing ==
  ASSUME Listing(cache), InstallInv, NEW s \in Slot, NEW t \in Now, RecordCache(s, t)
  PROVE  /\ Listing(cache') /\ Len(cache') >= Len(cache)
         /\ \A k \in Range(cache') : k \in Range(cache) \/ k.slot = s
<1>. DEFINE r == Retained(cache, s)
            e == [slot |-> s, at |-> t, size |-> Size[archive[s]]]
<1>1. /\ r \in Seq(Entry) /\ Distinct(r) /\ Len(r) >= Len(cache) - 1
      /\ \A k \in 1 .. Len(r) : r[k].slot # s /\ r[k] \in Range(cache)
  BY Retaining DEF Listing
<1>2. e \in Entry /\ e.slot = s
  <2>1. Size[archive[s]] \in Nat
    BY StoreAssumption DEF RecordCache, Whole
  <2>. QED
    BY <2>1 DEF Entry
<1>3. cache' = Append(r, e) /\ Len(cache) \in Nat
  BY DEF RecordCache, Listing
<1>. HIDE DEF r, e
<1>4. /\ cache' \in Seq(Entry) /\ Len(cache') = Len(r) + 1 /\ Len(r) \in Nat
      /\ \A i \in 1 .. Len(r) + 1 : cache'[i] = IF i = Len(r) + 1 THEN e ELSE r[i]
      /\ 1 .. Len(r) + 1 = (1 .. Len(r)) \cup {Len(r) + 1} /\ Len(r) + 1 \notin 1 .. Len(r)
  BY <1>1, <1>2, <1>3
<1>5. Distinct(cache')
  BY <1>1, <1>2, <1>4 DEF Distinct
<1>6. \A k \in Range(cache') : k \in Range(cache) \/ k.slot = s
  BY <1>1, <1>2, <1>4 DEF Range
<1>. QED
  BY <1>1, <1>3, <1>4, <1>5, <1>6 DEF Listing

(* What evict_to_fit does to the index and to the directories.             *)
LEMMA EvictListing ==
  ASSUME Listing(cache), InstallInv, Evict
  PROVE  /\ Listing(cache') /\ Range(cache') \subseteq Range(cache)
         /\ EvictsOldestFirst /\ EvictionSparesListed
<1>. DEFINE s == SortedByAge(cache)
            n == Len(s)
<1>1. /\ s \in Seq(Entry) /\ n \in Nat /\ n = Len(cache) /\ Distinct(s) /\ Range(s) = Range(cache)
      /\ \A j, k \in 1 .. n : j < k => s[j].at <= s[k].at
  BY Sorting DEF Listing
<1>2. cache' = Kept(cache)
  BY DEF Evict
<1>3. PICK m \in 0 .. n :
         /\ cache' \in Seq(Entry) /\ Len(cache') = n - m
         /\ \A i \in 1 .. n - m : cache'[i] = s[m + i]
         /\ Total(cache') <= MaxBytes
         /\ m > 0 => Total(cache') + s[m].size > MaxBytes
  BY <1>2, Keeping DEF Listing
<1>. HIDE DEF s
<1>4. /\ \A i \in 1 .. n : s[i] \in Entry
      /\ Range(s) = {s[i] : i \in 1 .. n} /\ Range(cache') = {cache'[i] : i \in 1 .. n - m}
  BY <1>1, <1>3 DEF Range
<1>5. \A i \in 1 .. n - m : m + i \in m + 1 .. n /\ cache'[i] = s[m + i]
  BY <1>1, <1>3
<1>6. \A k \in Range(cache') : \E i \in m + 1 .. n : k = s[i]
  BY <1>4, <1>5
<1>7. \A i \in m + 1 .. n : s[i] \in Range(cache')
  <2>1. SUFFICES ASSUME NEW i \in m + 1 .. n PROVE s[i] \in Range(cache')
    OBVIOUS
  <2>2. i - m \in 1 .. n - m /\ m + (i - m) = i
    BY <1>1
  <2>. QED
    BY <1>4, <1>5, <2>2
<1>8. \A i, j \in 1 .. n : s[i].slot = s[j].slot => i = j
  BY <1>1 DEF Distinct
<1>9. Listing(cache')
  <2>1. ASSUME NEW i \in 1 .. n - m, NEW j \in 1 .. n - m, cache'[i].slot = cache'[j].slot PROVE i = j
    <3>1. m + i \in 1 .. n /\ m + j \in 1 .. n /\ s[m + i].slot = s[m + j].slot
      BY <1>1, <1>3, <2>1
    <3>2. m + i = m + j
      BY <1>8, <3>1
    <3>. QED
      BY <3>2
  <2>. QED
    BY <1>3, <2>1 DEF Listing, Distinct
<1>10. \A g \in Range(cache) \ Range(cache') : \E i \in 1 .. m : g = s[i]
  <2>1. SUFFICES ASSUME NEW g \in Range(cache) \ Range(cache') PROVE \E i \in 1 .. m : g = s[i]
    OBVIOUS
  <2>2. PICK i \in 1 .. n : g = s[i]
    BY <1>1, <1>4
  <2>3. i \notin m + 1 .. n
    BY <1>7, <2>2
  <2>4. i \in 1 .. m
    BY <1>1, <2>3
  <2>. QED
    BY <2>2, <2>4
<1>11. ASSUME NEW g \in Range(cache) \ Range(cache'), NEW k \in Range(cache')
       PROVE  g.at <= k.at /\ g.slot # k.slot
  <2>1. PICK i \in 1 .. m : g = s[i]
    BY <1>10
  <2>2. PICK j \in m + 1 .. n : k = s[j]
    BY <1>6
  <2>3. i \in 1 .. n /\ j \in 1 .. n /\ i < j /\ i # j
    BY <1>1
  <2>. QED
    BY <1>1, <1>8, <2>1, <2>2, <2>3
<1>12. ASSUME Len(cache') < Len(cache)
       PROVE  \E g \in Range(cache) \ Range(cache') : Total(cache') + g.size > MaxBytes
  <2>1. m \in 1 .. n
    BY <1>1, <1>3, <1>12
  <2>2. s[m] \in Range(cache)
    BY <1>1, <1>4, <2>1
  <2>3. s[m] \notin Range(cache')
    <3>1. SUFFICES ASSUME s[m] \in Range(cache') PROVE FALSE
      OBVIOUS
    <3>2. PICK i \in m + 1 .. n : s[m] = s[i]
      BY <1>6, <3>1
    <3>3. i \in 1 .. n /\ i # m
      BY <1>1, <2>1
    <3>. QED
      BY <1>8, <2>1, <3>2, <3>3
  <2>. QED
    BY <1>3, <2>1, <2>2, <2>3
<1>13. EvictsOldestFirst
  BY <1>3, <1>11, <1>12 DEF EvictsOldestFirst
<1>14. \A e \in Range(cache') : e.slot \in Slot
  <2>1. \A k \in 1 .. n - m : cache'[k] \in Entry
    BY <1>3
  <2>. QED
    BY <1>4, <2>1 DEF Entry
<1>15. EvictionSparesListed
  <2>. DEFINE evicted == {g.slot : g \in Range(cache) \ Range(cache')}
  <2>1. SUFFICES ASSUME NEW e \in Range(cache')
                 PROVE  /\ archive'[e.slot] = archive[e.slot]
                        /\ \A f \in File : payload'[e.slot][f] = payload[e.slot][f]
    BY DEF EvictionSparesListed
  <2>. DEFINE unpacked == {x \in evicted \X File : payload[x[1]][x[2]] # Absent}
  <2>2. PICK gone \in SUBSET evicted, deleted \in SUBSET unpacked :
          /\ archive' = [t \in Slot |-> IF t \in gone THEN Absent ELSE archive[t]]
          /\ payload' = [t \in Slot |-> [f \in File |->
                            IF <<t, f>> \in deleted THEN Absent ELSE payload[t][f]]]
    BY Zenon DEF Evict
  <2>3. e.slot \in Slot
    BY <1>14
  <2>4. e.slot \notin evicted
    BY <1>11
  <2>. HIDE DEF evicted
  <2>. QED
    BY <2>2, <2>3, <2>4
<1>16. Range(cache') \subseteq Range(cache)
  <2>1. m + 1 .. n \subseteq 1 .. n
    BY <1>1
  <2>. QED
    BY <1>1, <1>4, <1>6, <2>1
<1>. QED
  BY <1>9, <1>13, <1>15, <1>16

(* Every step keeps both lists: record and evict_to_fit rewrite the one in *)
(* memory, save and open copy it.                                          *)
LEMMA NextCache == InstallInv /\ CacheInv /\ [Next]_vars => CacheInv'
<1> SUFFICES ASSUME InstallInv, CacheInv, [Next]_vars PROVE CacheInv'
  OBVIOUS
<1>1. CASE UNCHANGED <<cache, cacheFile>>
  BY <1>1 DEF CacheInv
<1>2. CASE Install
  BY <1>1, <1>2 DEF Install, InstallArchive, InstallPayload, InstallIndex, files, memory
<1>3. ASSUME NEW s \in Slot, NEW t \in Now, RecordCache(s, t) PROVE CacheInv'
  <2>1. Listing(cache') /\ cacheFile' = cacheFile
    BY <1>3, RecordListing DEF CacheInv, RecordCache, files
  <2>. QED
    BY <2>1 DEF CacheInv
<1>4. ASSUME NEW n \in Name, NEW v \in Version, RecordInstall(n, v) PROVE CacheInv'
  BY <1>1, <1>4 DEF RecordInstall, files
<1>5. ASSUME NEW n \in Name, RollbackPackage(n) PROVE CacheInv'
  BY <1>1, <1>5 DEF RollbackPackage, files
<1>6. CASE Evict
  <2>1. Listing(cache') /\ cacheFile' = cacheFile
    BY <1>6, EvictListing DEF CacheInv, Evict, files
  <2>. QED
    BY <2>1 DEF CacheInv
<1>7. CASE SaveCache
  BY <1>7 DEF CacheInv, SaveCache, memory
<1>8. CASE SaveHistory
  BY <1>1, <1>8 DEF SaveHistory, memory
<1>9. CASE Crash
  <2>1. cache' = <<>> /\ cacheFile' = cacheFile
    BY <1>9 DEF Crash, files
  <2>. QED
    BY <2>1 DEF CacheInv, Listing, Distinct
<1>10. CASE Open
  BY <1>10 DEF CacheInv, Open, files
<1>11. CASE UNCHANGED vars
  BY <1>1, <1>11 DEF vars, files, memory
<1>. QED
  BY <1>2, <1>3, <1>4, <1>5, <1>6, <1>7, <1>8, <1>9, <1>10, <1>11 DEF Next

(* Only an eviction removes files: every other step leaves one, or writes  *)
(* it, whole or torn.                                                      *)
LEMMA OthersSpare ==
  ASSUME InstallInv, CacheInv, [Next]_vars, ~Evict
  PROVE  EvictionSparesListed
<1>1. CASE UNCHANGED disk
  BY <1>1 DEF EvictionSparesListed, disk
<1>2. ASSUME UNCHANGED cache, NEW e \in Range(cache') PROVE e.slot \in Slot
  <2>1. PICK i \in DOMAIN cache : e = cache[i]
    BY <1>2 DEF Range
  <2>2. cache[i] \in Entry
    BY DEF CacheInv, Listing
  <2>. QED
    BY <2>1, <2>2 DEF Entry
<1>3. ASSUME NEW b \in Build, InstallArchive(b) PROVE EvictionSparesListed
  <2>1. SUFFICES ASSUME NEW e \in Range(cache'), archive'[e.slot] = Absent
                 PROVE  archive[e.slot] = Absent
    BY <1>3 DEF InstallArchive, EvictionSparesListed
  <2>2. e.slot \in Slot /\ archive \in [Slot -> Content]
    BY <1>2, <1>3 DEF InstallArchive, memory, InstallInv, DiskType
  <2>3. archive' = [archive EXCEPT ![SlotOf[b]] = b] \/ archive' = [archive EXCEPT ![SlotOf[b]] = Torn]
    BY <1>3 DEF InstallArchive
  <2>. QED
    BY <2>1, <2>2, <2>3, StoreAssumption
<1>4. CASE InstallPayload
  <2>1. SUFFICES ASSUME NEW e \in Range(cache'), NEW f \in File, payload'[e.slot][f] = Absent
                 PROVE  payload[e.slot][f] = Absent
    BY <1>4 DEF InstallPayload, EvictionSparesListed
  <2>2. e.slot \in Slot /\ payload \in [Slot -> [File -> Content]] /\ job.build \in Build
    BY <1>2, <1>4 DEF InstallPayload, memory, InstallInv, DiskType, Progress, Job
  <2>3. PICK s \in Slot, g \in File :
          \/ payload' = [payload EXCEPT ![s][g] = job.build]
          \/ payload' = [payload EXCEPT ![s][g] = Torn]
          \/ payload' = payload
    <3>1. SlotOf[job.build] \in Slot /\ Files[job.build][job.step] \in File
      BY <1>4, <2>2, BuildFields DEF InstallPayload
    <3>. QED
      BY <1>4, <3>1 DEF InstallPayload
  <2>4. job.build # Absent /\ Torn # Absent
    BY <2>2, StoreAssumption
  <2>5. CASE e.slot = s /\ f = g
    BY <2>1, <2>2, <2>3, <2>4, <2>5
  <2>6. CASE ~(e.slot = s /\ f = g)
    BY <2>1, <2>2, <2>3, <2>6
  <2>. QED
    BY <2>5, <2>6
<1>5. CASE Install
  BY <1>1, <1>3, <1>4, <1>5 DEF Install, InstallIndex
<1>6. /\ \A s \in Slot, t \in Now : RecordCache(s, t) => UNCHANGED disk
      /\ \A n \in Name, v \in Version : RecordInstall(n, v) => UNCHANGED disk
      /\ \A n \in Name : RollbackPackage(n) => UNCHANGED disk
  BY DEF RecordCache, RecordInstall, RollbackPackage
<1>7. CASE SaveCache \/ SaveHistory \/ Crash \/ Open \/ UNCHANGED vars
  BY <1>1, <1>7 DEF SaveCache, SaveHistory, Crash, Open, vars
<1>. QED
  BY <1>1, <1>5, <1>6, <1>7 DEF Next

(* No step but an eviction shortens the index of an open store.            *)
LEMMA OthersKeep ==
  ASSUME InstallInv, CacheInv, [Next]_vars, ~Evict
  PROVE  EvictsOldestFirst
<1>1. SUFFICES ASSUME up, up', Len(cache') < Len(cache) PROVE FALSE
  BY DEF EvictsOldestFirst
<1>2. Len(cache) \in Nat
  BY DEF CacheInv, Listing
<1>3. cache' # cache
  BY <1>1, <1>2
<1>4. ~Install /\ ~SaveCache /\ ~SaveHistory /\ ~Crash /\ ~Open /\ ~UNCHANGED vars
  BY <1>1, <1>3 DEF Install, InstallArchive, InstallPayload, InstallIndex,
                    SaveCache, SaveHistory, Crash, Open, vars, memory
<1>5. /\ \A n \in Name, v \in Version : ~RecordInstall(n, v)
      /\ \A n \in Name : ~RollbackPackage(n)
  BY <1>3 DEF RecordInstall, RollbackPackage
<1>6. PICK s \in Slot, t \in Now : RecordCache(s, t)
  BY <1>4, <1>5 DEF Next
<1>7. Listing(cache') /\ Len(cache') >= Len(cache)
  BY <1>6, RecordListing DEF CacheInv
<1>. QED
  BY <1>1, <1>2, <1>7 DEF Listing

(* Until a process is killed, what the index in memory lists is there.     *)
LagInv == crashes = 0 => \A e \in Range(cache) : archive[e.slot] # Absent

(* Every step keeps that: only what is there is recorded, and what an      *)
(* eviction deletes it no longer lists.                                    *)
LEMMA NextLag == InstallInv /\ CacheInv /\ ProcessInv /\ LagInv /\ [Next]_vars => LagInv'
<1>. SUFFICES ASSUME InstallInv, CacheInv, ProcessInv, LagInv, [Next]_vars, crashes' = 0,
                     NEW e \in Range(cache')
              PROVE  archive'[e.slot] # Absent
  BY DEF LagInv
<1>1. EvictionSparesListed
  BY EvictListing, OthersSpare DEF CacheInv
<1>2. ~Crash
  BY DEF Crash, ProcessInv
<1>3. crashes = 0 /\ up
  <2>1. crashes' = crashes
    BY <1>2 DEF Next, Install, InstallArchive, InstallPayload, InstallIndex, RecordCache,
                RecordInstall, RollbackPackage, Evict, SaveCache, SaveHistory, Open, vars
  <2>. QED
    BY <2>1 DEF ProcessInv
<1>4. SUFFICES archive[e.slot] # Absent
  BY <1>1 DEF EvictionSparesListed
<1>5. CASE e \in Range(cache)
  BY <1>3, <1>5 DEF LagInv
<1>6. CASE e \notin Range(cache)
  <2>1. ~Evict
    BY <1>6, EvictListing DEF CacheInv
  <2>2. ~Install /\ ~SaveCache /\ ~SaveHistory /\ ~Open /\ ~UNCHANGED vars
    BY <1>3, <1>6 DEF Install, InstallArchive, InstallPayload, InstallIndex,
                      SaveCache, SaveHistory, Open, vars, memory
  <2>3. /\ \A n \in Name, v \in Version : ~RecordInstall(n, v)
        /\ \A n \in Name : ~RollbackPackage(n)
    BY <1>6 DEF RecordInstall, RollbackPackage
  <2>4. PICK s \in Slot, t \in Now : RecordCache(s, t)
    BY <1>2, <2>1, <2>2, <2>3 DEF Next
  <2>5. e.slot = s
    BY <1>6, <2>4, RecordListing DEF CacheInv
  <2>. QED
    BY <2>4, <2>5, StoreAssumption DEF RecordCache, Whole
<1>. QED
  BY <1>5, <1>6

(* Every evict_to_fit, of any index that records, reloads and crashes have *)
(* left, drops the oldest entries, as few as make the rest fit, and with   *)
(* them no file of a version that memory goes on listing; and until a      *)
(* process is killed, what packages.json lists and the disk no longer has, *)
(* memory no longer lists.                                                 *)
THEOREM EvictionsSound == Spec => EvictionSound
<1>1. InstallInv /\ CacheInv /\ [Next]_vars => EvictsOldestFirst /\ EvictionSparesListed
  BY EvictListing, OthersSpare, OthersKeep DEF CacheInv
<1>2. InstallInv /\ CacheInv /\ [Next]_vars => [EvictsOldestFirst /\ EvictionSparesListed]_vars
  BY <1>1
<1>3. Init => LagInv
  BY DEF Init, LagInv, Range
<1>4. LagInv => FileLagsOnly
  BY DEF LagInv, FileLagsOnly
<1>. QED
  BY <1>2, <1>3, <1>4, InitInstall, NextInstall, InitCache, NextCache, InitProcess, NextProcess,
     NextLag, PTL DEF Spec, EvictionSound
=============================================================================
