\* Installs, rollbacks, evictions and kills: two versions of a library, two
\* builds of the first, and an entry that escapes payload/.
SPECIFICATION Spec
CONSTANTS
  lib = lib  f1 = f1  f3 = f3
  Absent = Absent  Torn = Torn  Idle = Idle
  Name = {lib}
  Version = {1, 2}
  Build <- StoreBuilds
  SlotOf <- StoreSlotOf
  File = {f1, f3}
  Files <- StoreFiles
  Escaping = {f3}
  Needs <- StoreNeeds
  Loadable = {"lib1", "lib1b", "lib2"}
  Size <- StoreSize
  MaxBytes = 2
  Clock = 2
  MaxHistory = 4
  Crashes = 1
INVARIANTS RollbackAlternates
PROPERTIES InstallCompletes EvictionSound
CHECK_DEADLOCK FALSE
