--------------------------- MODULE StorageProofs ---------------------------
(***************************************************************************)
(* Proofs about Storage, for any number of sets and any faults: it is well *)
(* typed, a set leaves no truncated file, an acknowledged set survives;    *)
(* and, under kills and failing operations only, it implements DurableMap. *)
(***************************************************************************)
EXTENDS Storage, TLAPS

(* open restores only from a backup it could read.                           *)
RestoreReadable == pc \in {"restore", "restoring"} => Readable(backup)

\* The empty map is a version.
LEMMA ZeroIsVersion == 0 \in Versions /\ Versions \subseteq Int
  BY StorageAssumption DEF Versions

\* Every step keeps the versions and the files in their sets.
LEMMA Numbers ==
  ASSUME NumbersOK, RestoreReadable, [Next]_vars
  PROVE  NumbersOK'
<1> USE StorageAssumption, ZeroIsVersion
        DEF NumbersOK, Versions, Files, Missing, Empty, Torn
<1>1. CASE open
  BY <1>1 DEF open, load_json_map, Readable, read_map_file, Opened, files, observers
<1>2. CASE RestoreTruncate
  BY <1>2 DEF RestoreTruncate
<1>3. CASE RestoreFinish \/ RestoreFails
  <2>1. read_map_file(backup) \in Versions
    BY <1>3 DEF RestoreFinish, RestoreFails, RestoreReadable, Readable, read_map_file
  <2> QED
    BY <1>3, <2>1 DEF RestoreFinish, RestoreFails, Opened, files, observers
<1>4. CASE set
  BY <1>4 DEF set, files, observers
<1>5. CASE CreateTmp \/ WriteTmp \/ SyncTmp
  BY <1>5 DEF CreateTmp, WriteTmp, SyncTmp, observers
<1>6. CASE Rename
  BY <1>6 DEF Rename, OnDisk, observers
<1>7. CASE CopyTruncate \/ CopyFinish \/ CopyFails
  BY <1>7 DEF CopyTruncate, CopyFinish, CopyFails, files, observers
<1>8. CASE SyncDir
  BY <1>8 DEF SyncDir
<1>9. CASE SetFails \/ Kill
  BY <1>9 DEF SetFails, Kill, Down, files, observers
<1>10. CASE PowerLoss
  BY <1>10 DEF PowerLoss, Down, OnDisk
<1>11. CASE Damage
  BY <1>11 DEF Damage
<1>12. CASE UNCHANGED vars
  BY <1>12 DEF vars, files, observers
<1> QED
  BY <1>1, <1>2, <1>3, <1>4, <1>5, <1>6, <1>7, <1>8, <1>9, <1>10, <1>11,
     <1>12 DEF Next, Load, Flush

\* Every step keeps the control and the flags in their sets.
LEMMA Flags ==
  ASSUME FlagsOK, [Next]_vars
  PROVE  FlagsOK'
<1> USE DEF FlagsOK
<1>1. CASE open
  BY <1>1 DEF open, load_json_map, Opened, files, observers
<1>2. CASE RestoreTruncate \/ RestoreFinish \/ RestoreFails
  BY <1>2 DEF RestoreTruncate, RestoreFinish, RestoreFails, Opened, files, observers
<1>3. CASE set \/ CreateTmp \/ WriteTmp \/ SyncTmp
  BY <1>3 DEF set, CreateTmp, WriteTmp, SyncTmp, files, observers
<1>4. CASE Rename
  BY <1>4 DEF Rename, observers
<1>5. CASE CopyTruncate \/ CopyFinish \/ CopyFails
  BY <1>5 DEF CopyTruncate, CopyFinish, CopyFails, files, observers
<1>6. CASE SyncDir
  BY <1>6 DEF SyncDir
<1>7. CASE SetFails \/ Kill
  BY <1>7 DEF SetFails, Kill, Down, files, observers
<1>8. CASE PowerLoss
  BY <1>8 DEF PowerLoss, Down
<1>9. CASE Damage
  BY <1>9 DEF Damage
<1>10. CASE UNCHANGED vars
  BY <1>10 DEF vars, files, observers
<1> QED
  BY <1>1, <1>2, <1>3, <1>4, <1>5, <1>6, <1>7, <1>8, <1>9, <1>10
     DEF Next, Load, Flush

\* The backup does not change while open restores from it.
LEMMA RestoreStaysReadable ==
  ASSUME RestoreReadable, [Next]_vars
  PROVE  RestoreReadable'
<1> USE DEF RestoreReadable
<1>1. CASE open
  BY <1>1 DEF open, load_json_map, Opened, Readable, files, observers
<1>2. CASE RestoreTruncate
  BY <1>2 DEF RestoreTruncate, Readable
<1>3. CASE UNCHANGED vars
  BY <1>3 DEF vars, files, Readable
<1>4. CASE Damage
  BY <1>4 DEF Damage, Readable
<1>5. CASE RestoreFinish \/ RestoreFails \/ set \/ Kill \/ PowerLoss \/ Flush
  <2>1. pc' \notin {"restore", "restoring"}
    BY <1>5 DEF RestoreFinish, RestoreFails, Opened, set, Kill, PowerLoss, Down,
       Flush, CreateTmp, WriteTmp, SyncTmp, Rename, CopyTruncate, CopyFinish,
       CopyFails, SyncDir, SetFails
  <2> QED
    BY <2>1
<1> QED
  BY <1>1, <1>2, <1>3, <1>4, <1>5 DEF Next, Load

(* The variables of Storage have their types under every fault.              *)
THEOREM TypeCorrect == Spec => []TypeOK
<1>1. Init => TypeOK /\ RestoreReadable
  <2>1. Init => NumbersOK
    BY ZeroIsVersion DEF Init, NumbersOK, Files
  <2>2. Init => FlagsOK
    BY DEF Init, FlagsOK
  <2>3. Init => RestoreReadable
    BY DEF Init, RestoreReadable
  <2> QED
    BY <2>1, <2>2, <2>3 DEF TypeOK
<1>2. TypeOK /\ RestoreReadable /\ [Next]_vars => (TypeOK /\ RestoreReadable)'
  BY Numbers, Flags, RestoreStaysReadable DEF TypeOK
<1> QED
  BY <1>1, <1>2, PTL DEF Spec

-----------------------------------------------------------------------------
(* NoTruncatedWrite rests on the fsync before the rename: what is renamed is *)
(* on the disk, so an untainted primary is whole there too, and so is the    *)
(* primary that an unsynced directory still names.                           *)

Whole == Versions \cup {Missing}

SyncedBeforeRename == pc = "rename" => tmp = "synced"

Replaced == pc \in {"copy", "copying", "syncdir"} => primary = data /\ flushed

TruncatedIsTainted == pc = "restoring" => tainted

UntaintedWhole ==
    tainted \/ (primary \in Whole /\ flushed /\ (linked \/ before \in Whole))

WriteInv == SyncedBeforeRename /\ Replaced /\ TruncatedIsTainted /\ UntaintedWhole

\* WriteInv is inductive relative to the types.
LEMMA WriteInvHolds == Spec => []WriteInv
<1>1. Init => WriteInv
  BY DEF Init, WriteInv, SyncedBeforeRename, Replaced, TruncatedIsTainted,
     UntaintedWhole, Whole
<1>2. TypeOK /\ WriteInv /\ [Next]_vars => WriteInv'
  <2> SUFFICES ASSUME NumbersOK, FlagsOK, WriteInv, [Next]_vars PROVE WriteInv'
    BY DEF TypeOK
  <2> USE DEF WriteInv, SyncedBeforeRename, Replaced, TruncatedIsTainted,
          UntaintedWhole, Whole, FlagsOK
  <2>1. CASE open
    BY <2>1 DEF open, load_json_map, Opened, files, observers
  <2>2. CASE RestoreTruncate
    BY <2>2 DEF RestoreTruncate
  <2>3. CASE RestoreFinish \/ RestoreFails
    BY <2>3 DEF RestoreFinish, RestoreFails, Opened, files, observers
  <2>4. CASE set \/ CreateTmp \/ WriteTmp \/ SyncTmp
    BY <2>4 DEF set, CreateTmp, WriteTmp, SyncTmp, files, observers
  <2>5. CASE Rename
    BY <2>5 DEF Rename, OnDisk, observers, NumbersOK
  <2>6. CASE CopyTruncate \/ CopyFinish \/ CopyFails
    BY <2>6 DEF CopyTruncate, CopyFinish, CopyFails, files, observers
  <2>7. CASE SyncDir
    BY <2>7 DEF SyncDir, NumbersOK
  <2>8. CASE SetFails \/ Kill
    BY <2>8 DEF SetFails, Kill, Down, files, observers
  <2>9. CASE PowerLoss
    BY <2>9 DEF PowerLoss, Down, OnDisk
  <2>10. CASE Damage
    BY <2>10 DEF Damage
  <2>11. CASE UNCHANGED vars
    BY <2>11 DEF vars, files, observers
  <2> QED
    BY <2>1, <2>2, <2>3, <2>4, <2>5, <2>6, <2>7, <2>8, <2>9, <2>10, <2>11
       DEF Next, Load, Flush
<1> QED
  BY <1>1, <1>2, TypeCorrect, PTL DEF Spec

(* A set leaves no truncated file, whatever fails and wherever the process   *)
(* or the power is cut (storage/src/lib.rs:90).                              *)
THEOREM WritesNeverTruncate == Spec => []NoTruncatedWrite
<1>1. WriteInv => NoTruncatedWrite
  BY DEF WriteInv, UntaintedWhole, NoTruncatedWrite, Whole
<1> QED
  BY <1>1, WriteInvHolds, PTL

-----------------------------------------------------------------------------
(* AckedSurvives: once a set was acknowledged the primary, and what the disk *)
(* would show of it after a power loss, is at least that version.            *)

Bounded ==
    /\ data <= sets
    /\ acked <= sets
    /\ primary <= sets
    /\ backup <= sets
    /\ before <= sets

Excused == loss = "excused"

Kept ==
    Excused \/ acked = 0
    \/ (primary >= acked /\ flushed
        /\ (linked \/ loss = "possible" \/ before >= acked))

MemoryKept == Excused \/ ~opened \/ data >= acked

ClosedRestore == pc \in {"restore", "restoring"} => ~opened /\ (Excused \/ acked = 0)

Writing == pc \in {"create", "write", "sync", "rename", "copy", "copying", "syncdir"}

OpenWhileWriting == Writing => opened

AckInv == Bounded /\ Kept /\ MemoryKept /\ ClosedRestore /\ OpenWhileWriting

\* No version in memory or in a file is newer than the last set.
LEMMA BoundedStep ==
  ASSUME NumbersOK, Bounded, [Next]_vars
  PROVE  Bounded'
<1> USE StorageAssumption
        DEF NumbersOK, Bounded, Versions, Files, Missing, Empty, Torn
<1>1. CASE open
  BY <1>1 DEF open, load_json_map, Readable, read_map_file, Opened, files, observers
<1>2. CASE RestoreTruncate \/ RestoreFinish \/ RestoreFails
  BY <1>2 DEF RestoreTruncate, RestoreFinish, RestoreFails, read_map_file, Opened,
     files, observers
<1>3. CASE set \/ CreateTmp \/ WriteTmp \/ SyncTmp
  BY <1>3 DEF set, CreateTmp, WriteTmp, SyncTmp, files, observers
<1>4. CASE Rename
  BY <1>4 DEF Rename, OnDisk, observers
<1>5. CASE CopyTruncate \/ CopyFinish \/ CopyFails
  BY <1>5 DEF CopyTruncate, CopyFinish, CopyFails, files, observers
<1>6. CASE SyncDir
  BY <1>6 DEF SyncDir
<1>7. CASE SetFails \/ Kill
  BY <1>7 DEF SetFails, Kill, Down, files, observers
<1>8. CASE PowerLoss
  BY <1>8 DEF PowerLoss, Down, OnDisk
<1>9. CASE Damage
  BY <1>9 DEF Damage
<1>10. CASE UNCHANGED vars
  BY <1>10 DEF vars, files, observers
<1> QED
  BY <1>1, <1>2, <1>3, <1>4, <1>5, <1>6, <1>7, <1>8, <1>9, <1>10
     DEF Next, Load, Flush

\* Every step keeps what was acknowledged on the disk.
LEMMA KeptStep ==
  ASSUME NumbersOK, FlagsOK, WriteInv, AckInv, [Next]_vars
  PROVE  Kept'
<1> USE StorageAssumption
        DEF NumbersOK, FlagsOK, AckInv, Kept, Excused, Versions, Files, Missing,
            Empty, Torn
<1>1. CASE open
  BY <1>1 DEF open, load_json_map, files, observers
<1>2. CASE RestoreTruncate \/ RestoreFinish \/ RestoreFails
  BY <1>2 DEF RestoreTruncate, RestoreFinish, RestoreFails, ClosedRestore, files,
     observers
<1>3. CASE set \/ CreateTmp \/ WriteTmp \/ SyncTmp
  BY <1>3 DEF set, CreateTmp, WriteTmp, SyncTmp, files, observers
<1>4. CASE Rename
  <2>1. Excused \/ data >= acked
    BY <1>4 DEF Rename, OpenWhileWriting, Writing, MemoryKept
  <2>2. flushed'
    BY <1>4 DEF Rename, WriteInv, SyncedBeforeRename
  <2>3. linked /\ flushed => before' = primary
    BY <1>4 DEF Rename, OnDisk
  <2>4. ~linked => before' = before
    BY <1>4 DEF Rename
  <2> QED
    BY <1>4, <2>1, <2>2, <2>3, <2>4 DEF Rename, observers
<1>5. CASE CopyTruncate \/ CopyFinish \/ CopyFails
  BY <1>5 DEF CopyTruncate, CopyFinish, CopyFails, files, observers
<1>6. CASE SyncDir
  <2>1. primary = data /\ flushed
    BY <1>6 DEF SyncDir, WriteInv, Replaced
  <2> QED
    BY <1>6, <2>1 DEF SyncDir
<1>7. CASE SetFails \/ Kill
  BY <1>7 DEF SetFails, Kill, Down, files, observers
<1>8. CASE PowerLoss
  BY <1>8 DEF PowerLoss, OnDisk
<1>9. CASE Damage
  BY <1>9 DEF Damage
<1>10. CASE UNCHANGED vars
  BY <1>10 DEF vars, files, observers
<1> QED
  BY <1>1, <1>2, <1>3, <1>4, <1>5, <1>6, <1>7, <1>8, <1>9, <1>10
     DEF Next, Load, Flush

\* Every step keeps what was acknowledged in the memory of an open store.
LEMMA MemoryKeptStep ==
  ASSUME NumbersOK, NumbersOK', FlagsOK, AckInv, [Next]_vars
  PROVE  MemoryKept'
<1> USE StorageAssumption
        DEF NumbersOK, FlagsOK, AckInv, MemoryKept, Excused, Versions, Files,
            Missing, Empty, Torn
<1>1. CASE open
  BY <1>1 DEF open, load_json_map, Readable, read_map_file, Opened, Kept, observers
<1>2. CASE RestoreTruncate \/ RestoreFinish \/ RestoreFails
  <2>1. Excused \/ acked = 0
    BY <1>2 DEF RestoreTruncate, RestoreFinish, RestoreFails, ClosedRestore
  <2>2. ~opened
    BY <1>2 DEF RestoreTruncate, RestoreFinish, RestoreFails, ClosedRestore
  <2>3. CASE RestoreTruncate
    BY <2>2, <2>3 DEF RestoreTruncate
  <2>4. CASE (RestoreFinish \/ RestoreFails) /\ Excused
    BY <2>4 DEF RestoreFinish, RestoreFails, observers
  <2>5. CASE (RestoreFinish \/ RestoreFails) /\ acked = 0
    <3>1. acked' = 0
      BY <2>5 DEF RestoreFinish, RestoreFails, observers
    <3> QED
      BY <3>1
  <2> QED
    BY <1>2, <2>1, <2>3, <2>4, <2>5
<1>3. CASE set
  BY <1>3 DEF set, Bounded, observers
<1>4. CASE CreateTmp \/ WriteTmp \/ SyncTmp \/ Rename
  BY <1>4 DEF CreateTmp, WriteTmp, SyncTmp, Rename, observers
<1>5. CASE CopyTruncate \/ CopyFinish \/ CopyFails
  BY <1>5 DEF CopyTruncate, CopyFinish, CopyFails, observers
<1>6. CASE SyncDir
  BY <1>6 DEF SyncDir
<1>7. CASE SetFails
  BY <1>7 DEF SetFails, observers
<1>8. CASE Kill \/ PowerLoss
  BY <1>8 DEF Kill, PowerLoss, Down
<1>9. CASE Damage
  BY <1>9 DEF Damage
<1>10. CASE UNCHANGED vars
  BY <1>10 DEF vars, observers
<1> QED
  BY <1>1, <1>2, <1>3, <1>4, <1>5, <1>6, <1>7, <1>8, <1>9, <1>10
     DEF Next, Load, Flush

\* A restore runs only on a closed store with nothing to lose, a write only
\* on an open one.
LEMMA ControlStep ==
  ASSUME NumbersOK, FlagsOK, AckInv, [Next]_vars
  PROVE  ClosedRestore' /\ OpenWhileWriting'
<1> USE DEF FlagsOK, AckInv, ClosedRestore, OpenWhileWriting, Writing
<1>1. CASE open
  <2>1. ~Readable(primary) => Excused \/ acked = 0
    BY DEF Kept, Readable, Excused, NumbersOK, Versions, Files, Missing, Empty, Torn
  <2> QED
    BY <1>1, <2>1 DEF open, load_json_map, Opened, Excused, observers
<1>2. CASE RestoreTruncate \/ RestoreFinish \/ RestoreFails
  BY <1>2 DEF RestoreTruncate, RestoreFinish, RestoreFails, Opened, Excused,
     observers
<1>3. CASE set \/ CreateTmp \/ WriteTmp \/ SyncTmp \/ Rename
  BY <1>3 DEF set, CreateTmp, WriteTmp, SyncTmp, Rename
<1>4. CASE CopyTruncate \/ CopyFinish \/ CopyFails \/ SyncDir \/ SetFails
  BY <1>4 DEF CopyTruncate, CopyFinish, CopyFails, SyncDir, SetFails
<1>5. CASE Kill \/ PowerLoss
  BY <1>5 DEF Kill, PowerLoss, Down
<1>6. CASE Damage
  BY <1>6 DEF Damage
<1>7. CASE UNCHANGED vars
  BY <1>7 DEF vars, observers, Excused
<1> QED
  BY <1>1, <1>2, <1>3, <1>4, <1>5, <1>6, <1>7 DEF Next, Load, Flush

(* A set that returned Ok is there when the store opens again, unless the    *)
(* file was damaged or the power went after a failed directory sync.         *)
THEOREM AcknowledgedSurvives == Spec => []AckedSurvives
<1>1. Init => AckInv
  BY DEF Init, AckInv, Bounded, Kept, MemoryKept, ClosedRestore, OpenWhileWriting,
     Writing, Excused, Missing
<1>2. TypeOK /\ TypeOK' /\ WriteInv /\ AckInv /\ [Next]_vars => AckInv'
  BY BoundedStep, KeptStep, MemoryKeptStep, ControlStep DEF AckInv, TypeOK
<1>3. AckInv => AckedSurvives
  BY DEF AckInv, MemoryKept, Excused, AckedSurvives
<1> QED
  BY <1>1, <1>2, <1>3, TypeCorrect, WriteInvHolds, PTL DEF Spec

-----------------------------------------------------------------------------
(* The refinement.  With kills and failing operations only, the primary is   *)
(* whole or there is no file at all, so open never restores; a set in        *)
(* progress is ahead of the primary until the rename and equal to it after.  *)

KillsOnly == Faults \subseteq {"io", "kill"}

Shape ==
    /\ pc \notin {"restore", "restoring"}
    /\ primary \in Whole
    /\ primary = Missing => backup = Missing
    /\ ~opened => data = 0 /\ pc = "idle"

BeforeRename == pc \in {"create", "write", "sync", "rename"}
AfterRename == pc \in {"copy", "copying", "syncdir"}

Ahead ==
    /\ primary <= sets
    /\ data <= sets
    /\ BeforeRename => data > primary /\ data > 0
    /\ AfterRename => data = primary
    /\ AfterRename => primary # Missing

RefInv == Shape /\ Ahead

\* Under kills and failing operations the primary stays whole.
LEMMA ShapeStep ==
  ASSUME KillsOnly, TypeOK, RefInv, [Next]_vars
  PROVE  Shape'
<1> USE DEF RefInv, Shape
<1>1. CASE open
  <2>1. ~Readable(primary) => ~Readable(backup)
    BY DEF Readable, Whole, Versions, Missing, Empty
  <2>2. CASE Readable(primary)
    BY <1>1, <2>2 DEF open, load_json_map, Opened, files
  <2>3. CASE ~Readable(primary)
    BY <1>1, <2>1, <2>3 DEF open, load_json_map, Opened, files
  <2> QED
    BY <2>2, <2>3
<1>2. CASE RestoreTruncate \/ RestoreFinish \/ RestoreFails
  BY <1>2 DEF RestoreTruncate, RestoreFinish, RestoreFails
<1>3. CASE set \/ CreateTmp \/ WriteTmp \/ SyncTmp
  BY <1>3 DEF set, CreateTmp, WriteTmp, SyncTmp, files
<1>4. CASE Rename
  <2>1. data \in Versions /\ data # Missing
    BY DEF TypeOK, NumbersOK, Versions, Missing
  <2> QED
    BY <1>4, <2>1 DEF Rename, Whole
<1>5. CASE CopyTruncate \/ CopyFinish \/ CopyFails
  <2>1. primary # Missing
    BY <1>5 DEF CopyTruncate, CopyFinish, CopyFails, Ahead, AfterRename
  <2> QED
    BY <1>5, <2>1 DEF CopyTruncate, CopyFinish, CopyFails, files
<1>6. CASE SyncDir \/ SetFails \/ Kill
  BY <1>6 DEF SyncDir, SetFails, Kill, Down, files
<1>7. CASE PowerLoss \/ Damage
  BY <1>7 DEF PowerLoss, Damage, KillsOnly
<1>8. CASE UNCHANGED vars
  BY <1>8 DEF vars, files
<1> QED
  BY <1>1, <1>2, <1>3, <1>4, <1>5, <1>6, <1>7, <1>8 DEF Next, Load, Flush

\* A set in progress is ahead of the primary until its rename.
LEMMA AheadStep ==
  ASSUME KillsOnly, NumbersOK, RefInv, [Next]_vars
  PROVE  Ahead'
<1> USE StorageAssumption
        DEF RefInv, Ahead, BeforeRename, AfterRename, NumbersOK, Versions, Files,
            Missing, Empty, Torn
<1>1. CASE open
  BY <1>1 DEF open, load_json_map, Readable, read_map_file, Opened, Shape, Whole, files
<1>2. CASE RestoreTruncate \/ RestoreFinish \/ RestoreFails
  BY <1>2 DEF RestoreTruncate, RestoreFinish, RestoreFails, Shape
<1>3. CASE set
  BY <1>3 DEF set, files
<1>4. CASE CreateTmp \/ WriteTmp \/ SyncTmp
  BY <1>4 DEF CreateTmp, WriteTmp, SyncTmp
<1>5. CASE Rename
  BY <1>5 DEF Rename
<1>6. CASE CopyTruncate \/ CopyFinish \/ CopyFails
  BY <1>6 DEF CopyTruncate, CopyFinish, CopyFails, files
<1>7. CASE SyncDir \/ SetFails
  BY <1>7 DEF SyncDir, SetFails, files
<1>8. CASE Kill
  BY <1>8 DEF Kill, Down, files
<1>9. CASE PowerLoss \/ Damage
  BY <1>9 DEF PowerLoss, Damage, KillsOnly
<1>10. CASE UNCHANGED vars
  BY <1>10 DEF vars, files
<1> QED
  BY <1>1, <1>2, <1>3, <1>4, <1>5, <1>6, <1>7, <1>8, <1>9, <1>10
     DEF Next, Load, Flush

\* Every step is a step of DurableMap or leaves its variables alone.
LEMMA StepImplements ==
  ASSUME KillsOnly, TypeOK, RefInv, [Next]_vars
  PROVE  [Abstract!Next]_(Abstract!vars)
<1> USE DEF Phase, TypeOK, FlagsOK
<1>1. CASE open
  <2>1. data' = Durable /\ Durable' = Durable /\ opened' /\ pc' = "idle"
    <3>1. ~Readable(primary) => ~Readable(backup)
      BY DEF RefInv, Shape, Readable, Whole, Versions, Missing, Empty
    <3>2. primary # Empty
      BY DEF RefInv, Shape, Whole, Versions, Missing, Empty
    <3>3. CASE Readable(primary)
      <4>1. primary \in Versions /\ read_map_file(primary) = primary
        BY <3>2, <3>3 DEF Readable, read_map_file
      <4>2. Opened(read_map_file(primary)) /\ primary' = primary
        <5>1. primary # Missing
          BY <4>1 DEF Versions, Missing
        <5> QED
          BY <1>1, <3>3, <5>1 DEF open, load_json_map, files
      <4> QED
        BY <4>1, <4>2 DEF Opened, Durable
    <3>4. CASE ~Readable(primary)
      BY <1>1, <3>1, <3>4 DEF open, load_json_map, Opened, Readable, Durable, files
    <3> QED
      BY <3>3, <3>4
  <2> QED
    BY <1>1, <2>1 DEF open, Abstract!Next, Abstract!Open
<1>2. CASE RestoreTruncate \/ RestoreFinish \/ RestoreFails
  BY <1>2 DEF RestoreTruncate, RestoreFinish, RestoreFails, RefInv, Shape
<1>3. CASE set
  <2>1. data' \in data + 1 .. MaxSets
    BY <1>3, StorageAssumption DEF set, RefInv, Ahead, NumbersOK, Versions
  <2>2. Durable' = Durable
    BY <1>3 DEF set, files, Durable
  <2> QED
    BY <1>3, <2>1, <2>2 DEF set, Abstract!Next, Abstract!Set
<1>4. CASE CreateTmp \/ WriteTmp \/ SyncTmp \/ CopyTruncate \/ CopyFinish \/ CopyFails
  BY <1>4 DEF CreateTmp, WriteTmp, SyncTmp, CopyTruncate, CopyFinish, CopyFails,
     files, Durable, Abstract!vars
<1>5. CASE Rename
  <2>1. Durable' = data
    BY <1>5 DEF Rename, Durable, NumbersOK
  <2>2. opened
    BY <1>5 DEF Rename, RefInv, Shape
  <2> QED
    BY <1>5, <2>1, <2>2 DEF Rename, Abstract!Next, Abstract!Commit
<1>6. CASE SyncDir
  <2>1. Durable = data
    BY <1>6 DEF SyncDir, RefInv, Ahead, AfterRename, Durable, NumbersOK
  <2>2. opened /\ opened' = opened
    BY <1>6 DEF SyncDir, RefInv, Shape
  <2>3. Durable' = Durable
    BY <1>6 DEF SyncDir, Durable
  <2> QED
    BY <1>6, <2>1, <2>2, <2>3 DEF SyncDir, Abstract!Next, Abstract!Ok
<1>7. CASE SetFails
  <2>1. Durable # data
    BY <1>7 DEF SetFails, RefInv, Ahead, BeforeRename, Durable, NumbersOK, Versions,
       Files, Missing, Empty, Torn
  <2>2. opened /\ opened' = opened
    BY <1>7 DEF SetFails, RefInv, Shape
  <2>3. Durable' = Durable
    BY <1>7 DEF SetFails, files, Durable
  <2> QED
    BY <1>7, <2>1, <2>2, <2>3 DEF SetFails, Abstract!Next, Abstract!Err
<1>8. CASE Kill
  BY <1>8 DEF Kill, Down, files, Durable, Abstract!Next, Abstract!Crash
<1>9. CASE PowerLoss \/ Damage
  BY <1>9 DEF PowerLoss, Damage, KillsOnly
<1>10. CASE UNCHANGED vars
  BY <1>10 DEF vars, files, Durable, Abstract!vars
<1> QED
  BY <1>1, <1>2, <1>3, <1>4, <1>5, <1>6, <1>7, <1>8, <1>9, <1>10
     DEF Next, Load, Flush

(* When the process can only be killed and file operations can only fail,    *)
(* the store is an atomically changed map: the rename is where a set takes   *)
(* effect.                                                                   *)
THEOREM Implements ==
  ASSUME KillsOnly
  PROVE  Spec => ImplementsDurableMap
<1>1. Init => RefInv /\ Abstract!Init
  BY StorageAssumption DEF Init, RefInv, Shape, Ahead, BeforeRename, AfterRename,
     Whole, Versions, Missing, Abstract!Init, Durable, Phase
<1>2. TypeOK /\ RefInv /\ [Next]_vars => RefInv'
  BY ShapeStep, AheadStep DEF RefInv, TypeOK
<1>3. TypeOK /\ RefInv /\ [Next]_vars => [Abstract!Next]_(Abstract!vars)
  BY StepImplements
<1> QED
  BY <1>1, <1>2, <1>3, TypeCorrect, PTL
     DEF Spec, ImplementsDurableMap, Abstract!Spec
=============================================================================
