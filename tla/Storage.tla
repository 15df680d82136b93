------------------------------ MODULE Storage ------------------------------
(***************************************************************************)
(* The key-value store of crates/storage: one JSON file, rewritten by every *)
(* set through a temporary file, fsync and rename, with a `.bak` copy that  *)
(* open falls back on.                                                     *)
(*                                                                         *)
(* The map as a whole is the number of the set that produced it (0: the    *)
(* empty map); the STORE mutex lets one set run at a time.  What the code  *)
(* handles is in Faults: "io" (a file operation fails), "kill" (the        *)
(* process dies; files stay as they are), "power" (what was not synced may *)
(* be lost), "dirsync" (the best-effort sync of the directory fails) and   *)
(* "damage" (the primary file becomes unreadable while the store is        *)
(* closed).                                                                *)
(***************************************************************************)
EXTENDS Integers

CONSTANTS MaxSets, \* bound: calls of set
          Faults   \* the faults that occur

ASSUME StorageAssumption ==
    /\ MaxSets \in Nat
    /\ Faults \subseteq {"io", "kill", "power", "dirsync", "damage"}

\* A file is a version of the map, or one of:
Missing == -1
Empty == -2
Torn == -3

Versions == 0..MaxSets
Files == Versions \cup {Missing, Empty, Torn}

VARIABLES
    pc,        \* where the call that holds the store stands
    opened,    \* path is set
    data,      \* the map in memory
    sets,      \* calls of set so far
    primary,   \* the settings file
    backup,    \* its .bak
    tmp,       \* the temporary file: "none", "partial", "written", "synced"
    flushed,   \* the contents of the primary are on the disk
    before,    \* the primary that the directory on the disk still names
    linked,    \* the directory on the disk names the primary
    \* Observers:
    acked,     \* the version of the last set that returned Ok
    loss,      \* "possible" after a directory sync failed, "excused" when the
               \* power went then, or the primary was damaged
    tainted    \* since a restore or damage, no set has run to its end

files == <<primary, backup, tmp, flushed, before, linked>>
observers == <<acked, loss, tainted>>
vars == <<pc, opened, data, sets, files, observers>>

NumbersOK ==
    /\ data \in Versions
    /\ sets \in Versions
    /\ primary \in Files
    /\ backup \in Files
    /\ before \in Files
    /\ acked \in Versions

FlagsOK ==
    /\ pc \in {"idle", "create", "write", "sync", "rename", "copy", "copying",
               "syncdir", "restore", "restoring"}
    /\ opened \in BOOLEAN
    /\ tmp \in {"none", "partial", "written", "synced"}
    /\ flushed \in BOOLEAN
    /\ linked \in BOOLEAN
    /\ loss \in {"none", "possible", "excused"}
    /\ tainted \in BOOLEAN

TypeOK == NumbersOK /\ FlagsOK

Init ==
    /\ pc = "idle"
    /\ opened = FALSE
    /\ data = 0
    /\ sets = 0
    /\ primary = Missing
    /\ backup = Missing
    /\ tmp = "none"
    /\ flushed = TRUE
    /\ before = Missing
    /\ linked = TRUE
    /\ acked = 0
    /\ loss = "none"
    /\ tainted = FALSE

-----------------------------------------------------------------------------
(* open.  read_map_file takes an empty file for the empty map; a torn one is *)
(* an error.                                                                 *)

Readable(file) == file \in Versions \cup {Empty}

read_map_file(file) == IF file = Empty THEN 0 ELSE file

Opened(map) ==
    /\ opened' = TRUE
    /\ data' = map
    /\ pc' = "idle"

load_json_map ==
    /\ \/ /\ Readable(primary)
          /\ Opened(read_map_file(primary))
       \/ /\ ~Readable(primary)
          /\ Readable(backup)
          /\ pc' = "restore"
          /\ UNCHANGED <<opened, data>>
       \/ /\ primary = Missing
          /\ ~Readable(backup)
          /\ Opened(0)
    /\ UNCHANGED <<sets, files, observers>>

open ==
    /\ pc = "idle"
    /\ ~opened
    /\ load_json_map

\* fs::copy of the backup over the primary, which truncates it first.
RestoreTruncate ==
    /\ pc = "restore"
    /\ pc' = "restoring"
    /\ primary' \in {Empty, Torn}
    /\ flushed' = FALSE
    /\ tainted' = TRUE
    /\ UNCHANGED <<opened, data, sets, backup, tmp, before, linked, acked, loss>>

RestoreFinish ==
    /\ pc = "restoring"
    /\ primary' = backup
    /\ Opened(read_map_file(backup))
    /\ UNCHANGED <<sets, backup, tmp, flushed, before, linked, observers>>

\* The result of the copy is ignored: the map was read from the backup.
RestoreFails ==
    /\ "io" \in Faults
    /\ pc \in {"restore", "restoring"}
    /\ Opened(read_map_file(backup))
    /\ UNCHANGED <<sets, files, observers>>

-----------------------------------------------------------------------------
(* set: the map in memory changes first, then flush writes it out.           *)

set ==
    /\ pc = "idle"
    /\ opened
    /\ sets < MaxSets
    /\ sets' = sets + 1
    /\ data' = sets + 1
    /\ pc' = "create"
    /\ UNCHANGED <<opened, files, observers>>

\* Writing in place: the primary is truncated.
CreateInPlace ==
    /\ pc = "create"
    /\ pc' = "write"
    /\ tmp' = "partial"
    /\ primary' = Empty
    /\ UNCHANGED <<opened, data, sets, backup, flushed, before, linked, observers>>

CreateTmp ==
    /\ pc = "create"
    /\ pc' = "write"
    /\ tmp' = "partial"
    /\ UNCHANGED <<opened, data, sets, primary, backup, flushed, before, linked,
                   observers>>

WriteTmp ==
    /\ pc = "write"
    /\ pc' = "sync"
    /\ tmp' = "written"
    /\ UNCHANGED <<opened, data, sets, primary, backup, flushed, before, linked,
                   observers>>

\* No fsync before the rename.
SkipSync ==
    /\ pc = "sync"
    /\ pc' = "rename"
    /\ UNCHANGED <<opened, data, sets, files, observers>>

SyncTmp ==
    /\ pc = "sync"
    /\ pc' = "rename"
    /\ tmp' = "synced"
    /\ UNCHANGED <<opened, data, sets, primary, backup, flushed, before, linked,
                   observers>>

\* What the disk holds of a file after a power loss.
OnDisk(file, synced) == IF synced THEN {file} ELSE {file, Empty, Torn}

\* The directory on the disk still names the old primary until it is synced.
Rename ==
    /\ pc = "rename"
    /\ pc' = "copy"
    /\ primary' = data
    /\ flushed' = (tmp = "synced")
    /\ before' \in IF linked THEN OnDisk(primary, flushed) ELSE {before}
    /\ linked' = FALSE
    /\ tmp' = "none"
    /\ UNCHANGED <<opened, data, sets, backup, observers>>

\* fs::copy of the primary over the backup, which truncates it first.
CopyTruncate ==
    /\ pc = "copy"
    /\ pc' = "copying"
    /\ backup' \in {Empty, Torn}
    /\ UNCHANGED <<opened, data, sets, primary, tmp, flushed, before, linked,
                   observers>>

CopyFinish ==
    /\ pc = "copying"
    /\ pc' = "syncdir"
    /\ backup' = primary
    /\ UNCHANGED <<opened, data, sets, primary, tmp, flushed, before, linked,
                   observers>>

CopyFails ==
    /\ "io" \in Faults
    /\ pc \in {"copy", "copying"}
    /\ pc' = "syncdir"
    /\ UNCHANGED <<opened, data, sets, files, observers>>

\* No directory sync.
SkipSyncDir ==
    /\ pc = "syncdir"
    /\ pc' = "idle"
    /\ acked' = data
    /\ UNCHANGED <<opened, data, sets, files, loss, tainted>>

SyncDir ==
    /\ pc = "syncdir"
    /\ pc' = "idle"
    /\ acked' = data
    /\ \/ /\ linked' = TRUE
          /\ tainted' = FALSE
          /\ loss' = IF loss = "possible" THEN "none" ELSE loss
       \/ /\ "dirsync" \in Faults
          /\ loss' = IF loss = "none" THEN "possible" ELSE loss
          /\ UNCHANGED <<linked, tainted>>
    /\ UNCHANGED <<opened, data, sets, primary, backup, tmp, flushed, before>>

\* An error before the rename is returned; memory is ahead of the file.
SetFails ==
    /\ "io" \in Faults
    /\ pc \in {"create", "write", "sync", "rename"}
    /\ pc' = "idle"
    /\ UNCHANGED <<opened, data, sets, files, observers>>

-----------------------------------------------------------------------------
\* Crashes and damage.

Down == pc' = "idle" /\ opened' = FALSE /\ data' = 0

Kill ==
    /\ "kill" \in Faults
    /\ opened \/ pc # "idle"
    /\ Down
    /\ UNCHANGED <<sets, files, observers>>

\* What the disk may hold: unsynced contents may be lost, an unsynced rename
\* undone; the backup is never synced.
PowerLoss ==
    /\ "power" \in Faults
    /\ Down
    /\ \/ primary' \in OnDisk(primary, flushed)
       \/ ~linked /\ primary' = before
    /\ backup' \in OnDisk(backup, backup = Missing)
    /\ tmp' = "none"
    /\ flushed' = TRUE
    /\ linked' = TRUE
    /\ before' = Missing
    /\ loss' = IF loss = "possible" THEN "excused" ELSE loss
    /\ UNCHANGED <<sets, acked, tainted>>

Damage ==
    /\ "damage" \in Faults
    /\ pc = "idle"
    /\ ~opened
    /\ primary \in Versions
    /\ primary' = Torn
    /\ loss' = "excused"
    /\ tainted' = TRUE
    /\ UNCHANGED <<pc, opened, data, sets, backup, tmp, flushed, before, linked,
                   acked>>

-----------------------------------------------------------------------------
Load == open \/ RestoreTruncate \/ RestoreFinish \/ RestoreFails

Flush ==
    \/ CreateTmp
    \/ WriteTmp
    \/ SyncTmp
    \/ Rename
    \/ CopyTruncate
    \/ CopyFinish
    \/ CopyFails
    \/ SyncDir
    \/ SetFails

Next == Load \/ set \/ Flush \/ Kill \/ PowerLoss \/ Damage

Spec == Init /\ [][Next]_vars

-----------------------------------------------------------------------------
(* A set leaves no truncated file: unless a restore from the backup or       *)
(* damage came after the last complete set, the primary is a whole map or    *)
(* absent, whatever operation failed and wherever the process or the power   *)
(* was cut (lib.rs:90, "so a crash cannot leave a truncated JSON body").     *)
NoTruncatedWrite == tainted \/ primary \in Versions \cup {Missing}

(* A set that returned Ok is there when the store opens again, after kills,  *)
(* failed operations and power losses, unless the file was damaged or the    *)
(* directory could not be synced before the power went (lib.rs:110).         *)
AckedSurvives == opened /\ loss # "excused" => data >= acked

(* With the store open, memory is never older than a whole backup: open      *)
(* falls back on the backup when the primary "is empty or corrupt"           *)
(* (lib.rs:47-48).  The code takes an empty primary for the empty map, which *)
(* is what a process killed in the restore itself can leave.                 *)
FallsBackOnBackup == opened /\ backup \in Versions => data >= backup

-----------------------------------------------------------------------------
(* The version an open would find.                                           *)
Durable == IF primary \in Versions THEN primary ELSE 0

Phase ==
    IF ~opened THEN "closed" ELSE IF pc = "idle" THEN "open" ELSE "setting"

Abstract ==
    INSTANCE DurableMap WITH durable <- Durable, live <- data, phase <- Phase

(* Under kills and failing operations the store is an atomically changed     *)
(* map: every step is a step of DurableMap or none.                          *)
ImplementsDurableMap == Abstract!Spec
=============================================================================
