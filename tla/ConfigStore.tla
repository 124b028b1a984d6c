----------------------------- MODULE ConfigStore -----------------------------
(***************************************************************************)
(* The settings of config_mgr.c: the copy in RAM under its mutex, the      *)
(* temp-file-and-rename save that runs outside the mutex, the NVS backup   *)
(* that carries them over a rewrite of the filesystem, and the handlers of *)
(* web_server.c that reset them or rewrite the filesystem after suspending *)
(* half of the tasks.                                                      *)
(*                                                                         *)
(* A set of settings is the set of those that differ from their default.   *)
(* Every save toggles "setting"; "mode" stands for what config_set_mode,   *)
(* config_advance_mode and config_set_theme change in RAM only.  Power can *)
(* fail between any two steps.                                             *)
(*                                                                         *)
(* LittleFS: the content of a file changes when it is closed, and a file   *)
(* that is open can be neither renamed nor removed.                        *)
(*                                                                         *)
(* A definition named Slip... is a plausible wrong version of the one that *)
(* follows it; nothing refers to it.                                       *)
(***************************************************************************)
EXTENDS FiniteSets

CONSTANT Writers   \* tasks other than httpd that call config_set_json

ASSUME WritersAssumption ==
  IsFiniteSet(Writers) /\ {"httpd", "mode", "missing", "torn"} \cap Writers = {}

Savers   == Writers \cup {"httpd"}
Fields   == {"setting", "mode"}
Settings == SUBSET Fields
Defaults == {}
Missing  == {"missing"}     \* there is no such file, or no such NVS key
Torn     == {"torn"}        \* a file cut short
Stores   == Settings \cup {Missing, Torn}

Ops == {"idle",
        "reset",     \* api_reset: tasks suspended, config_reset not begun
        "rFile",     \* config_reset is writing the file
        "rDone",     \* backup purged, about to restart
        "fs",        \* api_fs_ota: tasks suspended, receiving
        "fsUnmount", \* backup taken
        "fsFlash",   \* unmounted, partition still intact
        "fsWrite",   \* first sector erased
        "fsDone"}

VARIABLES
  ram,       \* s_cfg
  mutex,     \* s_mutex is held by the reader
  cfg, tmp,  \* /spiffs/config.json and /spiffs/config.json.tmp
  backup,    \* NVS cfg_backup
  mounted,   \* LittleFS is registered
  broken,    \* the partition holds no complete filesystem
  frozen,    \* ota_suspend_tasks has run
  phase,     \* "boot", "erase" (restored, backup not yet erased) or "up"
  pc, snap,  \* per saver: its place in write_config_file and its JSON
  op,        \* what the httpd task is doing
  last,      \* history: what the latest save or reset serialised
  clean      \* history: it met no other save, no flash job and no failure

files == <<cfg, tmp, backup>>
disk  == <<mounted, broken>>
saves == <<pc, snap>>
hist  == <<last, clean>>
vars  == <<ram, mutex, files, disk, frozen, phase, saves, op, hist>>

Toggle(x, S) == IF x \in S THEN S \ {x} ELSE S \cup {x}
InFlight     == {s \in Savers : pc[s] # "idle"}
Writing      == {s \in Savers : pc[s] = "write"}

\* cJSON finds nothing in a torn file and every setting keeps its default.
Loaded(f)     == IF f \in {Missing, Torn} THEN Defaults ELSE f

Init ==
  /\ ram = Defaults /\ mutex = FALSE
  /\ cfg = Missing /\ tmp = Missing /\ backup = Missing
  /\ mounted = TRUE /\ broken = FALSE /\ frozen = FALSE
  /\ phase = "boot"
  /\ pc = [s \in Savers |-> "idle"] /\ snap = [s \in Savers |-> Defaults]
  /\ op = "idle" /\ last = Defaults /\ clean = FALSE

-----------------------------------------------------------------------------
(* config_mgr_init *)

SlipKept == Missing
Kept     == backup

RestoreWrite ==
  /\ phase = "boot" /\ backup # Missing /\ mounted
  /\ cfg' = backup /\ ram' = Loaded(backup)
  /\ phase' = "erase"
  /\ UNCHANGED <<mutex, tmp, backup, disk, frozen, saves, op, hist>>

RestoreErase ==
  /\ phase = "erase"
  /\ backup' = Missing
  /\ phase' = "up"
  /\ UNCHANGED <<ram, mutex, cfg, tmp, disk, frozen, saves, op, hist>>

\* A short write: the file is torn, the backup stays, defaults are used.
RestoreShort ==
  /\ phase = "boot" /\ backup # Missing /\ mounted
  /\ cfg' = Torn /\ ram' = Loaded(Torn)
  /\ backup' = Kept
  /\ clean' = FALSE
  /\ phase' = "up"
  /\ UNCHANGED <<mutex, tmp, disk, frozen, saves, op, last>>

LoadFromFlash ==
  /\ phase = "boot" /\ (backup = Missing \/ ~mounted)
  /\ ram' = Loaded(IF mounted THEN cfg ELSE Missing)
  /\ phase' = "up"
  /\ UNCHANGED <<mutex, files, disk, frozen, saves, op, hist>>

\* esp_restart, a panic or a power cut.
Reboot ==
  /\ phase' = "boot"
  /\ ram' = Defaults /\ mutex' = FALSE /\ frozen' = FALSE
  /\ mounted' = ~broken
  /\ pc' = [s \in Savers |-> "idle"] /\ snap' = [s \in Savers |-> Defaults]
  /\ op' = "idle"
  /\ UNCHANGED <<files, broken, last>>

PowerCut ==
  /\ Reboot
  /\ clean' = (clean /\ InFlight = {} /\ op # "rFile")

-----------------------------------------------------------------------------
(* The mutex.  The reader stands for the tasks that copy settings under     *)
(* config_lock and are on the list ota_suspend_tasks goes through.          *)

ReaderLocks ==
  /\ phase = "up" /\ ~frozen /\ ~mutex
  /\ mutex' = TRUE
  /\ UNCHANGED <<ram, files, disk, frozen, phase, saves, op, hist>>

ReaderUnlocks ==
  /\ mutex /\ ~frozen
  /\ mutex' = FALSE
  /\ UNCHANGED <<ram, files, disk, frozen, phase, saves, op, hist>>

SetMode ==
  /\ phase = "up" /\ ~mutex
  /\ ram' = Toggle("mode", ram)
  /\ UNCHANGED <<mutex, files, disk, frozen, phase, saves, op, hist>>

-----------------------------------------------------------------------------
(* config_set_json and write_config_file *)

\* Parse and serialise under the mutex; the write that follows is outside it.
Serialise(s, new) ==
  /\ phase = "up" /\ ~mutex /\ pc[s] = "idle"
  /\ ram' = new /\ last' = new
  /\ snap' = [snap EXCEPT ![s] = new]
  /\ pc' = [pc EXCEPT ![s] = "open"]

SetJson(s) ==
  /\ s = "httpd" => op = "idle"
  /\ Serialise(s, Toggle("setting", ram))
  /\ clean' = (InFlight = {} /\ op = "idle" /\ backup = Missing)
  /\ UNCHANGED <<mutex, files, disk, frozen, phase, op>>

Goes(s, from, to) == pc[s] = from /\ pc' = [pc EXCEPT ![s] = to]

OpenTmp(s) ==
  /\ mounted /\ Goes(s, "open", "write")
  /\ UNCHANGED <<ram, mutex, files, disk, frozen, phase, snap, op, hist>>

CloseTmp(s) ==
  /\ mounted /\ Goes(s, "write", "rename")
  /\ tmp' = snap[s]
  /\ UNCHANGED <<ram, mutex, cfg, backup, disk, frozen, phase, snap, op, hist>>

\* fopen, fwrite or fclose fails.
WriteFails(s) ==
  /\ (pc[s] = "open" /\ ~mounted) \/ pc[s] = "write"
  /\ pc' = [pc EXCEPT ![s] = "remove"]
  /\ clean' = FALSE
  /\ UNCHANGED <<ram, mutex, files, disk, frozen, phase, snap, op, last>>

CanRename == mounted /\ tmp # Missing /\ Writing = {}

Rename(s) ==
  /\ CanRename /\ Goes(s, "rename", "idle")
  /\ cfg' = tmp /\ tmp' = Missing
  /\ snap' = [snap EXCEPT ![s] = Defaults]
  /\ UNCHANGED <<ram, mutex, backup, disk, frozen, phase, op, hist>>

RenameFails(s) ==
  /\ ~CanRename /\ Goes(s, "rename", "remove")
  /\ clean' = FALSE
  /\ UNCHANGED <<ram, mutex, files, disk, frozen, phase, snap, op, last>>

RemoveTmp(s) ==
  /\ Goes(s, "remove", "idle")
  /\ tmp' = IF mounted /\ Writing = {} THEN Missing ELSE tmp
  /\ snap' = [snap EXCEPT ![s] = Defaults]
  /\ UNCHANGED <<ram, mutex, cfg, backup, disk, frozen, phase, op, hist>>

SaveStep(s) ==
  \/ OpenTmp(s) \/ CloseTmp(s) \/ WriteFails(s)
  \/ Rename(s) \/ RenameFails(s) \/ RemoveTmp(s)

-----------------------------------------------------------------------------
(* api_reset, api_factory_reset_full *)

\* The handler suspends the tasks on the list wherever they are.
Starts(what) ==
  /\ phase = "up" /\ op = "idle" /\ pc["httpd"] = "idle"
  /\ op' = what /\ frozen' = TRUE
  /\ clean' = (clean /\ InFlight = {})
  /\ UNCHANGED <<ram, mutex, files, disk, phase, saves, last>>

ApiReset == Starts("reset")

ConfigReset ==
  /\ op = "reset" /\ op' = "rFile"
  /\ Serialise("httpd", Defaults)
  /\ clean' = (InFlight = {})
  /\ UNCHANGED <<mutex, files, disk, frozen, phase>>

SlipPurged == backup
Purged     == Missing

PurgeBackup ==
  /\ op = "rFile" /\ op' = "rDone" /\ pc["httpd"] = "idle"
  /\ backup' = Purged
  /\ UNCHANGED <<ram, mutex, cfg, tmp, disk, frozen, phase, saves, hist>>

ResetRestarts == op = "rDone" /\ PowerCut

-----------------------------------------------------------------------------
(* api_fs_ota *)

ApiFsOta == Starts("fs")

\* The upload breaks off; nothing that was suspended is resumed.
ReceiveFails ==
  /\ op = "fs" /\ op' = "idle"
  /\ UNCHANGED <<ram, mutex, files, disk, frozen, phase, saves, hist>>

\* config_backup_to_nvs copies the file, not the RAM copy.
BackupToNvs ==
  /\ op = "fs" /\ op' = "fsUnmount"
  /\ backup' = IF mounted /\ cfg # Missing THEN cfg ELSE backup
  /\ UNCHANGED <<ram, mutex, cfg, tmp, disk, frozen, phase, saves, hist>>

\* nvs_set_blob fails: the handler is not told and goes on.
BackupFails ==
  /\ op = "fs" /\ op' = "fsUnmount"
  /\ clean' = FALSE
  /\ UNCHANGED <<ram, mutex, files, disk, frozen, phase, saves, last>>

Unmount ==
  /\ op = "fsUnmount" /\ op' = "fsFlash"
  /\ mounted' = FALSE
  /\ UNCHANGED <<ram, mutex, files, broken, frozen, phase, saves, hist>>

EraseFirst ==
  /\ op = "fsFlash" /\ op' = "fsWrite"
  /\ cfg' = Missing /\ tmp' = Missing /\ broken' = TRUE
  /\ UNCHANGED <<ram, mutex, backup, mounted, frozen, phase, saves, hist>>

FlashFails ==
  /\ op \in {"fsFlash", "fsWrite"} /\ op' = "idle"
  /\ mounted' = ~broken
  /\ UNCHANGED <<ram, mutex, files, broken, frozen, phase, saves, hist>>

FlashDone ==
  /\ op = "fsWrite" /\ op' = "fsDone"
  /\ broken' = FALSE
  /\ UNCHANGED <<ram, mutex, files, mounted, frozen, phase, saves, hist>>

FsRestarts == op = "fsDone" /\ PowerCut

-----------------------------------------------------------------------------
Boot == RestoreWrite \/ RestoreErase \/ RestoreShort \/ LoadFromFlash

Httpd ==
  \/ ConfigReset \/ PurgeBackup \/ ResetRestarts
  \/ ReceiveFails \/ BackupToNvs \/ BackupFails \/ Unmount \/ EraseFirst
  \/ FlashFails \/ FlashDone \/ FsRestarts

Next ==
  \/ Boot \/ PowerCut
  \/ ReaderLocks \/ ReaderUnlocks \/ SetMode
  \/ \E s \in Savers : SetJson(s) \/ SaveStep(s)
  \/ ApiReset \/ ApiFsOta \/ Httpd

Spec == Init /\ [][Next]_vars

\* Every task that is ready and not suspended runs.
Fairness ==
  /\ WF_vars(Boot) /\ WF_vars(ReaderUnlocks) /\ SF_vars(Httpd)
  /\ \A s \in Savers : WF_vars(SaveStep(s))
FairSpec == Spec /\ Fairness

-----------------------------------------------------------------------------
(* Properties *)

\* A file or the backup holds settings, is missing or is torn; RAM always holds
\* settings.
TypeOk ==
  /\ ram \in Settings /\ mutex \in BOOLEAN
  /\ cfg \in Stores /\ tmp \in Stores /\ backup \in Stores
  /\ mounted \in BOOLEAN /\ broken \in BOOLEAN /\ frozen \in BOOLEAN
  /\ phase \in {"boot", "erase", "up"}
  /\ pc \in [Savers -> {"idle", "open", "write", "rename", "remove"}]
  /\ snap \in [Savers -> Settings]
  /\ op \in Ops /\ last \in Settings /\ clean \in BOOLEAN

\* What config_mgr_init will find: the backup goes before the file.
Stored  == IF backup # Missing THEN backup ELSE cfg
Settled == InFlight = {} /\ op # "rFile" /\ phase # "erase"

\* Settings that were saved without meeting another save, a flash job or a
\* failure are what the next boot finds, whenever power fails, through a
\* rewrite of the filesystem and its restore; and after a reset it finds the
\* defaults, whatever backup was left behind.
SettingsSurvive == Settled /\ clean => Stored = last

\* The NVS backup is dropped only once config.json holds the same settings, or
\* by a reset.
BackupKeptUntilWritten ==
  [][backup # Missing /\ backup' = Missing => cfg = backup \/ op = "rFile"]_vars

(* What comments say, and the code does not keep. *)

\* config_mgr.h:480: the backup is restored if no config.json is found.
RestoresOnlyMissing ==
  [][phase = "boot" /\ phase' = "erase" => cfg \in {Missing, Torn, backup}]_vars

\* web_server.c:1200: the reset always ends in esp_restart.
ResetReboots == op = "reset" ~> phase = "boot"

=============================================================================
