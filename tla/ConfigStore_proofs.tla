-------------------------- MODULE ConfigStore_proofs --------------------------
(***************************************************************************)
(* Proofs about ConfigStore, for any finite set of tasks that save.        *)
(*                                                                         *)
(* SettingsSurvive speaks of the moments when no save is under way; to     *)
(* carry it through a save, CleanInv says what the one save of a clean     *)
(* history has written so far, that no backup is there to hide the file it *)
(* will leave, and, once the filesystem is about to go, that the backup    *)
(* holds the settings.  BootInv and DiskInv tell which steps can coincide  *)
(* with a restore and when an unreadable filesystem explains a missing     *)
(* file.                                                                   *)
(***************************************************************************)
EXTENDS ConfigStore, TLAPS

\* Nothing saves or flashes while config_mgr_init runs, and a backup is erased
\* only when the file holds the same.
BootInv ==
  /\ phase # "up" => InFlight = {} /\ op = "idle"
  /\ phase = "erase" => cfg = backup

DiskInv ==
  /\ broken => ~mounted /\ cfg = Missing
  /\ op \in {"fsFlash", "fsWrite", "fsDone"} => ~mounted
  /\ mounted \/ broken \/ op \in {"fsFlash", "fsDone"}

\* The save of a clean history: alone, and with nothing that hides its result.
SaveInv(s) ==
  /\ pc[s] \in {"open", "write", "rename"}
  /\ snap[s] = last
  /\ pc[s] = "rename" => tmp = last
  /\ IF op = "rFile" THEN s = "httpd" ELSE op = "idle" /\ backup = Missing

RestInv ==
  /\ op = "rFile" => cfg = last
  /\ op # "rFile" => Stored = last /\ (backup # Missing => cfg \in {Missing, backup})
  /\ op \in {"fsUnmount", "fsFlash"} => backup = last

CleanInv ==
  clean => /\ \A s, t \in InFlight : s = t
           /\ \A s \in InFlight : SaveInv(s)
           /\ InFlight = {} => RestInv

IInv == TypeOk /\ BootInv /\ DiskInv /\ CleanInv

-----------------------------------------------------------------------------
(* What the stores may hold, and who is in flight. *)

LEMMA MissingApart ==
  /\ Missing \notin Settings /\ Torn \notin Settings
  /\ Defaults \in Settings
  /\ Missing \in Stores /\ Torn \in Stores /\ Settings \subseteq Stores
  /\ \A f \in Stores : Loaded(f) \in Settings
  /\ \A S \in Settings : Toggle("setting", S) \in Settings /\ Toggle("mode", S) \in Settings
BY DEF Missing, Torn, Settings, Fields, Defaults, Stores, Loaded, Toggle

LEMMA HttpdSaves == "httpd" \in Savers
BY DEF Savers

LEMMA InitInv == Init => IInv
<1> SUFFICES ASSUME Init PROVE IInv
  OBVIOUS
<1>1. TypeOk
  BY MissingApart DEF Init, TypeOk, Ops
<1>2. BootInv /\ DiskInv /\ CleanInv
  BY DEF Init, BootInv, DiskInv, CleanInv, InFlight
<1> QED BY <1>1, <1>2 DEF IInv

-----------------------------------------------------------------------------
\* Every step keeps every variable in its type.
LEMMA TypeStep == TypeOk /\ [Next]_vars => TypeOk'
<1> SUFFICES ASSUME TypeOk, [Next]_vars PROVE TypeOk'
  OBVIOUS
<1> USE MissingApart, HttpdSaves DEF TypeOk, files, disk, saves, hist
<1>1. CASE Boot
  BY <1>1 DEF Boot, RestoreWrite, RestoreErase, RestoreShort, LoadFromFlash, Kept
<1>2. CASE Reboot /\ clean' \in BOOLEAN
  BY <1>2 DEF Reboot, Ops
<1>3. CASE ReaderLocks \/ ReaderUnlocks \/ SetMode
  BY <1>3 DEF ReaderLocks, ReaderUnlocks, SetMode
<1>4. ASSUME NEW s \in Savers, SetJson(s) PROVE TypeOk'
  BY <1>4 DEF SetJson, Serialise
<1>5. ASSUME NEW s \in Savers, SaveStep(s) PROVE TypeOk'
  BY <1>5 DEF SaveStep, OpenTmp, CloseTmp, WriteFails, Rename, RenameFails, RemoveTmp, Goes
<1>6. CASE ApiReset \/ ApiFsOta
  BY <1>6 DEF ApiReset, ApiFsOta, Starts, Ops
<1>7. CASE Httpd
  <2>1. CASE ConfigReset
    BY <2>1 DEF ConfigReset, Serialise, Ops
  <2>2. CASE PurgeBackup
    BY <2>2 DEF PurgeBackup, Purged, Ops
  <2>3. CASE ResetRestarts \/ FsRestarts
    BY <1>2, <2>3 DEF ResetRestarts, FsRestarts, PowerCut
  <2>4. CASE ReceiveFails \/ BackupToNvs \/ BackupFails \/ Unmount
    BY <2>4 DEF ReceiveFails, BackupToNvs, BackupFails, Unmount, Ops
  <2>5. CASE EraseFirst \/ FlashFails \/ FlashDone
    BY <2>5 DEF EraseFirst, FlashFails, FlashDone, Ops
  <2> QED BY <1>7, <2>1, <2>2, <2>3, <2>4, <2>5 DEF Httpd
<1>8. CASE PowerCut
  BY <1>2, <1>8 DEF PowerCut
<1>9. CASE UNCHANGED vars
  BY <1>9 DEF vars
<1> QED BY <1>1, <1>3, <1>4, <1>5, <1>6, <1>7, <1>8, <1>9 DEF Next

\* No save or flash job coincides with config_mgr_init.
LEMMA BootStep == TypeOk /\ BootInv /\ [Next]_vars => BootInv'
<1> SUFFICES ASSUME TypeOk, BootInv, [Next]_vars PROVE BootInv'
  OBVIOUS
<1> USE DEF TypeOk, BootInv, InFlight, files, disk, saves, hist
<1>1. CASE Boot
  BY <1>1 DEF Boot, RestoreWrite, RestoreErase, RestoreShort, LoadFromFlash
<1>2. CASE Reboot
  BY <1>2 DEF Reboot
<1>3. CASE ReaderLocks \/ ReaderUnlocks \/ SetMode
  BY <1>3 DEF ReaderLocks, ReaderUnlocks, SetMode
<1>4. ASSUME NEW s \in Savers, SetJson(s) PROVE BootInv'
  BY <1>4 DEF SetJson, Serialise
<1>5. ASSUME NEW s \in Savers, SaveStep(s) PROVE BootInv'
  <2>1. phase = "up" /\ UNCHANGED phase
    BY <1>5 DEF SaveStep, OpenTmp, CloseTmp, WriteFails, Rename, RenameFails, RemoveTmp, Goes
  <2> QED BY <2>1
<1>6. CASE ApiReset \/ ApiFsOta
  BY <1>6 DEF ApiReset, ApiFsOta, Starts
<1>7. CASE Httpd /\ ~Reboot
  <2>1. phase = "up" /\ UNCHANGED phase
    BY <1>7 DEF Httpd, ConfigReset, Serialise, PurgeBackup, ResetRestarts, FsRestarts, PowerCut,
           ReceiveFails, BackupToNvs, BackupFails, Unmount, EraseFirst, FlashFails, FlashDone
  <2> QED BY <2>1
<1>8. CASE UNCHANGED vars
  BY <1>8 DEF vars
<1> QED BY <1>1, <1>2, <1>3, <1>4, <1>5, <1>6, <1>7, <1>8 DEF Next, PowerCut

\* A filesystem that cannot be mounted has no file to lose.
LEMMA DiskStep == TypeOk /\ DiskInv /\ BootInv /\ [Next]_vars => DiskInv'
<1> SUFFICES ASSUME TypeOk, DiskInv, BootInv, [Next]_vars PROVE DiskInv'
  OBVIOUS
<1> USE DEF TypeOk, DiskInv, files, disk, saves, hist
<1>1. CASE Boot
  BY <1>1 DEF Boot, RestoreWrite, RestoreErase, RestoreShort, LoadFromFlash, BootInv
<1>2. CASE Reboot
  BY <1>2 DEF Reboot
<1>3. CASE ReaderLocks \/ ReaderUnlocks \/ SetMode
  BY <1>3 DEF ReaderLocks, ReaderUnlocks, SetMode
<1>4. ASSUME NEW s \in Savers, SetJson(s) PROVE DiskInv'
  BY <1>4 DEF SetJson, Serialise
<1>5. ASSUME NEW s \in Savers, SaveStep(s) PROVE DiskInv'
  BY <1>5 DEF SaveStep, OpenTmp, CloseTmp, WriteFails, Rename, RenameFails, RemoveTmp, CanRename
<1>6. CASE ApiReset \/ ApiFsOta
  BY <1>6 DEF ApiReset, ApiFsOta, Starts
<1>7. CASE Httpd /\ ~Reboot
  <2>1. CASE ConfigReset \/ PurgeBackup
    BY <2>1 DEF ConfigReset, Serialise, PurgeBackup
  <2>2. CASE ReceiveFails \/ BackupToNvs \/ BackupFails \/ Unmount
    BY <2>2 DEF ReceiveFails, BackupToNvs, BackupFails, Unmount
  <2>3. CASE EraseFirst \/ FlashDone
    BY <2>3 DEF EraseFirst, FlashDone
  <2>4. CASE FlashFails
    <3>1. (mounted' <=> ~broken) /\ op' = "idle" /\ UNCHANGED <<cfg, broken>>
      BY <2>4 DEF FlashFails
    <3> QED BY <3>1
  <2> QED BY <1>7, <2>1, <2>2, <2>3, <2>4 DEF Httpd, ResetRestarts, FsRestarts, PowerCut
<1>8. CASE UNCHANGED vars
  BY <1>8 DEF vars
<1> QED BY <1>1, <1>2, <1>3, <1>4, <1>5, <1>6, <1>7, <1>8 DEF Next, PowerCut

-----------------------------------------------------------------------------
(* A clean history stays one that the next boot will find. *)

\* One saver moves: the others are where they were.
LEMMA OneMoves ==
  ASSUME TypeOk, NEW s \in Savers, NEW to \in {"idle", "open", "write", "rename", "remove"},
         pc' = [pc EXCEPT ![s] = to]
  PROVE  /\ pc'[s] = to
         /\ InFlight' = IF to = "idle" THEN InFlight \ {s} ELSE InFlight \cup {s}
         /\ \A t \in Savers : t # s => pc'[t] = pc[t]
BY DEF TypeOk, InFlight

LEMMA CleanSave ==
  ASSUME IInv, NEW s \in Savers, SaveStep(s)
  PROVE  CleanInv'
<1> SUFFICES ASSUME clean' PROVE CleanInv'
  BY DEF CleanInv
<1> USE DEF IInv, TypeOk, files, disk, saves, hist, Goes
<1>1. clean /\ UNCHANGED <<backup, op, last, clean>>
  BY DEF SaveStep, OpenTmp, CloseTmp, WriteFails, Rename, RenameFails, RemoveTmp
<1>2. InFlight = {s} /\ SaveInv(s)
  BY <1>1 DEF SaveStep, OpenTmp, CloseTmp, WriteFails, Rename, RenameFails, RemoveTmp, CleanInv, InFlight
<1>3. CASE OpenTmp(s)
  <2>1. InFlight' = {s} /\ pc'[s] = "write"
    BY <1>2, <1>3, OneMoves DEF OpenTmp
  <2> QED BY <1>1, <1>2, <1>3, <2>1 DEF OpenTmp, CleanInv, SaveInv
<1>4. CASE CloseTmp(s)
  <2>1. InFlight' = {s} /\ pc'[s] = "rename"
    BY <1>2, <1>4, OneMoves DEF CloseTmp
  <2> QED BY <1>1, <1>2, <1>4, <2>1 DEF CloseTmp, CleanInv, SaveInv
<1>5. CASE Rename(s)
  <2>1. InFlight' = {} /\ cfg' = last
    BY <1>2, <1>5, OneMoves DEF Rename, SaveInv
  <2> QED BY <1>1, <1>2, <2>1 DEF CleanInv, SaveInv, RestInv, Stored
<1>6. CASE WriteFails(s) \/ RenameFails(s) \/ RemoveTmp(s)
  BY <1>1, <1>2, <1>6 DEF WriteFails, RenameFails, RemoveTmp, SaveInv
<1> QED BY <1>3, <1>4, <1>5, <1>6 DEF SaveStep

\* What neither saves nor touches a file, the backup or the job.
LEMMA CleanIdle ==
  ASSUME CleanInv, UNCHANGED <<cfg, backup, tmp, pc, snap, op, last>>, clean' => clean
  PROVE  CleanInv'
BY DEF CleanInv, SaveInv, RestInv, Stored, InFlight

LEMMA CleanBoot == ASSUME IInv, Boot PROVE CleanInv'
<1> USE DEF IInv, files, disk, saves, hist
<1>1. InFlight = {} /\ InFlight' = {} /\ op = "idle" /\ UNCHANGED <<op, last>>
  BY DEF Boot, RestoreWrite, RestoreErase, RestoreShort, LoadFromFlash, BootInv, InFlight
<1>2. CASE RestoreWrite
  BY <1>1, <1>2 DEF RestoreWrite, CleanInv, RestInv, Stored
<1>3. CASE RestoreErase
  BY <1>1, <1>3 DEF RestoreErase, CleanInv, RestInv, Stored, BootInv
<1>4. CASE RestoreShort
  BY <1>4 DEF RestoreShort, CleanInv
<1>5. CASE LoadFromFlash
  BY <1>5, CleanIdle DEF LoadFromFlash
<1> QED BY <1>2, <1>3, <1>4, <1>5 DEF Boot

LEMMA CleanCut == ASSUME IInv, PowerCut PROVE CleanInv'
<1> USE DEF IInv
<1>1. InFlight' = {} /\ op' = "idle"
  BY DEF PowerCut, Reboot, InFlight
<1>2. UNCHANGED <<files, last>>
  BY DEF PowerCut, Reboot
<1>3. clean' => clean /\ InFlight = {} /\ op # "rFile"
  BY DEF PowerCut
<1> QED BY <1>1, <1>2, <1>3 DEF CleanInv, RestInv, Stored, files

\* A save begins: the history is clean if nothing else is going on.
LEMMA CleanBegin ==
  ASSUME IInv, NEW s \in Savers, SetJson(s)
  PROVE  CleanInv'
<1> SUFFICES ASSUME clean' PROVE CleanInv'
  BY DEF CleanInv
<1>1. InFlight' = {s} /\ pc'[s] = "open" /\ snap'[s] = last'
  BY OneMoves DEF SetJson, Serialise, IInv, TypeOk
<1>2. op' = "idle" /\ backup' = Missing
  BY DEF SetJson, files
<1> QED BY <1>1, <1>2 DEF CleanInv, SaveInv

LEMMA CleanHttpd == ASSUME IInv, Httpd, ~PowerCut PROVE CleanInv'
<1> SUFFICES ASSUME clean' PROVE CleanInv'
  BY DEF CleanInv
<1> USE DEF IInv, TypeOk, files, disk, saves, hist
<1>1. CASE ConfigReset
  <2>1. InFlight' = {"httpd"} /\ pc'["httpd"] = "open" /\ snap'["httpd"] = last' /\ op' = "rFile"
    BY <1>1, OneMoves, HttpdSaves DEF ConfigReset, Serialise
  <2> QED BY <2>1 DEF CleanInv, SaveInv
<1>2. CASE ~ConfigReset
  <2>1. clean /\ UNCHANGED <<pc, snap, last>> /\ op # "idle" /\ (op = "rFile" => PurgeBackup)
    BY <1>2 DEF Httpd, PurgeBackup, ReceiveFails, BackupToNvs, BackupFails, Unmount, EraseFirst,
           FlashFails, FlashDone, ResetRestarts, FsRestarts
  <2>2. InFlight = {} /\ InFlight' = {}
    BY <2>1 DEF CleanInv, SaveInv, InFlight, PurgeBackup
  <2>3. RestInv
    BY <2>1, <2>2 DEF CleanInv
  <2>4. RestInv'
    <3> USE <2>1, <2>3 DEF RestInv, Stored
    <3>1. CASE PurgeBackup
      BY <3>1 DEF PurgeBackup, Purged
    <3>2. CASE ReceiveFails
      BY <3>2 DEF ReceiveFails
    <3>3. CASE BackupToNvs
      BY <3>3, MissingApart DEF BackupToNvs, DiskInv
    <3>4. CASE Unmount
      BY <3>4 DEF Unmount
    <3>5. CASE EraseFirst
      BY <3>5, MissingApart DEF EraseFirst
    <3>6. CASE FlashFails \/ FlashDone
      BY <3>6 DEF FlashFails, FlashDone
    <3> QED BY <1>2, <3>1, <3>2, <3>3, <3>4, <3>5, <3>6
            DEF Httpd, BackupFails, ResetRestarts, FsRestarts
  <2> QED BY <2>2, <2>4 DEF CleanInv
<1> QED BY <1>1, <1>2

LEMMA CleanStep == IInv /\ [Next]_vars => CleanInv'
<1> SUFFICES ASSUME IInv, [Next]_vars PROVE CleanInv'
  OBVIOUS
<1>1. CASE ReaderLocks \/ ReaderUnlocks \/ SetMode
  BY <1>1, CleanIdle DEF IInv, ReaderLocks, ReaderUnlocks, SetMode, files, disk, saves, hist
<1>2. CASE ApiReset \/ ApiFsOta
  <2>1. ASSUME clean' PROVE CleanInv'
    <3>1. clean /\ InFlight = {} /\ op = "idle" /\ op' \in {"reset", "fs"}
      BY <1>2, <2>1 DEF ApiReset, ApiFsOta, Starts
    <3>2. InFlight' = {} /\ UNCHANGED <<files, last>>
      BY <1>2, <3>1 DEF ApiReset, ApiFsOta, Starts, InFlight, saves
    <3> QED BY <3>1, <3>2 DEF IInv, CleanInv, RestInv, Stored, files
  <2> QED BY <2>1 DEF CleanInv
<1>3. CASE UNCHANGED vars
  BY <1>3, CleanIdle DEF IInv, vars, files, saves, hist
<1> QED BY <1>1, <1>2, <1>3, CleanBoot, CleanCut, CleanBegin, CleanSave, CleanHttpd DEF Next

-----------------------------------------------------------------------------
LEMMA Inductive == IInv /\ [Next]_vars => IInv'
BY TypeStep, BootStep, DiskStep, CleanStep DEF IInv

LEMMA Invariant == Spec => []IInv
BY InitInv, Inductive, PTL DEF Spec

\* Files, the NVS backup and the copy in RAM hold settings, are missing or torn,
\* and no saver leaves its steps.
THEOREM TypeCorrect == Spec => []TypeOk
<1>1. IInv => TypeOk
  BY DEF IInv
<1> QED BY <1>1, Invariant, PTL

\* config_set_json, config_reset and config_backup_to_nvs: what was saved without
\* meeting another save, a flash job or a failure is what the next boot finds,
\* wherever power is cut and however often the filesystem is rewritten.
THEOREM SettingsAreKept == Spec => []SettingsSurvive
<1>1. IInv => SettingsSurvive
  BY DEF IInv, CleanInv, RestInv, SettingsSurvive, Settled
<1> QED BY <1>1, Invariant, PTL

\* config_mgr_init erases the backup only after config.json has been written from
\* it; the one other place that erases it is a reset.
THEOREM BackupIsKept == Spec => BackupKeptUntilWritten
<1>1. IInv /\ [Next]_vars => [backup # Missing /\ backup' = Missing => cfg = backup \/ op = "rFile"]_vars
  <2> SUFFICES ASSUME IInv, Next, backup # Missing, backup' = Missing
               PROVE  cfg = backup \/ op = "rFile"
    OBVIOUS
  <2>1. RestoreErase \/ PurgeBackup
    BY DEF Next, Boot, RestoreWrite, RestoreShort, Kept, LoadFromFlash, PowerCut, Reboot, ReaderLocks,
           ReaderUnlocks, SetMode, SetJson, Serialise, SaveStep, OpenTmp, CloseTmp, WriteFails, Rename,
           RenameFails, RemoveTmp, ApiReset, ApiFsOta, Starts, Httpd, ConfigReset, ResetRestarts,
           ReceiveFails, BackupToNvs, BackupFails, Unmount, EraseFirst, FlashFails, FlashDone,
           FsRestarts, files
  <2> QED BY <2>1 DEF RestoreErase, PurgeBackup, IInv, BootInv
<1> QED BY <1>1, Invariant, PTL DEF Spec, BackupKeptUntilWritten
=============================================================================
