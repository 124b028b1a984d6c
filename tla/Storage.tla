------------------------------- MODULE Storage -------------------------------
(***************************************************************************)
(* What the clock keeps across a restart.  Three stores are written in     *)
(* steps a power cut may part: the settings (ConfigStore), the theme       *)
(* folders (ThemeStore) and the admin password (Auth).  What the settings  *)
(* say, one by one, is ConfigFields; those the panels are tuned with, and  *)
(* previewed before they are saved, LcdTuning; the time, which the clock   *)
(* chip's battery keeps, is TimeKeeping.  They share the settings' flash   *)
(* and no other state, so a behaviour of this module is one of one of the  *)
(* six, chosen at the start.                                               *)
(***************************************************************************)
EXTENDS ConfigStore, SequencesExt

CONSTANTS Files, RevMax, Touches, Pws, Clients, Slots, LockoutMax,
          Zones, Summer, Chips, Slew, Drift, Far, Events,
          Changing, GammaStep, FailMax

\* "none" stands for no browser and no password; gammas are counted in steps
\* that can be compared, clocks in seconds; the catalog's first revision is 1.
ASSUME StorageAssumption ==
  /\ "none" \notin Pws /\ "none" \notin Clients
  /\ GammaStep \in Nat /\ RevMax \in Nat \ {0}
  /\ Zones \subseteq Int /\ Summer \in Int /\ Slew \in Nat /\ Drift \in Nat /\ Far \in Nat

VARIABLES
  part,
  dir, aside, active, latest, catalog, saved, restored, asked, tmJob, touched,
  nvs, slot, order, stale, failed, locked, keys, owner, unsure,
  group, setting, kept,
  put, clock, season, chip, stray, flags, staged, sntp, ntp, web, crashed, agreed, events,
  groups, tuned, held, panel, applied, preview, timer, save, tube, fails

Packs == INSTANCE ThemeStore WITH ram <- catalog, job <- tmJob
Admin == INSTANCE Auth WITH job <- keys
Single == INSTANCE ConfigFields WITH ram <- setting, saved <- kept
Lcd == INSTANCE LcdTuning WITH saved <- tuned
Time == INSTANCE TimeKeeping WITH saved <- put

packVars == <<dir, aside, active, latest, catalog, saved, restored, asked, tmJob, touched>>
adminVars == <<nvs, slot, order, stale, failed, locked, keys, owner, unsure>>
fieldVars == <<group, setting, kept>>
lcdVars == <<groups, tuned, held, panel, applied, preview, timer, save, tube, fails>>
timeVars == <<put, clock, season, chip, stray, flags, staged, sntp, ntp, web, crashed, agreed, events>>
storageVars == <<part, vars, packVars, adminVars, fieldVars, lcdVars, timeVars>>

StorageTypeOk ==
  /\ part = "settings" => TypeOk
  /\ part = "packs" => Packs!TypeOk
  /\ part = "admin" => Admin!TypeOk
  /\ part = "fields" => Single!TypeOk
  /\ part = "panels" => Lcd!TypeOk
  /\ part = "time" => Time!TypeOk

\* Only the part that runs is given more than one initial state.
StorageInit ==
  /\ part \in {"settings", "packs", "admin", "fields", "panels", "time"}
  /\ Init /\ Packs!Init /\ Admin!Init /\ Single!Init /\ Lcd!Init /\ Time!Init
  /\ part = "packs" \/ dir = Packs!None
  /\ part = "admin" \/ owner = Admin!None
  /\ part = "fields" \/ group = "zone"
  /\ part = "panels" \/ groups = CHOOSE g \in Changing : TRUE
  /\ part = "time" \/ put.zone = 0

StorageNext ==
  /\ UNCHANGED part
  /\ \/ part = "settings" /\ Next /\ UNCHANGED <<packVars, adminVars, fieldVars, lcdVars, timeVars>>
     \/ part = "packs" /\ Packs!Next /\ UNCHANGED <<vars, adminVars, fieldVars, lcdVars, timeVars>>
     \/ part = "admin" /\ Admin!Next /\ UNCHANGED <<vars, packVars, fieldVars, lcdVars, timeVars>>
     \/ part = "fields" /\ Single!Next /\ UNCHANGED <<vars, packVars, adminVars, lcdVars, timeVars>>
     \/ part = "panels" /\ Lcd!Next /\ UNCHANGED <<vars, packVars, adminVars, fieldVars, timeVars>>
     \/ part = "time" /\ Time!Next /\ UNCHANGED <<vars, packVars, adminVars, fieldVars, lcdVars>>

StorageSpec == StorageInit /\ [][StorageNext]_storageVars

-----------------------------------------------------------------------------
\* web_server.c:3818: a folder with a marker is what the catalog's revision contains.
\* It holds through refreshes, verifications, installs that fail and power cuts, for
\* a folder nobody has changed by hand since it was hashed; a removal or a failed
\* extraction that power cuts short is excepted (README).  And README.md:1336: "The
\* old folder is moved aside first and restored if anything fails", so an install
\* that ends in an error leaves the folder as it found it.
ThemesWhole == part = "packs" => Packs!MarkedIsWhole /\ Packs!FailedInstallRestores

\* Until a change of it breaks off between two keys, the password the owner was
\* last told is set is the one that logs in, and no other does; without one the
\* clock is open.  This holds through the silent move of an old hash to today's
\* iteration count (auth_login) and through every power cut.  And no session
\* outlives the password it was opened with: a change, a disabling and a reset end
\* all of them, whichever browser asked.
OnlyTheOwner == part = "admin" => Admin!OwnerGetsIn /\ Admin!SessionsOfOwner

\* What is printed is read back: a boot finds the settings the clock had when it
\* saved them, whatever requests, corrections and migrations led to them.
ReadsBack == part = "fields" => Single!ReadsBack

\* Settings that only make sense together keep making sense: a mode that tells the
\* time, a page and a panel stay on, the microphone runs for Spectrum and nothing
\* else, a legacy time zone keeps its offset.
SettingsFit == part = "fields" => Single!SettingsFit

\* web_server.c:3627-3631: whatever has been previewed, reverted and saved in whatever
\* order, the panels have the previewed values while a preview is on, and the saved
\* ones when it is over.
PreviewHonest == part = "panels" => Lcd!PreviewHonest

\* README.md:888: in the default mode the clock keeps near the true time between
\* answers once one has reached the clock chip, the servers a save put in force are
\* the ones saved last; and (ntp_time.c:63-69) whoever saves while the task starts
\* SNTP, lwIP's assertion that the operating mode is not set while it runs holds.
TimeKept == part = "time" => Time!TimeKept /\ Time!NeverAsserts
=============================================================================
