----------------------------- MODULE ThemeStore -----------------------------
(***************************************************************************)
(* The Theme Manager of web_server.c with one theme: its folder on flash,  *)
(* the marker .pack.json that says which revision of the catalog it holds, *)
(* the copy that an install moves aside, the catalog in RAM and on flash,  *)
(* and the job that refreshes, verifies, installs or removes.  The job     *)
(* runs on the network task; the web server's task changes the same files, *)
(* restores the catalog, and power fails, between any two of its steps.    *)
(*                                                                         *)
(* A file is 0 (not there), the revision whose content it has, or Other.   *)
(***************************************************************************)
EXTENDS Naturals

CONSTANTS Files, RevMax, Touches   \* bounds: revisions of the pack, changes by hand and power cuts

Revs  == 1..RevMax
Other == RevMax + 1

\* `sound` is a history: nothing but the job has changed the folder since it was
\* installed or last hashed, and no power cut fell into a removal or a failed write.
Folders == [there : BOOLEAN, file : [Files -> 0..Other], mark : 0..RevMax, sound : BOOLEAN]
None    == [there |-> FALSE, file |-> [f \in Files |-> 0], mark |-> 0, sound |-> TRUE]
Pack(r) == [f \in Files |-> r]
Holds(d, r) == d.file = Pack(r)

VARIABLES
  dir,      \* /images/themes/<id>
  aside,    \* /images/themes/.old_<id>
  active,   \* the theme is the one the settings name
  latest,   \* the revision in the repository's catalog
  ram, saved,      \* the revision in s_tm_catalog and in its file, 0 for no catalog
  restored, asked, \* s_tm_restored; the web server waits in tm_restore_catalog
  job,      \* what tm_job does, where it is, its counts and what it has read
  touched   \* changes by hand and power cuts so far

vars == <<dir, aside, active, latest, ram, saved, restored, asked, job, touched>>

Steps == {"fetch", "sweep", "move", "extract", "judge", "tidy", "undo", "back",
          "hash", "mark", "save", "switch", "files", "rest"}
Idle  == [op |-> "none", pc |-> "idle", todo |-> {}, ok |-> 0, fail |-> 0,
          had |-> FALSE, seen |-> Pack(0), before |-> None, calm |-> TRUE, result |-> "none"]

Init ==
  /\ dir \in {None} \cup [there : {TRUE}, file : {Pack(1), Pack(Other)}, mark : {0}, sound : {TRUE}]
                    \cup [there : {TRUE}, file : {Pack(1)}, mark : {1}, sound : {TRUE}]
  /\ aside = None /\ active = TRUE /\ latest = 1
  /\ ram = 0 /\ saved = 0 /\ restored = FALSE /\ asked = FALSE
  /\ job = Idle /\ touched = 0

Published ==
  /\ latest < RevMax /\ ~asked /\ latest' = latest + 1
  /\ UNCHANGED <<dir, aside, active, ram, saved, restored, asked, job, touched>>

-----------------------------------------------------------------------------
(* The requests *)

At(pc) == job.pc = pc
Running == job.pc # "idle"

Start(op, pc) ==
  /\ ~Running
  /\ job' = [Idle EXCEPT !.op = op, !.pc = pc]
  /\ UNCHANGED <<dir, aside, active, latest, ram, saved, restored, asked, touched>>

Refresh == Start("refresh", "fetch") /\ ~asked
Install == Start("install", "fetch") /\ ~asked /\ ram # 0
Verify  == Start("verify", "hash") /\ ~asked /\ ram # 0
Remove  == Start("remove", "switch") /\ ~asked /\ dir.there

\* tm_restore_catalog by the web server waits for the display between its test and
\* its read.
RestoreAsked ==
  /\ ~restored /\ ram = 0 /\ ~Running /\ ~asked
  /\ restored' = TRUE /\ asked' = TRUE
  /\ UNCHANGED <<dir, aside, active, latest, ram, saved, job, touched>>

RestoreEnds ==
  /\ asked /\ asked' = FALSE
  /\ \/ ram' = (IF saved = 0 THEN ram ELSE saved) /\ UNCHANGED restored
     \/ restored' = FALSE /\ UNCHANGED ram   \* the display did not pause
  /\ UNCHANGED <<dir, aside, active, latest, saved, job, touched>>

\* The daily check: restores the catalog itself, and refreshes it if it is old.
AutoCheck ==
  /\ ~Running
  /\ restored' = TRUE
  /\ ram' = IF ~restored /\ ram = 0 THEN saved ELSE ram
  /\ job' = [Idle EXCEPT !.op = "refresh", !.pc = "fetch"]
  /\ UNCHANGED <<dir, aside, active, latest, saved, asked, touched>>

-----------------------------------------------------------------------------
(* tm_job *)

Goto(pc) == job' = [job EXCEPT !.pc = pc]
Ended  == job' = Idle
Failed == job' = IF job.calm THEN [Idle EXCEPT !.before = job.before, !.result = "failed"] ELSE Idle
Touch == touched < Touches /\ touched' = touched + 1

Catalogs == <<latest, ram, saved, restored, asked>>

\* The folder the refresh or the Verify button looks at next, if it has to.
ToHash == dir.there /\ (dir.mark = 0 \/ job.op = "verify")

CatalogCame ==
  /\ At("fetch") /\ job.op = "refresh"
  /\ ram' = latest
  /\ Goto("hash")
  /\ UNCHANGED <<dir, aside, active, latest, saved, restored, asked, touched>>

\* The pack is the one the catalog in RAM names; its size and SHA-256 are checked.
PackCame ==
  /\ At("fetch") /\ job.op = "install" /\ ram # 0
  /\ job' = [job EXCEPT !.pc = "sweep", !.before = dir, !.calm = TRUE]
  /\ UNCHANGED <<dir, aside, active, Catalogs, touched>>

FetchFails ==
  /\ At("fetch") /\ Ended
  /\ UNCHANGED <<dir, aside, active, Catalogs, touched>>

\* fs_remove_recursive takes one entry at a time, then the folder.
Less(d, e) ==
  \/ \E f \in Files : d.file[f] # 0 /\ e = [d EXCEPT !.file[f] = 0]
  \/ d.mark # 0 /\ e = [d EXCEPT !.mark = 0]
Empty(d) == d.mark = 0 /\ Holds(d, 0)

SweepAside(pc, next) ==
  /\ At(pc)
  /\ \/ Less(aside, aside') /\ UNCHANGED job
     \/ Empty(aside) /\ aside' = None /\ next
  /\ UNCHANGED <<dir, active, Catalogs, touched>>

SweepDir(pc, next) ==
  /\ At(pc)
  /\ \/ Less(dir, dir') /\ UNCHANGED job
     \/ Empty(dir) /\ dir' = None /\ next
  /\ UNCHANGED <<aside, active, Catalogs, touched>>

OldSwept == SweepAside("sweep", Goto("move"))

MoveAside ==
  /\ At("move") /\ aside = None
  /\ aside' = dir /\ dir' = None
  /\ job' = [job EXCEPT !.pc = "extract", !.had = dir.there, !.todo = Files]
  /\ UNCHANGED <<active, Catalogs, touched>>

\* pack_theme.py writes the marker after the files, and the extraction keeps the order.
LastOfAll(todo) == todo = {}

\* A file whose content is the pack's already is left alone and not counted.
Extract ==
  /\ At("extract")
  /\ \/ \E f \in job.todo :
          /\ dir' = [dir EXCEPT !.there = TRUE, !.file[f] = ram]
          /\ job' = [job EXCEPT !.todo = job.todo \ {f}, !.ok = IF dir.file[f] = ram THEN job.ok ELSE 1]
     \/ /\ LastOfAll(job.todo)
        /\ dir' = [dir EXCEPT !.there = TRUE, !.mark = ram]
        /\ job' = [job EXCEPT !.pc = "judge", !.ok = 1]
  /\ UNCHANGED <<aside, active, Catalogs, touched>>

ExtractFails ==
  /\ At("extract")
  /\ \/ \E f \in job.todo, v \in {0, Other} :
          /\ dir' = [dir EXCEPT !.there = TRUE, !.file[f] = v]
          /\ job' = [job EXCEPT !.todo = job.todo \ {f}, !.fail = 1]
     \/ /\ LastOfAll(job.todo)
        /\ job' = [job EXCEPT !.pc = "judge", !.fail = 1]
        /\ UNCHANGED dir
  /\ UNCHANGED <<aside, active, Catalogs, touched>>

Complete == job.fail = 0 /\ job.ok = 1 /\ dir.mark # 0

Judge ==
  /\ At("judge")
  /\ \/ Complete /\ job.had /\ Goto("tidy")
     \/ Complete /\ ~job.had /\ Ended
     \/ ~Complete /\ Goto("undo")
  /\ UNCHANGED <<dir, aside, active, Catalogs, touched>>

Tidy == SweepAside("tidy", Ended)
Undo == SweepDir("undo", Goto("back"))

\* rename refuses to replace a folder that is not empty.
SlipBack == None
Back     == aside
PutBack ==
  /\ At("back")
  /\ \/ job.had /\ Empty(dir) /\ dir' = Back /\ aside' = None
     \/ ~(job.had /\ Empty(dir)) /\ UNCHANGED <<dir, aside>>
  /\ Failed
  /\ UNCHANGED <<active, Catalogs, touched>>

\* A file that is open, or a flash error: fs_remove_recursive stops, and the job
\* goes on with what is left.
RemoveFails ==
  /\ Touch
  /\ \/ At("sweep") /\ (IF dir.there THEN Failed ELSE job' = [job EXCEPT !.pc = "extract", !.todo = Files])
     \/ At("undo") /\ job' = [job EXCEPT !.calm = FALSE, !.pc = "back"]
     \/ job.pc \in {"tidy", "rest"} /\ Ended
  /\ dir' = [dir EXCEPT !.sound = @ /\ job.pc \in {"sweep", "tidy"}]
  /\ UNCHANGED <<aside, active, Catalogs>>

-----------------------------------------------------------------------------
(* tm_verify_installed, tm_save_catalog *)

Hashed == IF job.op = "refresh" THEN Goto("save") ELSE Ended

Hash ==
  /\ At("hash")
  /\ \/ ToHash /\ job' = [job EXCEPT !.pc = "mark", !.seen = dir.file]
     \/ ~ToHash /\ Hashed
  /\ UNCHANGED <<dir, aside, active, Catalogs, touched>>

\* The marker the folder gets: with none, the catalog's revision if it matches; a
\* folder that no longer matches its own marker loses it.
Marker(mark, seen) ==
  CASE mark # 0 /\ seen = Pack(mark) -> mark
    [] mark = 0 /\ seen = Pack(ram) -> ram
    [] OTHER -> 0

Mark ==
  /\ At("mark")
  /\ dir' = [dir EXCEPT !.mark = IF dir.there THEN Marker(dir.mark, job.seen) ELSE 0,
                        !.sound = dir.file = job.seen]
  /\ Hashed
  /\ UNCHANGED <<aside, active, Catalogs, touched>>

\* The display did not pause.
VerifySkips ==
  /\ At("hash") /\ Hashed
  /\ UNCHANGED <<dir, aside, active, Catalogs, touched>>

\* A temporary file and a rename; the previews are fetched in between.
SaveCatalog ==
  /\ At("save") /\ Ended
  /\ saved' \in {ram, saved}
  /\ UNCHANGED <<dir, aside, active, latest, ram, restored, asked, touched>>

-----------------------------------------------------------------------------
(* tm_do_remove: the marker is a dot file and goes last. *)

Switch ==
  /\ At("switch") /\ Goto("files")
  /\ active' = FALSE
  /\ UNCHANGED <<dir, aside, Catalogs, touched>>

RemoveFiles ==
  /\ At("files")
  /\ \/ \E f \in Files : dir.file[f] # 0 /\ dir' = [dir EXCEPT !.file[f] = 0] /\ UNCHANGED job
     \/ Holds(dir, 0) /\ Goto("rest") /\ UNCHANGED dir
  /\ UNCHANGED <<aside, active, Catalogs, touched>>

RemoveRest == SweepDir("rest", Ended)

-----------------------------------------------------------------------------
(* The file browser, the settings and power *)

ByHand(new) ==
  /\ Touch
  /\ dir' = [new EXCEPT !.sound = ~(new.there \/ Running)]
  /\ job' = IF Running THEN [job EXCEPT !.calm = FALSE] ELSE Idle
  /\ UNCHANGED <<aside, active, Catalogs>>

Upload(f) == ByHand([dir EXCEPT !.there = TRUE, !.file[f] = Other])
Delete(f) == dir.file[f] # 0 /\ ByHand([dir EXCEPT !.file[f] = 0])
DeleteTheme == dir.there /\ ByHand(None)   \* or renamed

Choose ==
  /\ Touch
  /\ dir.there \/ active
  /\ active' = ~active
  /\ UNCHANGED <<dir, aside, Catalogs, job>>

\* RAM is lost, and the file that was being written is empty or short.
PowerCut ==
  /\ Touch
  /\ job' = Idle
  /\ ram' = 0 /\ restored' = FALSE /\ asked' = FALSE
  /\ \E d \in {dir} \cup {[dir EXCEPT !.there = TRUE, !.file[f] = Other] : f \in job.todo} :
       dir' = [d EXCEPT !.sound = ~d.there \/ (@ /\ job.pc \notin {"files", "rest", "undo"} /\ job.fail = 0)]
  /\ active' \in {active, active /\ dir'.there}   \* a theme without a folder falls back at boot
  /\ UNCHANGED <<aside, latest, saved>>

Requests == Refresh \/ Install \/ Verify \/ Remove \/ RestoreAsked \/ RestoreEnds \/ AutoCheck
Job ==
  \/ CatalogCame \/ PackCame \/ FetchFails
  \/ OldSwept \/ MoveAside \/ Extract \/ ExtractFails \/ Judge \/ Tidy \/ Undo \/ PutBack \/ RemoveFails
  \/ Hash \/ Mark \/ VerifySkips \/ SaveCatalog
  \/ Switch \/ RemoveFiles \/ RemoveRest
Hand == (\E f \in Files : Upload(f) \/ Delete(f)) \/ DeleteTheme \/ Choose

Next == Published \/ Requests \/ Job \/ Hand \/ PowerCut
Spec == Init /\ [][Next]_vars

-----------------------------------------------------------------------------
TypeOk ==
  /\ dir \in Folders /\ aside \in Folders /\ active \in BOOLEAN
  /\ latest \in Revs /\ ram \in 0..RevMax /\ saved \in 0..RevMax
  /\ restored \in BOOLEAN /\ asked \in BOOLEAN
  /\ job.pc \in Steps \cup {"idle"} /\ job.todo \subseteq Files
  /\ job.ok \in 0..1 /\ job.fail \in 0..1 /\ job.before \in Folders
  /\ touched \in 0..Touches

\* web_server.c:3818: a folder with a marker is what the catalog's revision contains.
\* It holds through refreshes, verifications, installs that fail and power cuts, for
\* a folder nobody has changed by hand since it was hashed; a removal or a failed
\* extraction that power cuts short is excepted (README).
MarkedIsWhole ==
  dir.mark # 0 /\ dir.sound /\ job.pc \notin {"extract", "judge", "undo", "files", "rest"}
    => Holds(dir, dir.mark)

\* README.md:1336: "The old folder is moved aside first and restored if anything
\* fails."  An install that ends in an error leaves the folder as it found it.
FailedInstallRestores ==
  job.result = "failed" =>
    <<dir.there, dir.file, dir.mark>> = <<job.before.there, job.before.file, job.before.mark>>

\* The same sentence, when power was cut: the whole theme that an install has moved
\* aside is not given up before the new one is whole.
OldFolderKept ==
  [][\A r \in Revs : job.calm /\ Holds(aside, r) /\ ~Holds(aside', r) => \E s \in Revs : Holds(dir', s)]_vars

\* web_server.c:4151: "bring the saved catalog back (only if no refresh has loaded
\* one)": what the page lists does not go back to an older catalog.
CatalogKept == [][ram' = 0 \/ ram' >= ram]_vars
=============================================================================
