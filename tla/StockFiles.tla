----------------------------- MODULE StockFiles -----------------------------
(***************************************************************************)
(* The missing-files banner of web_server.c: a count and a list of the     *)
(* stock files that are not on flash, less those the user has excepted.    *)
(* A scan on the network task finds them batch by batch; saved exceptions  *)
(* and uploads correct list and count from the web server's task without a *)
(* scan, and deletions do not.  A repair fetches what is missing.          *)
(***************************************************************************)
EXTENDS Naturals, FiniteSets

CONSTANTS StockCount, ListMax   \* STOCK_FILES_COUNT, STOCK_MISSING_LIST_MAX

Stock == 1..StockCount
\* An exception is the set of files it covers: a path, or a folder.
Entries == {{1}, {2}, {1, 2}}
\* What a deletion or a patch touches at once: a file, a folder, everything.
Batches == {{f} : f \in Stock} \cup {{1, 2}, Stock}
Covered(es) == UNION es

VARIABLES
  there,        \* the stock files on flash
  exc,          \* stock_exception_paths
  list, total,  \* s_stock_missing_paths, s_stock_missing_count
  scan,         \* s_stock_scan_active and the scan's locals
  repair,       \* the repair's work, or none
  unseen, late  \* histories: since the last scan began, a change that nothing
                \* announces, or a change while the scan ran

vars == <<there, exc, list, total, scan, repair, unseen, late>>

Off == [pc |-> "off", at |-> 1, exc |-> {}, miss |-> 0]
NoRepair == [on |-> FALSE, work |-> {}]

Init ==
  /\ there = Stock /\ exc = {} /\ list = {} /\ total = 0
  /\ scan = Off /\ repair = NoRepair /\ unseen = FALSE /\ late = FALSE

Missing == Stock \ (there \cup Covered(exc))
Scanning == scan.pc = "on"

-----------------------------------------------------------------------------
(* stock_files_check_spawn, stock_files_check *)

\* No scan is asked for while one is due or runs.
Spawned == IF scan.pc = "off" THEN [scan EXCEPT !.pc = "due"] ELSE scan

ScanBegins ==
  /\ scan.pc = "due" /\ ~repair.on
  /\ scan' = [pc |-> "on", at |-> 1, exc |-> exc, miss |-> 0]
  /\ list' = {}
  /\ unseen' = FALSE /\ late' = FALSE
  /\ UNCHANGED <<there, exc, total, repair>>

ScanFile ==
  /\ Scanning /\ scan.at <= StockCount
  /\ IF scan.at \in there \cup Covered(scan.exc)
     THEN scan' = [scan EXCEPT !.at = @ + 1] /\ UNCHANGED list
     ELSE /\ scan' = [scan EXCEPT !.at = @ + 1, !.miss = @ + 1]
          /\ list' = IF Cardinality(list) < ListMax THEN list \cup {scan.at} ELSE list
  /\ UNCHANGED <<there, exc, total, repair, unseen, late>>

\* The display does not pause: the count stays, the list is cut short.
ScanGivesUp ==
  /\ Scanning /\ scan.at <= StockCount
  /\ scan' = Off /\ unseen' = TRUE
  /\ UNCHANGED <<there, exc, list, total, repair, late>>

ScanEnds ==
  /\ Scanning /\ scan.at > StockCount
  /\ total' = scan.miss /\ scan' = Off
  /\ UNCHANGED <<there, exc, list, repair, unseen, late>>

-----------------------------------------------------------------------------
(* api_post_settings: stock_missing_recompute_after_exception_change *)

SlipRescans(new) == total > Cardinality(list)
Rescans(new) == Cardinality(new) < Cardinality(exc) \/ total > Cardinality(list)

\* More entries than before, but not all of those.
Replaced(new) == Cardinality(new) > Cardinality(exc) /\ ~(exc \subseteq new)

SaveExceptions(new) ==
  /\ exc' = new
  /\ late' = (late \/ Scanning)
  /\ \/ /\ Cardinality(new) = Cardinality(exc)
        /\ unseen' = (unseen \/ new # exc)
        /\ UNCHANGED <<list, total, scan>>
     \/ /\ Cardinality(new) # Cardinality(exc) /\ Rescans(new)
        /\ scan' = Spawned
        /\ UNCHANGED <<list, total, unseen>>
     \/ /\ Cardinality(new) # Cardinality(exc) /\ ~Rescans(new)
        /\ unseen' = (unseen \/ Replaced(new))
        /\ list' = list \ Covered(new)
        /\ total' = IF list = {} THEN total ELSE Cardinality(list')
        /\ UNCHANGED scan
  /\ UNCHANGED <<there, repair>>

-----------------------------------------------------------------------------
(* The file browser and the updates *)

\* stock_missing_mark_present
Upload(f) ==
  /\ there' = there \cup {f}
  /\ list' = list \ {f}
  /\ total' = IF f \in list /\ total > 0 THEN total - 1 ELSE total
  /\ late' = (late \/ Scanning)
  /\ unseen' = (unseen \/ (f \in Missing \ list))   \* the list was cut short
  /\ UNCHANGED <<exc, scan, repair>>

Delete(fs) ==
  /\ there' = there \ fs
  /\ unseen' = TRUE
  /\ UNCHANGED <<exc, list, total, scan, repair, late>>

\* A hotpatch or a Web UI pull writes the files that are not excepted.
Patch(fs) ==
  /\ there' = there \cup (fs \ Covered(exc))
  /\ scan' = Spawned
  /\ late' = (late \/ Scanning)
  /\ UNCHANGED <<exc, list, total, repair, unseen>>

-----------------------------------------------------------------------------
(* stock_repair_task, on the task that scans *)

RepairVerifies ==
  /\ ~repair.on /\ ~Scanning
  /\ repair' = [on |-> TRUE, work |-> Missing]
  /\ UNCHANGED <<there, exc, list, total, scan, unseen, late>>

\* A file comes and has the right hash, or it stays missing.
RepairFetches ==
  /\ repair.on /\ repair.work # {}
  /\ \E f \in repair.work :
       /\ repair' = [repair EXCEPT !.work = @ \ {f}]
       /\ there' \in {there, there \cup {f}}
  /\ UNCHANGED <<exc, list, total, scan, unseen, late>>

\* No release has the version's tag.
NoSuchTag ==
  /\ repair.on /\ repair.work # {}
  /\ repair' = [repair EXCEPT !.work = {}]
  /\ UNCHANGED <<there, exc, list, total, scan, unseen, late>>

RepairEnds ==
  /\ repair.on /\ repair.work = {}
  /\ repair' = NoRepair
  /\ scan' = Spawned
  /\ UNCHANGED <<there, exc, list, total, unseen, late>>

-----------------------------------------------------------------------------
\* The scan after a boot is asked for by a timer.
Boot ==
  /\ list' = {} /\ total' = 0
  /\ scan' \in {Off, [Off EXCEPT !.pc = "due"]}   \* stock_auto_check_enabled
  /\ repair' = NoRepair
  /\ unseen' = TRUE
  /\ UNCHANGED <<there, exc, late>>

Scan == ScanBegins \/ ScanFile \/ ScanEnds
Repair == RepairFetches \/ RepairEnds

Next ==
  \/ Scan \/ ScanGivesUp
  \/ \E es \in SUBSET Entries : SaveExceptions(es)
  \/ \E f \in Stock : Upload(f)
  \/ \E fs \in Batches : Delete(fs) \/ Patch(fs)
  \/ RepairVerifies \/ Repair \/ NoSuchTag
  \/ Boot

\* The network task runs, and looks for a scan that is due after every job.
Fairness == SF_vars(Scan) /\ WF_vars(Repair)
Spec == Init /\ [][Next]_vars /\ Fairness

-----------------------------------------------------------------------------
TypeOk ==
  /\ there \subseteq Stock /\ exc \subseteq Entries
  /\ list \subseteq Stock /\ Cardinality(list) <= ListMax /\ total \in 0..StockCount
  /\ scan.pc \in {"off", "due", "on"} /\ scan.at \in 1..StockCount + 1 /\ scan.miss \in 0..StockCount
  /\ repair.on \in BOOLEAN /\ repair.work \subseteq Stock

\* The banner comes to count what is missing and not excepted, whichever of scan,
\* exception, upload, patch and repair came last; excepted is a change nothing
\* announces (a deletion, an exception replaced by another, a scan that gives up)
\* and one that falls into a running scan.
BannerCatchesUp == []<>(total = Cardinality(Missing) \/ unseen \/ late)

\* web_server.c:311: a scan asked for while one runs is "a no-op then: its result
\* will be fresh shortly anyway".
FreshShortly == []<>(total = Cardinality(Missing) \/ unseen)
=============================================================================
