------------------------------ MODULE Rotations ------------------------------
(***************************************************************************)
(* What turns by itself on the tubes (display.c): the mode and the theme,  *)
(* after a time each, unless somebody else changes them, and the pictures  *)
(* of the album, from a list of its directory that the web interface       *)
(* invalidates when it changes a file.  The settings are copied at the top *)
(* of an iteration of the display task and changed further down.           *)
(***************************************************************************)
EXTENDS Integers, Sequences, SequencesExt

CONSTANTS
  ModeCount,    \* modes there are
  Heavy,        \* modes of rotation_weights 2: they keep the tubes for two intervals
  Builtin,      \* themes that need no folder
  Folders,      \* themes that are a folder; numbers order all of them by name
  Interval,     \* rotation_interval_s and theme_rotation_interval_s, in iterations
  Pictures,     \* files of the album
  MaxAlbum,     \* MAX_ALBUM
  ChangeMax     \* bound: changes from outside

VARIABLES
  now,          \* the settings: [mode, theme]
  turning,      \* [mode, theme]: rotation_enabled, theme_rotation_enabled
  chosen,       \* theme_rotation_themes; {} is all of them
  installed,    \* folders there are
  pause,        \* s_rotation_pause_until_us: iterations left, or Forever
  marked,       \* s_settings_saved
  at,           \* "top" or "rotate": what the display task does next
  copy,         \* its copy of the settings: [mode, theme]
  changed,      \* mode_changed, theme_changed
  seen,         \* last_mode, last_theme, last_mode_rot_en, last_theme_rot_en, last_rotation_paused
  since,        \* iterations since rotation_tick, theme_rotation_tick
  age,          \* history: iterations each has had the tubes, and its rotation been on
  files,        \* of the album's directory
  web,          \* a file has been changed, and the list not been invalidated yet
  scan,         \* the directory has been read, and s_album_loaded not been set yet
  album,        \* [list, loaded, index]: s_album_files, s_album_loaded, s_album_index
  tubes,        \* the pictures on the tubes
  lost,         \* history: a change of the directory that no invalidation follows
  count

timerVars == <<now, turning, chosen, installed, pause, marked, at, copy, changed, seen, since, age>>
albumVars == <<files, web, scan, album, tubes, lost>>
rotationVars == <<timerVars, albumVars, count>>

Kinds == {"mode", "theme"}
Modes == 1..ModeCount
Themes == Builtin \union Folders
Forever == Interval + 1
Longest == 2 * Interval
Tubes == 2

Up(n) == IF n = Longest THEN n ELSE n + 1

RotationsInit ==
  /\ now = [mode |-> 1, theme |-> CHOOSE t \in Builtin : TRUE]
  /\ turning = [k \in Kinds |-> TRUE] /\ chosen \in {{}, Builtin} /\ installed = Folders
  /\ pause = 0 /\ marked = FALSE /\ at = "top"
  /\ copy = now /\ changed = [k \in Kinds |-> TRUE]
  /\ seen = [mode |-> 0, theme |-> 0, on |-> [k \in Kinds |-> FALSE], paused |-> FALSE]
  /\ since = [k \in Kinds |-> 0] /\ age = since
  /\ files \in SUBSET Pictures /\ web = FALSE /\ scan = FALSE
  /\ album = [list |-> <<>>, loaded |-> FALSE, index |-> 0]
  /\ tubes = <<>> /\ lost = FALSE
  /\ count = 0

-----------------------------------------------------------------------------
(* Modes and themes *)

\* The top of an iteration, which took its time.
Top ==
  /\ at = "top" /\ at' = "rotate"
  /\ copy' = now
  /\ changed' = [mode |-> now.mode # seen.mode \/ marked, theme |-> now.theme # seen.theme]
  /\ marked' = FALSE
  /\ seen' = [seen EXCEPT !.mode = now.mode, !.theme = now.theme]
  /\ since' = [k \in Kinds |-> Up(since[k])]
  /\ age' = [k \in Kinds |-> IF now[k] # seen[k] THEN 0 ELSE Up(age[k])]
  /\ pause' = IF pause \in {0, Forever} THEN pause ELSE pause - 1
  /\ UNCHANGED <<now, turning, chosen, installed, albumVars, count>>

\* advance_theme: the next by name of the chosen themes that can be shown, the first if
\* the present one is not among them, none if there is no choice.
Pool == IF chosen = {} THEN Builtin \union installed ELSE chosen \intersect (Builtin \union installed)
Smallest(set) == CHOOSE t \in set : \A u \in set : t <= u
NextTheme(t) ==
  IF Cardinality(Pool) <= 1 THEN now.theme
  ELSE IF t \in Pool /\ \E u \in Pool : u > t THEN Smallest({u \in Pool : u > t})
  ELSE Smallest(Pool)

\* config_advance_mode turns on from the mode of the settings, not of the copy.
NextMode == (now.mode % ModeCount) + 1

\* A baseline is set anew when a rotation is switched on, when a pause ends and when a
\* change from elsewhere is seen.
Resumed(k) == \/ turning[k] /\ ~seen.on[k]
              \/ k = "mode" /\ seen.paused /\ pause = 0
SlipBaseline(k) == IF Resumed(k) THEN 0 ELSE since[k]

Baseline(k) == IF Resumed(k) \/ changed[k] THEN 0 ELSE since[k]
Dwell(k) == IF k = "mode" /\ copy.mode \in Heavy THEN 2 * Interval ELSE Interval
Fires(k) == turning[k] /\ ~changed[k] /\ (k = "mode" => pause = 0) /\ Baseline(k) >= Dwell(k)

Rotate ==
  /\ at = "rotate" /\ at' = "top"
  /\ now' = [mode |-> IF Fires("mode") THEN NextMode ELSE now.mode,
             theme |-> IF Fires("theme") THEN NextTheme(copy.theme) ELSE now.theme]
  /\ since' = [k \in Kinds |-> IF Fires(k) THEN 0 ELSE Baseline(k)]
  /\ seen' = [seen EXCEPT !.on = turning, !.paused = pause # 0]
  /\ age' = [k \in Kinds |-> IF k = "mode" /\ pause # 0 THEN 0 ELSE age[k]]
  /\ UNCHANGED <<turning, chosen, installed, pause, marked, copy, changed, albumVars, count>>

Counts == count < ChangeMax /\ count' = count + 1
loopVars == <<at, copy, changed, seen, since>>

\* Someone chooses a mode or a theme, at any point of an iteration.
Choose(k) ==
  /\ Counts
  /\ now' \in [mode : Modes, theme : Builtin \union installed] /\ now'[k] # now[k]
  /\ \A j \in Kinds \ {k} : now'[j] = now[j]
  /\ marked' \in {marked, TRUE}
  /\ UNCHANGED <<turning, chosen, installed, pause, age, loopVars, albumVars>>

\* A rotation is switched on or off, or given other themes; one switched off and on
\* between two iterations has not been off.
Switch(k) ==
  /\ Counts /\ turning' = [turning EXCEPT ![k] = ~@]
  /\ age' = IF turning'[k] /\ ~seen.on[k] THEN [age EXCEPT ![k] = 0] ELSE age
  /\ chosen' \in {{}, Builtin} /\ marked' \in {marked, TRUE}
  /\ UNCHANGED <<now, installed, pause, loopVars, albumVars>>

\* display_set_rotation_paused: for a time, until it is taken back, or not any more.
Pause ==
  /\ Counts /\ pause' \in {0, Interval, Forever} \ {pause}
  /\ UNCHANGED <<now, turning, chosen, installed, marked, age, loopVars, albumVars>>

Install ==
  /\ Counts /\ installed' \in SUBSET Folders \ {installed}
  /\ UNCHANGED <<now, turning, chosen, pause, marked, age, loopVars, albumVars>>

TimersNext ==
  \/ Top \/ Rotate \/ Pause \/ Install
  \/ \E k \in Kinds : Choose(k) \/ Switch(k)

-----------------------------------------------------------------------------
(* The album *)

Room == IF Cardinality(files) > MaxAlbum THEN MaxAlbum ELSE Cardinality(files)

\* album_load_list reads the directory, in its order or shuffled...
ReadDirectory ==
  /\ ~album.loaded /\ ~scan /\ scan' = TRUE
  /\ \E list \in SetToAllKPermutations(files) :
       Len(list) = Room /\ album' = [album EXCEPT !.list = list]
  /\ UNCHANGED <<timerVars, files, web, tubes, lost, count>>

\* ...and declares the list loaded, whatever was invalidated meanwhile.
Loaded ==
  /\ scan /\ scan' = FALSE /\ album' = [album EXCEPT !.loaded = TRUE]
  /\ UNCHANGED <<timerVars, files, web, tubes, lost, count>>

\* render_album: a window of the list, one further each time.
Picture(i) == album.list[((album.index + i - 1) % Len(album.list)) + 1]
ShowAlbum ==
  /\ album.loaded /\ ~scan
  /\ IF album.list = <<>> THEN tubes' = <<>> /\ UNCHANGED album
     ELSE /\ tubes' = [i \in 1..Tubes |-> Picture(i)]
          /\ album' = [album EXCEPT !.index = (@ + 1) % Len(album.list)]
  /\ UNCHANGED <<timerVars, files, web, scan, lost, count>>

\* Another mode and back.
Afresh ==
  /\ ~scan /\ album.loaded /\ album' = [album EXCEPT !.loaded = FALSE, !.index = 0]
  /\ lost' = FALSE
  /\ UNCHANGED <<timerVars, files, web, scan, tubes, count>>

\* api_file_upload, api_file_delete, api_file_rename: first the files, ...
ChangeFile ==
  /\ Counts /\ ~web /\ web' = TRUE
  /\ files' \in SUBSET Pictures \ {files}
  /\ UNCHANGED <<timerVars, scan, album, tubes, lost>>

\* ...then display_album_invalidate, which a scan that is ending overrides.
Invalidate ==
  /\ web /\ web' = FALSE
  /\ album' = [album EXCEPT !.loaded = FALSE, !.index = 0]
  /\ lost' = (scan /\ ToSet(album.list) # files)
  /\ UNCHANGED <<timerVars, files, scan, tubes, count>>

\* An upload that is cut off removes what it was to replace, and a deletion of a folder
\* that fails half-way has deleted files: neither invalidates.
Unannounced ==
  /\ Counts /\ ~web /\ \E p \in files : files' = files \ {p}
  /\ lost' = (lost \/ album.loaded \/ scan)
  /\ UNCHANGED <<timerVars, web, scan, album, tubes>>

AlbumNext ==
  \/ ReadDirectory \/ Loaded \/ ShowAlbum \/ Afresh
  \/ ChangeFile \/ Invalidate \/ Unannounced

-----------------------------------------------------------------------------
\* display.c:11710-11717, 11726-11732, 11749-11756: a mode or a theme the loop has come
\* to show, or whose rotation it has seen switched on or resumed, has the tubes for its
\* whole time before the rotation turns on.
DwellKept ==
  [][at = "rotate" /\ at' = "top" =>
       \A k \in Kinds : now'[k] # now[k] => age[k] >= Dwell(k)]_rotationVars

\* display.c:9191-9225: a list that is used is that of the files there are, as many as
\* it holds, unless a change was made that nothing announces or was announced during
\* a scan.
AlbumCurrent ==
  album.loaded /\ ~web /\ ~lost => ToSet(album.list) \subseteq files /\ Len(album.list) = Room
=============================================================================
