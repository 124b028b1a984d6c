------------------------------ MODULE ThemeArt ------------------------------
(***************************************************************************)
(* The pictures of a theme pack on their way to the tubes (display.c): the *)
(* files, the cache of decoded pictures, what is remembered about the      *)
(* files, and the mark by which a writer of files tells the display task   *)
(* that what it remembers is stale.  The writer is the web server's task;  *)
(* the display task decodes, remembers and draws.  Drawing from scratch is *)
(* the reference: what a tube shows must in the end be what it would be.   *)
(***************************************************************************)
EXTENDS Naturals, Sequences, SequencesExt

CONSTANTS
  Slots,      \* IMG_CACHE_ENTRIES
  WriteMax    \* bound: files written or removed

VARIABLES
  disk,       \* the version of each file; see Gone and Torn
  img,        \* the decoded pictures, the one used last first
  num,        \* what s_num_has_png says, "?" before it was probed
  ink,        \* the version s_theme_color_memo_color was sampled from, or Gone
  stale,      \* s_theme_stale_ms, as the number of the mark; 0 is none
  quiet,      \* THEME_STALE_QUIET_MS have passed since the mark
  art,        \* the display task: [pc, seen, repaint, theme]
  chosen,     \* the theme in the settings: "pack" or "sky"
  shown,      \* [number, label]: what is on two tubes
  web,        \* the writer: [pc, file]
  silent,     \* a cut-off upload has removed a file since the last flush
  writes

vars == <<disk, img, num, ink, stale, quiet, art, chosen, shown, web, silent, writes>>

Gone == 0
Torn == 1        \* truncated, not yet written: opens, but does not decode
Shipped == 2
Files == {"0.jpg", "0.png", "1.jpg", "blank"}

TypeOk ==
  /\ disk \in [Files -> Nat] /\ ink \in Nat
  /\ Len(img) <= Slots /\ \A i, j \in 1..Len(img) : img[i][1] = img[j][1] => i = j
  /\ num \in {"?", "jpg", "png"} /\ stale \in 0..WriteMax /\ quiet \in BOOLEAN
  /\ art.pc \in {"check", "compare", "clear", "flush", "draw"}
  /\ web.pc \in {"idle", "writing", "mark"} /\ silent \in BOOLEAN /\ writes \in 0..WriteMax

Init ==
  /\ \E png \in BOOLEAN : disk = [f \in Files |-> IF f = "0.png" /\ ~png THEN Gone ELSE Shipped]
  /\ img = <<>> /\ num = "?" /\ ink = Gone /\ stale = 0 /\ quiet = FALSE
  /\ art = [pc |-> "check", seen |-> 0, repaint |-> TRUE, theme |-> "none"]
  /\ chosen \in {"pack", "sky"} /\ shown = [number |-> <<"boot">>, label |-> <<"boot">>]
  /\ web = [pc |-> "idle", file |-> "blank"] /\ silent = FALSE /\ writes = 0

webVars == <<web, silent, writes>>
artVars == <<img, num, ink, art, shown>>

-----------------------------------------------------------------------------
(* From files to pictures *)

\* The slot of the picture not used for longest is taken when there is no free one.
Room(cache) == IF Len(cache) = Slots THEN Front(cache) ELSE cache

\* A cached picture is used as it is; another is decoded, which takes a slot
\* even when the file does not decode.
Get(cache, file) ==
  LET hits == SelectSeq(cache, LAMBDA e : e[1] = file)
      others == SelectSeq(cache, LAMBDA e : e[1] # file)
  IN CASE hits # <<>> -> [cache |-> hits \o others, pic |-> hits[1][2]]
       [] hits = <<>> /\ disk[file] = Gone -> [cache |-> cache, pic |-> Gone]
       [] hits = <<>> /\ disk[file] = Torn -> [cache |-> Room(cache), pic |-> Gone]
       [] OTHER -> [cache |-> <<<<file, disk[file]>>>> \o Room(cache), pic |-> disk[file]]

\* Digits are PNG when there is a 0.png, which is asked once.
Kind(n) == IF n # "?" THEN n ELSE IF disk["0.png"] # Gone THEN "png" ELSE "jpg"

\* A PNG is decoded from its file each time, over the cached blank tube.
Number(cache, n) ==
  IF Kind(n) = "jpg"
  THEN LET g == Get(cache, "0.jpg") IN [cache |-> g.cache, pic |-> <<"jpg", g.pic>>]
  ELSE LET g == Get(cache, "blank")
           v == disk["0.png"]
       IN [cache |-> g.cache, pic |-> <<"png", IF v = Torn THEN Gone ELSE v, g.pic>>]

\* Labels have the colour of the digit 1, sampled once.
Label(cache, memo) ==
  IF memo # Gone THEN [cache |-> cache, pic |-> memo] ELSE Get(cache, "1.jpg")

\* What the tubes show if nothing is remembered.
Afresh == [number |-> Number(<<>>, "?").pic, label |-> <<"ink", Label(<<>>, Gone).pic>>]
Wanted == IF chosen = "sky" THEN [number |-> <<"sky">>, label |-> <<"sky">>] ELSE Afresh

-----------------------------------------------------------------------------
(* The display task *)

Check ==
  /\ art.pc = "check"
  /\ art' = IF stale # 0 /\ quiet THEN [art EXCEPT !.pc = "compare", !.seen = stale]
            ELSE [art EXCEPT !.pc = "draw"]
  /\ UNCHANGED <<disk, img, num, ink, stale, quiet, chosen, shown, webVars>>

\* The mark is taken back unless a later one has replaced it: a comparison and a store.
CompareMark ==
  /\ art.pc = "compare"
  /\ art' = [art EXCEPT !.pc = IF stale = art.seen THEN "clear" ELSE "flush"]
  /\ UNCHANGED <<disk, img, num, ink, stale, quiet, chosen, shown, webVars>>
ClearMark ==
  /\ art.pc = "clear"
  /\ stale' = 0 /\ art' = [art EXCEPT !.pc = "flush"]
  /\ UNCHANGED <<disk, img, num, ink, quiet, chosen, shown, webVars>>

\* `Flush` that forgets the pictures but not what is known about the digits.
SlipFlush ==
  /\ art.pc = "flush"
  /\ img' = <<>> /\ ink' = Gone
  /\ art' = [art EXCEPT !.pc = "draw", !.repaint = TRUE]
  /\ silent' = FALSE /\ UNCHANGED <<disk, num, stale, quiet, chosen, shown, web, writes>>
\* All that was decoded and probed is forgotten, and the tubes are drawn anew.
Flush ==
  /\ art.pc = "flush"
  /\ img' = <<>> /\ ink' = Gone /\ num' = "?"
  /\ art' = [art EXCEPT !.pc = "draw", !.repaint = TRUE]
  /\ silent' = FALSE /\ UNCHANGED <<disk, stale, quiet, chosen, shown, web, writes>>

\* A new theme empties the cache and the memo; the tubes are drawn for that, after a
\* flush, and when the digit has changed.
DrawArt(tick) ==
  /\ art.pc = "draw"
  /\ LET other == chosen # art.theme
         cache == IF other THEN <<>> ELSE img
         memo == IF other THEN Gone ELSE ink
         draws == other \/ art.repaint \/ tick
         number == Number(cache, num)
         label == Label(number.cache, memo)
     IN /\ art' = [art EXCEPT !.pc = "check", !.repaint = FALSE, !.theme = chosen]
        /\ IF draws /\ chosen = "pack"
           THEN /\ img' = label.cache /\ num' = Kind(num) /\ ink' = label.pic
                /\ shown' = [number |-> number.pic, label |-> <<"ink", label.pic>>]
           ELSE /\ img' = cache /\ ink' = memo /\ UNCHANGED num
                /\ shown' = IF draws THEN Wanted ELSE shown
  /\ UNCHANGED <<disk, stale, quiet, chosen, webVars>>

QuietOver ==
  /\ stale # 0 /\ ~quiet /\ quiet' = TRUE
  /\ UNCHANGED <<disk, stale, artVars, chosen, webVars>>

-----------------------------------------------------------------------------
(* What changes the files and what is shown *)

Write(f, version, pc) ==
  /\ disk' = [disk EXCEPT ![f] = version] /\ web' = [pc |-> pc, file |-> f]
  /\ UNCHANGED <<stale, quiet, artVars, chosen>>

\* An upload or an extraction truncates the file, fills it and leaves a mark.
WriteBegins(f) ==
  /\ web.pc = "idle" /\ writes < WriteMax
  /\ writes' = writes + 1 /\ UNCHANGED silent /\ Write(f, Torn, "writing")
WriteEnds == web.pc = "writing" /\ UNCHANGED <<silent, writes>> /\ Write(web.file, Shipped + writes, "mark")

\* An upload that is cut off removes the file and leaves no mark.
UploadCut == web.pc = "writing" /\ silent' = TRUE /\ UNCHANGED writes /\ Write(web.file, Gone, "idle")

\* A deletion, a move, the end of the removal of a pack.
Delete(f) ==
  /\ web.pc = "idle" /\ writes < WriteMax /\ disk[f] # Gone
  /\ writes' = writes + 1 /\ UNCHANGED silent /\ Write(f, Gone, "mark")

Mark ==
  /\ web.pc = "mark"
  /\ stale' = writes /\ quiet' = FALSE /\ web' = [web EXCEPT !.pc = "idle"]
  /\ UNCHANGED <<disk, artVars, chosen, silent, writes>>

\* Settings are compared in the same step of the loop that draws.
SetTheme ==
  /\ chosen' \in {"pack", "sky"} \ {chosen}
  /\ UNCHANGED <<disk, stale, quiet, artVars, webVars>>

DisplaySteps == Check \/ CompareMark \/ ClearMark \/ Flush \/ (\E tick \in BOOLEAN : DrawArt(tick))
WriterSteps == (\E f \in Files : WriteBegins(f) \/ Delete(f)) \/ WriteEnds \/ UploadCut \/ Mark
Next == DisplaySteps \/ WriterSteps \/ QuietOver \/ SetTheme

\* The display task and the writer go on, and time passes.
Fairness == WF_vars(DisplaySteps) /\ WF_vars(WriteEnds \/ UploadCut) /\ WF_vars(Mark) /\ WF_vars(QuietOver)

Spec == Init /\ [][Next]_vars /\ Fairness

=============================================================================
