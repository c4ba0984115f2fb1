----------------------------- MODULE ScreenLayout -----------------------------
(***************************************************************************)
(* How many rows and columns the terminal has (main.c).                    *)
(*                                                                         *)
(* The framebuffer is shared by the tab strip at its top, the grid, and at *)
(* its bottom the symbol menu and the system's virtual keyboard.  Six      *)
(* handlers recompute the grid, each from the parts it knows about, and    *)
(* every recomputation goes to the bridge and the pty of every session.    *)
(*                                                                         *)
(* The keyboard belongs to the system: it moves at any time and tells the  *)
(* app by events, while platform_vkb_height asks for its height as it is   *)
(* now.  Lengths are small numbers of pixels.  A tab that cannot get its   *)
(* shell (TAB_NEW's roll-back) never reaches the layout and is not here.   *)
(* set_screen_cols is not here either: nothing calls it.                   *)
(***************************************************************************)
EXTENDS Integers, Sequences

CONSTANTS
  Tab,             \* sessions
  Screen,          \* <<width, height>> the framebuffer may get by rotation
  MinFontSize,     \* MIN_FONT_SIZE
  MaxFontSize,     \* TERM_MAX_FONT_SIZE
  DefaultFontSize, \* TERM_DEFAULT_FONT_SIZE, the size of the fallback font
  LineHeight,      \* size -> text_height
  CellWidth,       \* size -> text_width
  KeyboardHeight,  \* heights the virtual keyboard may have
  MenuHeight,      \* heights of the symbol and accent menus
  MaxVkbEvents     \* bound of the model: keyboard events not yet handled

FontSize == MinFontSize .. MaxFontSize

ASSUME LayoutAssumption ==
  /\ Screen \subseteq (Nat \ {0, 1}) \X (Nat \ {0, 1})
  /\ MinFontSize \in Nat /\ MaxFontSize \in Nat /\ DefaultFontSize \in FontSize
  /\ LineHeight \in [FontSize -> Nat \ {0}]
  /\ CellWidth \in [FontSize -> Nat \ {0}]
  /\ KeyboardHeight \subseteq Nat
  /\ MenuHeight \subseteq Nat \ {0}
  /\ MaxVkbEvents \in Nat

VARIABLES
  tabs,             \* the live sessions
  bridge,           \* tab -> size its ghostty terminal was given
  tty,              \* tab -> size its pty was given
  grid,             \* rows, cols
  gridTopPad,       \* grid_top_pad
  fb,               \* <<fb_w, fb_h>>
  fontSize,         \* prefs->font_size
  face,             \* size of the font that is loaded: text_height, text_width
  menu,             \* height of kbd.current_symmenu, 0 when it is NULL
  menuReflows,      \* prefs->rescreen_for_symmenu
  keyboardVisible,  \* kbd.virtualkeyboard_visible
  keyboard,         \* the system's keyboard: is it shown, how high
  vkbEvents,        \* its events the app has not handled yet
  exitApplication   \* exit_application

sizeVars     == <<bridge, tty, grid>>
keyboardVars == <<keyboard, vkbEvents>>
vars == <<tabs, sizeVars, gridTopPad, fb, fontSize, face, menu, menuReflows,
          keyboardVisible, keyboardVars, exitApplication>>

TextHeight == LineHeight[face]
Several(ts) == \E s, t \in ts : s # t
Larger(a, b) == IF a > b THEN a ELSE b

NoSize == [rows |-> 0, cols |-> 0, cell |-> 0]

-----------------------------------------------------------------------------
(***************************************************************************)
(* setup_screen_size and what is built on it                               *)
(***************************************************************************)

\* Faulty variant: the clamp to one row is missing.
GridUnclamped(w, h, pad, f) ==
  [rows |-> Larger(h - pad, 0) \div LineHeight[f], cols |-> w \div CellWidth[f]]

GridFor(w, h, pad, f) ==
  [rows |-> Larger(h - pad, LineHeight[f]) \div LineHeight[f],
   cols |-> w \div CellWidth[f]]

SizeOf(g, f) == [rows |-> g.rows, cols |-> g.cols, cell |-> LineHeight[f]]
TtySizeOf(g) == [rows |-> g.rows, cols |-> g.cols, cell |-> 0]

Refused(w, h) == w <= 1 \/ h <= 1

\* A session's bridge and pty go with it.
KeepSizes(ts) ==
  /\ bridge' = [t \in Tab |-> IF t \in ts THEN bridge[t] ELSE NoSize]
  /\ tty' = [t \in Tab |-> IF t \in ts THEN tty[t] ELSE NoSize]
  /\ UNCHANGED grid

\* Faulty variant: background tabs learn their size when they get the focus.
SetupOneTab(w, h, pad, f, ts) ==
  IF Refused(w, h)
    THEN KeepSizes(ts)
    ELSE LET s == CHOOSE t \in ts : TRUE
         IN /\ grid' = GridFor(w, h, pad, f)
            /\ bridge' = [bridge EXCEPT ![s] = SizeOf(grid', f)]
            /\ tty' = [tty EXCEPT ![s] = TtySizeOf(grid')]

\* The new size goes to the bridge and the pty of every session.
SetupScreenSize(w, h, pad, f, ts) ==
  IF Refused(w, h)
    THEN KeepSizes(ts)
    ELSE /\ grid' = GridFor(w, h, pad, f)
         /\ bridge' = [t \in Tab |-> IF t \in ts THEN SizeOf(grid', f) ELSE NoSize]
         /\ tty' = [t \in Tab |-> IF t \in ts THEN TtySizeOf(grid') ELSE NoSize]

\* The strip takes a line as soon as there is a second tab.  The grid is set
\* up for the whole screen, whatever covers its bottom.
ApplyTabStripLayout(ts) ==
  LET want == IF Several(ts) THEN TextHeight ELSE 0
  IN IF want = gridTopPad
       THEN UNCHANGED gridTopPad /\ KeepSizes(ts)
       ELSE /\ gridTopPad' = want
            /\ SetupScreenSize(fb[1], fb[2], want, face, ts)

\* Faulty variant: a repaint forgets the keyboard.
HeightIgnoringKeyboard(w, h) == h

\* rescreen sets up the grid twice, the second time without the keyboard's
\* part; a refused second call leaves the first in force.
HeightLeft(w, h) ==
  IF keyboardVisible /\ ~Refused(w, h - keyboard.height) THEN h - keyboard.height ELSE h

\* A size font_init cannot open becomes the fallback font; one below the
\* minimum is replaced by a guess for the device.
Loadable(f) == IF f < MinFontSize THEN FontSize ELSE {f, DefaultFontSize}

\* rescreen: the font, the menus' cache, the grid, two repaints.  A font that
\* does not load leaves the old metrics; that and a failed cache end the app,
\* after the rest of rescreen has run.  grid_top_pad stays what it was.
Rescreen(w, h, f) ==
  \E loaded \in Loadable(f) \cup {face}, ok \in BOOLEAN :
    /\ loaded \notin Loadable(f) => ~ok
    /\ face' = loaded
    /\ fb' = <<w, h>>
    /\ exitApplication' = ~ok
    /\ SetupScreenSize(w, HeightLeft(w, h), gridTopPad, loaded, tabs)
    /\ UNCHANGED <<tabs, gridTopPad, keyboardVisible, keyboardVars>>

-----------------------------------------------------------------------------
(***************************************************************************)
(* The handlers                                                            *)
(***************************************************************************)
Looping == ~exitApplication

unrelatedToTabs == <<fb, fontSize, face, menu, menuReflows, keyboardVisible, keyboardVars>>

\* With the strip already there the new tab gets the size the others have.
FitNewTab(t) ==
  /\ bridge' = [bridge EXCEPT ![t] = SizeOf(grid, face)]
  /\ tty' = [s \in Tab |-> IF s \in tabs \cup {t} THEN TtySizeOf(grid) ELSE NoSize]
  /\ UNCHANGED <<grid, gridTopPad>>

\* TAB_NEW, once app_session_open and pty_init have succeeded.
TabNew(t) ==
  /\ Looping /\ t \notin tabs
  /\ tabs' = tabs \cup {t}
  /\ IF Several(tabs) THEN FitNewTab(t) ELSE ApplyTabStripLayout(tabs')
  /\ UNCHANGED <<unrelatedToTabs, exitApplication>>

\* close_session_and_reflow, for TAB_CLOSE and for the reaper.
CloseAndReflow(t) ==
  /\ Looping /\ t \in tabs
  /\ tabs' = tabs \ {t}
  /\ exitApplication' = (tabs' = {})
  /\ IF tabs' = {} THEN KeepSizes({}) /\ UNCHANGED gridTopPad ELSE ApplyTabStripLayout(tabs')
  /\ UNCHANGED unrelatedToTabs

unrelatedToMenu == <<tabs, gridTopPad, fb, fontSize, face, menuReflows, keyboardVisible,
                     keyboardVars, exitApplication>>

\* symmenu_toggle with no menu open.
SymmenuOpen ==
  /\ Looping /\ menu = 0
  /\ \E h \in MenuHeight :
       /\ menu' = h
       /\ IF menuReflows
            THEN SetupScreenSize(fb[1], fb[2] - h, gridTopPad, face, tabs)
            ELSE UNCHANGED sizeVars
  /\ UNCHANGED unrelatedToMenu

\* symmenu_toggle with a menu open.
SymmenuClose ==
  /\ Looping /\ menu # 0
  /\ menu' = 0
  /\ IF menuReflows
       THEN SetupScreenSize(fb[1], fb[2], gridTopPad, face, tabs)
       ELSE UNCHANGED sizeVars
  /\ UNCHANGED unrelatedToMenu

\* chord_clear_prefix of a chord with Sym: the menu goes, the grid stays.
ChordClearsMenu ==
  /\ Looping /\ menu # 0
  /\ menu' = 0
  /\ UNCHANGED <<unrelatedToMenu, sizeVars>>

\* FONT_SIZE_*, or term.font_size_set with any number.
SetFontSize(n) ==
  LET size == IF n < MinFontSize THEN MinFontSize
              ELSE IF n > MaxFontSize THEN MaxFontSize ELSE n
  IN /\ Looping /\ size # fontSize
     /\ fontSize' = size
     /\ Rescreen(fb[1], fb[2], size)
     /\ UNCHANGED <<menu, menuReflows>>

\* app_reload_config with a file that loads.
ReloadConfig ==
  /\ Looping
  /\ \E f \in FontSize \cup {MinFontSize - 1}, m \in BOOLEAN :
       /\ fontSize' = f /\ menuReflows' = m
       /\ menu' = 0
       /\ Rescreen(fb[1], fb[2], f)

\* TERM_EVENT_RESIZE after a rotation, and the RESCREEN action.
Resize(s) ==
  /\ Looping
  /\ Rescreen(s[1], s[2], fontSize)
  /\ UNCHANGED <<fontSize, menu, menuReflows>>

-----------------------------------------------------------------------------
(***************************************************************************)
(* The virtual keyboard                                                    *)
(***************************************************************************)
unrelatedToKeyboard == <<tabs, gridTopPad, fb, fontSize, face, menu, menuReflows>>

Report(e) == Len(vkbEvents) < MaxVkbEvents /\ vkbEvents' = Append(vkbEvents, e)

KeyboardShows(h) ==
  /\ Looping /\ ~keyboard.shown
  /\ keyboard' = [shown |-> TRUE, height |-> h]
  /\ Report([kind |-> "visible", height |-> 0])
  /\ UNCHANGED <<unrelatedToKeyboard, sizeVars, keyboardVisible, exitApplication>>

KeyboardHides ==
  /\ Looping /\ keyboard.shown
  /\ keyboard' = [keyboard EXCEPT !.shown = FALSE]
  /\ Report([kind |-> "hidden", height |-> 0])
  /\ UNCHANGED <<unrelatedToKeyboard, sizeVars, keyboardVisible, exitApplication>>

KeyboardChanges(h) ==
  /\ Looping /\ h # keyboard.height
  /\ keyboard' = [keyboard EXCEPT !.height = h]
  /\ Report([kind |-> "info", height |-> h])
  /\ UNCHANGED <<unrelatedToKeyboard, sizeVars, keyboardVisible, exitApplication>>

\* What TERM_EVENT_VKB takes off the screen: VISIBLE asks for the height as it
\* is now, INFO brings it.
Occupied(e) ==
  CASE e.kind = "visible" -> keyboard.height
    [] e.kind = "hidden"  -> 0
    [] e.kind = "info"    -> IF keyboardVisible THEN e.height ELSE 0

HandleVkb ==
  /\ Looping /\ vkbEvents # <<>>
  /\ LET e == Head(vkbEvents)
     IN /\ keyboardVisible' = IF e.kind = "info" THEN keyboardVisible ELSE e.kind = "visible"
        /\ SetupScreenSize(fb[1], fb[2] - Occupied(e), gridTopPad, face, tabs)
  /\ vkbEvents' = Tail(vkbEvents)
  /\ UNCHANGED <<unrelatedToKeyboard, keyboard, exitApplication>>

-----------------------------------------------------------------------------
\* The loop starts with one session, laid out by main's setup_screen_size.
Init ==
  \E t \in Tab, s \in Screen, f \in FontSize :
    /\ tabs = {t}
    /\ fb = s /\ fontSize = f /\ face \in Loadable(f)
    /\ gridTopPad = 0
    /\ grid = GridFor(s[1], s[2], 0, face)
    /\ bridge = [u \in Tab |-> IF u = t THEN SizeOf(grid, face) ELSE NoSize]
    /\ tty = [u \in Tab |-> IF u = t THEN TtySizeOf(grid) ELSE NoSize]
    /\ menu = 0 /\ menuReflows \in BOOLEAN
    /\ keyboardVisible = FALSE
    /\ keyboard \in [shown : {FALSE}, height : KeyboardHeight]
    /\ vkbEvents = <<>>
    /\ exitApplication = FALSE

Next ==
  \/ \E t \in Tab : TabNew(t)
  \/ \E t \in Tab : CloseAndReflow(t)
  \/ SymmenuOpen
  \/ SymmenuClose
  \/ ChordClearsMenu
  \/ \E n \in MinFontSize - 1 .. MaxFontSize + 1 : SetFontSize(n)
  \/ ReloadConfig
  \/ \E s \in Screen : Resize(s)
  \/ \E h \in KeyboardHeight : KeyboardShows(h)
  \/ KeyboardHides
  \/ \E h \in KeyboardHeight : KeyboardChanges(h)
  \/ HandleVkb

Spec == Init /\ [][Next]_vars

-----------------------------------------------------------------------------
(***************************************************************************)
(* Correctness                                                             *)
(***************************************************************************)
Size == [rows : Nat, cols : Nat, cell : Nat]

\* Every variable stays in its type, and there is always a row to write on
\* (setup_screen_size's clamp).
TypeOK ==
  /\ tabs \subseteq Tab
  /\ bridge \in [Tab -> Size] /\ tty \in [Tab -> Size]
  /\ grid \in [rows : Nat \ {0}, cols : Nat]
  /\ gridTopPad \in Nat
  /\ fb \in Screen
  /\ fontSize \in FontSize \cup {MinFontSize - 1} /\ face \in FontSize
  /\ menu \in MenuHeight \cup {0} /\ menuReflows \in BOOLEAN
  /\ keyboardVisible \in BOOLEAN
  /\ keyboard \in [shown : BOOLEAN, height : KeyboardHeight]
  /\ vkbEvents \in Seq([kind : {"visible", "hidden", "info"}, height : KeyboardHeight \cup {0}])
  /\ exitApplication \in BOOLEAN

\* "Every session reflows so background tabs don't desync from their child's
\* idea of the geometry" (setup_screen_size): after every handler the
\* terminal and the pty of every tab, old, new or in the background, have the
\* rows and columns that are drawn, and the terminal the loaded font's cell.
GridsAgree ==
  \A t \in tabs : bridge[t] = SizeOf(grid, face) /\ tty[t] = TtySizeOf(grid)

\* The top pad comes with the second tab and goes with it, however tabs come
\* and go and whatever recomputes the grid in between (apply_tab_strip_layout
\* returns early when it finds nothing to do).
PadFollowsTabs == tabs # {} => ((gridTopPad # 0) <=> Several(tabs))

Bottom == gridTopPad + grid.rows * TextHeight

\* No row of the grid lies below the screen, as long as the screen has room
\* for the pad and one row: pad, rows, font and screen change in different
\* handlers.
GridOnScreen == gridTopPad + TextHeight <= fb[2] => Bottom <= fb[2]

\* Rows that the keyboard hides although there is room for a row above it,
\* once the app knows of the keyboard's last move.
UnderKeyboard ==
  /\ keyboardVisible /\ vkbEvents = <<>>
  /\ ~Refused(fb[1], fb[2] - keyboard.height)
  /\ fb[2] - keyboard.height >= gridTopPad + TextHeight
  /\ Bottom > fb[2] - keyboard.height

\* Rows come to lie under the visible keyboard only when the tab strip or the
\* symbol menu lays the grid out anew; never by a rotation, another font, a
\* new configuration or the keyboard's own moves, whichever way its events
\* and its height cross.
KeyboardKeepsClear ==
  [][UnderKeyboard' => UnderKeyboard \/ gridTopPad' # gridTopPad \/ menu' # menu]_vars

=============================================================================
