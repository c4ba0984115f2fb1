------------------------------ MODULE FrameGate ------------------------------
(***************************************************************************)
(* What is repainted, and when: the dirty gate of the run loop, the partly *)
(* and fully painted frames of render_ghostty (main.c), and the freshness  *)
(* of the window's render buffers (renderer_screen.c).                     *)
(*                                                                         *)
(* The terminal is the active tab's, with rows and a cursor; those of the  *)
(* other tabs are anything when they become active.  Layers are what is    *)
(* drawn over the rows: menus, indicators, the tab strip, the URL picker.  *)
(* An image is what a render buffer holds: which rows are the terminal's   *)
(* as they are now, the cells drawn as a cursor, the layers.               *)
(*                                                                         *)
(* Handlers run while the loop is at the pump; one event takes it to the   *)
(* gate.  rescreen paints two frames before its handler returns: nothing   *)
(* runs while frames are owed.  The window system hands out either buffer, *)
(* and after a rotation buffers that may have the old addresses.           *)
(***************************************************************************)
EXTENDS Integers, FiniteSets

CONSTANTS
  Row, Col,      \* cells of the grid
  Layer,         \* what is drawn over the grid
  Buffer,        \* addresses of render buffers
  Size,          \* sizes of the window
  NoCell,        \* no cursor in the viewport
  NoBuffer,      \* nothing has been posted
  NoSize         \* no buffer is latched

Cell == Row \X Col

ASSUME FrameAssumption ==
  /\ NoCell \notin Cell /\ NoBuffer \notin Buffer /\ NoSize \notin Size
  /\ \E a, b \in Buffer : a # b

VARIABLES
  at,          \* "pump" in platform_next_event, "gate" at the loop's end
  framesOwed,  \* frames that rescreen has still to paint
  gate,        \* screen_dirty and screen_full_dirty
  cursor,      \* the cursor's cell in the active tab's viewport
  dirtyRows,   \* rows that the active tab's render state reports as changed
  layers,      \* layers that are to be drawn
  prevCursor,  \* prev_cursor_*: the cursor of the last frame
  live,        \* the window's two buffers
  known,       \* the table known[]: buffer -> "unknown", "stale", "fresh"
  image,       \* buffer -> what it holds
  posted,      \* the buffer on the screen
  window,      \* the window's size
  latched,     \* the framebuffer's size while it is valid, else NoSize
  menuSize,    \* the size that the symbol menus were drawn for
  missed       \* history: since the last full frame, failed frames and marks left out

loopVars   == <<at, framesOwed>>
tabVars    == <<cursor, dirtyRows>>
bufferVars == <<live, known, image, posted>>
windowVars == <<window, latched, menuSize>>
vars == <<loopVars, gate, tabVars, layers, prevCursor, bufferVars, windowVars, missed>>

\* A new render buffer.
Blank == [rows |-> {}, cursors |-> {}, layers |-> {}]

Image == [rows : SUBSET Row, cursors : SUBSET Cell, layers : SUBSET Layer]

\* The cursor as it is drawn: one cell or none.
Drawn(c) == {c} \ {NoCell}

RowsOf(cells) == {c[1] : c \in cells}

-----------------------------------------------------------------------------
(***************************************************************************)
(* What the handlers do to the state that is drawn                         *)
(***************************************************************************)

MarkScreenDirty(full) ==
  gate' = [dirty |-> TRUE, full |-> gate.full \/ full]

\* The given rows of the terminal change, and buffers show them as they were.
Change(rows) ==
  /\ dirtyRows' = dirtyRows \cup rows
  /\ image' = [b \in Buffer |-> [image[b] EXCEPT !.rows = @ \ rows]]

\* Another terminal takes the place of this one.
OtherTerminal ==
  /\ cursor' \in Cell \cup {NoCell}
  /\ dirtyRows' \in SUBSET Row
  /\ image' = [b \in Buffer |-> [image[b] EXCEPT !.rows = {}]]

\* An io handler keeps the loop at the pump, an event takes it to the gate;
\* gesture_tick, a deferred reload and deferred evals run there.
Quiet     == framesOwed = 0 /\ UNCHANGED framesOwed
IoHandler == at = "pump" /\ UNCHANGED at
Event     == at = "pump" /\ at' = "gate"
Tick      == at = "gate" /\ UNCHANGED at
Handler   == IoHandler \/ Event \/ Tick

\* pty_io_handler: of any tab, of which only the active one is seen.
PtyOutput ==
  /\ Quiet /\ IoHandler
  /\ \E rows \in SUBSET Row : Change(rows)
  /\ cursor' \in Cell \cup {NoCell}
  /\ MarkScreenDirty(FALSE)
  /\ UNCHANGED <<layers, prevCursor, live, known, posted, windowVars, missed>>

\* ghostty_bridge_scroll_to_bottom, when the viewport is in the history: a
\* key, and each arrow that a held finger sends; neither marks the screen.
SnapToBottom ==
  /\ Quiet /\ (Event \/ Tick)
  /\ Change(Row)
  /\ cursor' \in Cell
  /\ UNCHANGED <<gate, layers, prevCursor, live, known, posted, windowVars, missed>>

\* A finger scrolls the tab in which it began.
ScrollView ==
  /\ Quiet /\ Event
  /\ \E rows \in {{}, Row} : Change(rows)
  /\ cursor' \in Cell \cup {NoCell}
  /\ MarkScreenDirty(TRUE)
  /\ UNCHANGED <<layers, prevCursor, live, known, posted, windowVars, missed>>

\* Layers come and go (menu, modifiers, metamode, help, picker, pad, strip);
\* the menu, the keyboard and the strip also change the grid under them.
ChangeLayers ==
  /\ Quiet /\ Handler
  /\ layers' \in SUBSET Layer
  /\ \E rows \in {{}, Row} : Change(rows)
  /\ MarkScreenDirty(TRUE)
  /\ UNCHANGED <<cursor, prevCursor, live, known, posted, windowVars, missed>>

\* Faulty variant: the cells' dirty bits decide.
SwitchTabUnforced ==
  /\ Quiet /\ Handler
  /\ OtherTerminal
  /\ layers' \in SUBSET Layer
  /\ MarkScreenDirty(FALSE)
  /\ UNCHANGED <<prevCursor, live, known, posted, windowVars, missed>>

\* Another tab becomes active: it is selected or new, or the active one closes.
SwitchTab ==
  /\ Quiet /\ Handler
  /\ OtherTerminal
  /\ layers' \in SUBSET Layer
  /\ MarkScreenDirty(TRUE)
  /\ UNCHANGED <<prevCursor, live, known, posted, windowVars, missed>>

\* TAB_NEW whose pty_init fails: app_session_close_index takes the new tab
\* away and leaves the last one active, which was active before or was not.
TabNewFails ==
  /\ Quiet /\ Handler
  /\ \/ UNCHANGED <<cursor, dirtyRows, image, missed>>
     \/ OtherTerminal /\ missed' = missed \cup {"mark"}
  /\ UNCHANGED <<gate, layers, prevCursor, live, known, posted, windowVars>>

\* A layer goes and nothing is marked: metamode_lookup disarms the symbol lock
\* for a sticky entry; url_pick_enter finds no URL when the picker was up.
DropLayer ==
  /\ Quiet /\ Handler
  /\ \E l \in layers : layers' = layers \ {l}
  /\ missed' = missed \cup {"mark"}
  /\ UNCHANGED <<gate, tabVars, prevCursor, bufferVars, windowVars>>

\* platform_next_event returns without an event.
NoEvent ==
  /\ Quiet /\ Event
  /\ UNCHANGED <<gate, tabVars, layers, prevCursor, bufferVars, windowVars, missed>>

-----------------------------------------------------------------------------
(***************************************************************************)
(* latch_framebuffer                                                       *)
(***************************************************************************)

\* The table, when buffer b of buffers bs is the next to render to: it
\* forgets everything when one of its buffers is gone.
Latch(table, bs, b) ==
  LET kept == IF \E x \in Buffer \ bs : table[x] # "unknown"
                THEN [x \in Buffer |-> "unknown"] ELSE table
  IN [kept EXCEPT ![b] = IF @ = "unknown" THEN "stale" ELSE @]

-----------------------------------------------------------------------------
(***************************************************************************)
(* rescreen: a reload, another font size, a rotation.  Everything is laid  *)
(* out anew, and two frames follow before the handler returns.             *)
(***************************************************************************)

\* renderer_init_symmenus asks for the framebuffer's size, which latches one
\* of the buffers bs unless one is latched already.
InitSymmenus(bs) ==
  /\ IF latched # NoSize
       THEN UNCHANGED <<latched, known>>
       ELSE /\ latched' = window'
            /\ \E b \in bs : known' = Latch(known, bs, b)
  /\ menuSize' = latched'

Rescreen(bs) ==
  /\ framesOwed = 0 /\ framesOwed' = 2
  /\ layers' \in SUBSET Layer
  /\ MarkScreenDirty(TRUE)
  /\ InitSymmenus(bs)
  /\ UNCHANGED <<cursor, prevCursor, missed>>

Reconfigure ==
  /\ Handler
  /\ UNCHANGED <<live, posted, window>>
  /\ Rescreen(live)
  /\ Change(Row)

\* screen_plat_apply_pending_resize destroys the buffers and creates two, at
\* any address: nothing is known of what they hold.
Rotate ==
  /\ Event
  /\ window' \in Size
  /\ \E a, b \in Buffer : a # b /\ live' = {a, b}
  /\ image' = [b \in Buffer |-> Blank]
  /\ dirtyRows' = Row
  /\ posted' = NoBuffer
  /\ Rescreen(live')

-----------------------------------------------------------------------------
(***************************************************************************)
(* render_ghostty, on buffer b.  The forced, the stale and the unknown     *)
(* buffer are painted in full; else the dirty rows are, and the rows of    *)
(* the cursor as it was and as it is.                                      *)
(***************************************************************************)

\* Faulty variant: the cursor is drawn where it is, and not erased.
CursorRowNow ==
  IF cursor = prevCursor THEN {} ELSE RowsOf(Drawn(cursor))

CursorRows ==
  LET now == cursor
  IN IF now = prevCursor THEN {} ELSE RowsOf(Drawn(prevCursor) \cup Drawn(now))

\* The rows of a frame: visit_cells and visit_row.
Visited(full) == IF full THEN Row ELSE dirtyRows \cup CursorRows

\* Image i after the given rows were painted, all layers over them.
Painted(i, full, rows) ==
  LET now == Drawn(cursor)
  IN [rows    |-> i.rows \cup rows,
      cursors |-> {c \in i.cursors : c[1] \notin rows} \cup {c \in now : c[1] \in rows},
      layers  |-> IF full THEN layers ELSE i.layers \cup layers]

FreshOnly(b, table) ==
  [x \in Buffer |-> IF x = b THEN "fresh"
                    ELSE IF table[x] = "unknown" THEN "unknown" ELSE "stale"]

\* end_frame posts the buffer if anything was drawn; after a full frame it is
\* the only fresh one.
EndFrame(b, full, drawn, table) ==
  /\ posted' = IF drawn THEN b ELSE posted
  /\ known' = IF full THEN FreshOnly(b, table) ELSE table
  /\ latched' = NoSize

\* What a buffer holds that is neither posted nor fresh is forgotten: it will
\* be painted in full.
Paint(b, new) ==
  image' = [x \in Buffer |-> IF x = b THEN new
                           ELSE IF known'[x] = "fresh" THEN image[x] ELSE Blank]

Frame(force, b) ==
  LET table == Latch(known, live, b)
      full  == force \/ table[b] # "fresh"
      rows  == Visited(full)
  IN /\ EndFrame(b, full, full \/ rows # {} \/ layers # {}, table)
     /\ Paint(b, Painted(image[b], full, rows))
     /\ dirtyRows' = {}
     /\ prevCursor' = cursor
     /\ missed' = IF full THEN {} ELSE missed

\* ghostty_bridge_begin_frame fails: nothing happens.
NoRenderState ==
  /\ missed' = missed \cup {"frame"}
  /\ UNCHANGED <<dirtyRows, latched, known, image, posted, prevCursor>>

\* The buffer cannot be read: all rows are visited, none is drawn, and a row
\* with text on it makes the frame fail.
LatchFails ==
  /\ dirtyRows' = {}
  /\ prevCursor' \in {prevCursor, cursor}
  /\ latched' = NoSize
  /\ missed' = missed \cup {"frame"}
  /\ UNCHANGED <<known, image, posted>>

\* A cell fails, or the iteration over the rows ends early: the frame is
\* posted as it is, without layers, and its buffer counts as painted.
CellsFail(force, b) ==
  LET table == Latch(known, live, b)
      full  == force \/ table[b] # "fresh"
      start == IF full THEN Blank ELSE image[b]
  IN \E visited \in SUBSET Visited(full) : \E broken \in SUBSET visited :
       /\ EndFrame(b, full, full \/ visited # {}, table)
       /\ Paint(b, [Painted(start, full, visited)
                      EXCEPT !.rows = @ \ broken, !.layers = start.layers])
       /\ dirtyRows' = dirtyRows \ visited
       /\ missed' = missed \cup {"frame"}
       /\ UNCHANGED prevCursor

RenderGhostty(force, b) ==
  Frame(force, b) \/ NoRenderState \/ LatchFails \/ CellsFail(force, b)

ForcedFrame(b) ==
  /\ framesOwed > 0 /\ framesOwed' = framesOwed - 1
  /\ RenderGhostty(TRUE, b)
  /\ UNCHANGED <<at, gate, cursor, layers, live, window, menuSize>>

\* Faulty variant: screen_full_dirty is not cleared.
GateFrameKeepingFull(b) ==
  /\ at = "gate" /\ framesOwed = 0 /\ gate.dirty
  /\ at' = "pump"
  /\ gate' = [gate EXCEPT !.dirty = FALSE]
  /\ RenderGhostty(gate.full, b)
  /\ UNCHANGED <<framesOwed, cursor, layers, live, window, menuSize>>

\* The end of the loop: a frame if the screen is dirty.
GateFrame(b) ==
  /\ at = "gate" /\ framesOwed = 0 /\ gate.dirty
  /\ at' = "pump"
  /\ gate' = [dirty |-> FALSE, full |-> FALSE]
  /\ RenderGhostty(gate.full, b)
  /\ UNCHANGED <<framesOwed, cursor, layers, live, window, menuSize>>

GateShut ==
  /\ at = "gate" /\ framesOwed = 0 /\ ~gate.dirty
  /\ at' = "pump"
  /\ UNCHANGED <<framesOwed, gate, tabVars, layers, prevCursor, bufferVars, windowVars, missed>>

-----------------------------------------------------------------------------
(***************************************************************************)
(* The loop, from the end of its first round.  startup_init has asked for  *)
(* the framebuffer's size, so a buffer is latched.                         *)
(***************************************************************************)

Init ==
  /\ at = "gate" /\ framesOwed = 0
  /\ gate = [dirty |-> TRUE, full |-> TRUE]
  /\ cursor \in Cell
  /\ dirtyRows = Row
  /\ layers \in SUBSET Layer
  /\ prevCursor = NoCell
  /\ \E a, b \in Buffer : a # b /\ live = {a, b}
  /\ \E b \in live : known = Latch([x \in Buffer |-> "unknown"], live, b)
  /\ image = [b \in Buffer |-> Blank]
  /\ posted = NoBuffer
  /\ window \in Size
  /\ latched = window
  /\ menuSize = window
  /\ missed = {}

Next ==
  \/ PtyOutput
  \/ SnapToBottom
  \/ ScrollView
  \/ ChangeLayers
  \/ SwitchTab
  \/ TabNewFails
  \/ DropLayer
  \/ NoEvent
  \/ Reconfigure
  \/ Rotate
  \/ \E b \in live : ForcedFrame(b) \/ GateFrame(b)
  \/ GateShut

Spec == Init /\ [][Next]_vars

-----------------------------------------------------------------------------
(***************************************************************************)
(* Properties                                                              *)
(***************************************************************************)

\* Types; a full repaint is never asked for without a repaint.
TypeOK ==
  /\ at \in {"pump", "gate"} /\ framesOwed \in 0 .. 2
  /\ gate \in [dirty : BOOLEAN, full : BOOLEAN] /\ (gate.full => gate.dirty)
  /\ cursor \in Cell \cup {NoCell} /\ prevCursor \in Cell \cup {NoCell}
  /\ dirtyRows \in SUBSET Row
  /\ layers \in SUBSET Layer
  /\ live \in SUBSET Buffer /\ posted \in Buffer \cup {NoBuffer}
  /\ known \in [Buffer -> {"unknown", "stale", "fresh"}]
  /\ image \in [Buffer -> Image]
  /\ window \in Size /\ menuSize \in Size
  /\ latched \in Size \cup {NoSize}
  /\ missed \subseteq {"frame", "mark"}

Shows(b) ==
  /\ image[b].rows = Row
  /\ image[b].cursors = Drawn(cursor)
  /\ image[b].layers = layers

\* Buffer b lacks only what a partial frame paints.
LacksOnlyDirty(b) ==
  /\ Row \ dirtyRows \subseteq image[b].rows
  /\ image[b].cursors = Drawn(prevCursor)
  /\ image[b].layers = layers

\* A buffer that the table known[] calls fresh is one of the window's, is on
\* the screen, and lacks nothing that a partial frame would leave out
\* (renderer_screen.c, "freshness"), unless something was missed.
FreshIsWhole ==
  (framesOwed = 0 /\ ~gate.full /\ missed = {}) =>
    \A b \in Buffer : known[b] = "fresh" => b \in live /\ posted = b /\ LacksOnlyDirty(b)

\* While the loop waits and nothing is marked dirty, the screen shows the
\* active tab and its layers, but for rows that the next frame will paint (a
\* snap to the bottom marks nothing), unless something was missed.
GateIsHonest ==
  (framesOwed = 0 /\ ~gate.dirty /\ missed = {})
    => posted \in live /\ LacksOnlyDirty(posted)

\* A rotation leaves symbol menus drawn for the window as it is now
\* (renderer_init_symmenus in rescreen, after the buffers of the old size are
\* gone), unless a frame has failed and left the old framebuffer latched.
MenusFitScreen ==
  [][(Rotate /\ missed = {}) => menuSize' = window']_vars

\* Every frame leaves on the screen all that is to be seen, however little of
\* it was painted and whichever buffer it went to, unless something was missed
\* since the last full frame.
FrameIsWhole ==
  [][(\E b \in live : ForcedFrame(b) \/ GateFrame(b))
       => (missed # {} \/ (posted \in live /\ Shows(posted)))']_vars

=============================================================================
