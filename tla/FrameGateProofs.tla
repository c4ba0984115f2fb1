--------------------------- MODULE FrameGateProofs ---------------------------
(***************************************************************************)
(* What holds of the gate and the frames for any grid, any layers and any  *)
(* number of addresses at which the window system puts its two buffers.    *)
(*                                                                         *)
(* FrameInv is inductive.  FreshIsWhole is what makes a partial frame      *)
(* enough; it says nothing while rescreen owes frames, so FullWhileOwed    *)
(* says that the next frame after those is a full one.  LatchedBriefly is  *)
(* there for the menus: no buffer is latched when an event comes in.       *)
(***************************************************************************)
EXTENDS FrameGate, TLAPS

Mark == {"unknown", "stale", "fresh"}

FullWhileOwed == framesOwed > 0 => gate.full

LatchedBriefly ==
  (missed = {} /\ latched # NoSize) => framesOwed = 2 \/ (at = "gate" /\ gate.dirty)

FrameInv == TypeOK /\ FreshIsWhole /\ GateIsHonest /\ FullWhileOwed /\ LatchedBriefly

-----------------------------------------------------------------------------
(* What the helpers return                                                 *)

LEMMA LatchTyped ==
  ASSUME NEW table \in [Buffer -> Mark], NEW bs, NEW b \in Buffer
  PROVE  /\ Latch(table, bs, b) \in [Buffer -> Mark]
         /\ \A x \in Buffer : Latch(table, bs, b)[x] = "fresh" => table[x] = "fresh"
BY DEF Latch, Mark

LEMMA FreshOnlyTyped ==
  ASSUME NEW table \in [Buffer -> Mark], NEW b \in Buffer
  PROVE  /\ FreshOnly(b, table) \in [Buffer -> Mark]
         /\ \A x \in Buffer : FreshOnly(b, table)[x] = "fresh" => x = b
BY DEF FreshOnly, Mark

LEMMA DrawnTyped ==
  ASSUME NEW c \in Cell \cup {NoCell}
  PROVE  Drawn(c) \subseteq Cell
BY DEF Drawn

LEMMA BlankTyped == Blank \in Image
BY DEF Blank, Image

LEMMA PaintedTyped ==
  ASSUME TypeOK, NEW i \in Image, NEW full \in BOOLEAN, NEW rows \in SUBSET Row
  PROVE  Painted(i, full, rows) \in Image
<1>1. Drawn(cursor) \subseteq Cell
  BY DrawnTyped DEF TypeOK
<1> QED BY <1>1 DEF TypeOK, Painted, Image

LEMMA VisitedTyped ==
  ASSUME TypeOK, NEW full \in BOOLEAN
  PROVE  Visited(full) \subseteq Row
<1>1. Drawn(cursor) \subseteq Cell /\ Drawn(prevCursor) \subseteq Cell
  BY DrawnTyped DEF TypeOK
<1>2. \A c \in Cell : c[1] \in Row
  BY DEF Cell
<1>3. CursorRows \subseteq Row
  BY <1>1, <1>2 DEF CursorRows, RowsOf
<1> QED BY <1>3 DEF Visited, TypeOK

\* A painted row shows the cursor as it is, the others as they did: after a
\* full frame, and after one that painted the rows of the old and the new
\* cursor, the image has the cursor where it is and nowhere else.
LEMMA CursorMoves ==
  ASSUME TypeOK, NEW i \in Image, NEW full \in BOOLEAN,
         full \/ i.cursors = Drawn(prevCursor)
  PROVE  Painted(i, full, Visited(full)).cursors = Drawn(cursor)
<1>1. Drawn(cursor) \subseteq Cell /\ Drawn(prevCursor) \subseteq Cell /\ i.cursors \subseteq Cell
  BY DrawnTyped DEF TypeOK, Image
<1>2. \A c \in Cell : c[1] \in Row
  BY DEF Cell
<1>3. Painted(i, full, Visited(full)).cursors
        = {c \in i.cursors : c[1] \notin Visited(full)}
            \cup {c \in Drawn(cursor) : c[1] \in Visited(full)}
  BY DEF Painted
<1>4. CASE full
  <2>1. Visited(full) = Row
    BY <1>4 DEF Visited
  <2> QED BY <1>1, <1>2, <1>3, <2>1
<1>5. CASE ~full /\ cursor = prevCursor
  BY <1>3, <1>5
<1>6. CASE ~full /\ cursor # prevCursor
  <2>1. RowsOf(Drawn(prevCursor) \cup Drawn(cursor)) \subseteq Visited(full)
    BY <1>6 DEF Visited, CursorRows
  <2>2. \A c \in Drawn(prevCursor) \cup Drawn(cursor) : c[1] \in Visited(full)
    BY <2>1 DEF RowsOf
  <2> QED BY <1>3, <1>6, <2>2
<1> QED BY <1>4, <1>5, <1>6

-----------------------------------------------------------------------------
(* One frame                                                               *)

\* What rescreen, or the gate, has kept when a frame is painted.
Ready(force) == force \/ (framesOwed = 0 /\ ~gate.full)

StaysPut == UNCHANGED <<cursor, layers, live>>

\* Types after a frame, whether it fails or not.
LEMMA FrameTyped ==
  ASSUME TypeOK, NEW force \in BOOLEAN, NEW b \in live, RenderGhostty(force, b)
  PROVE  /\ dirtyRows' \in SUBSET Row /\ prevCursor' \in Cell \cup {NoCell}
         /\ posted' \in Buffer \cup {NoBuffer}
         /\ known' \in [Buffer -> Mark] /\ image' \in [Buffer -> Image]
         /\ latched' \in Size \cup {NoSize} /\ missed' \subseteq {"frame", "mark"}
<1> DEFINE table == Latch(known, live, b)
           full  == force \/ table[b] # "fresh"
<1>1. b \in Buffer /\ known \in [Buffer -> Mark] /\ image \in [Buffer -> Image]
  BY DEF TypeOK, Mark
<1>2. table \in [Buffer -> Mark] /\ full \in BOOLEAN
  BY <1>1, LatchTyped
<1>3. FreshOnly(b, table) \in [Buffer -> Mark]
  BY <1>1, <1>2, FreshOnlyTyped
<1>4. Visited(full) \subseteq Row
  BY <1>2, VisitedTyped
<1>5. \A drawn : EndFrame(b, full, drawn, table) =>
        /\ posted' \in Buffer \cup {NoBuffer} /\ known' \in [Buffer -> Mark]
        /\ latched' \in Size \cup {NoSize}
  BY <1>1, <1>2, <1>3 DEF EndFrame, TypeOK
<1>6. \A new \in Image : Paint(b, new) => image' \in [Buffer -> Image]
  BY <1>1, BlankTyped DEF Paint
<1>7. CASE Frame(force, b)
  <2>1. Painted(image[b], full, Visited(full)) \in Image
    BY <1>1, <1>2, <1>4, PaintedTyped
  <2>2. Paint(b, Painted(image[b], full, Visited(full)))
    BY <1>7 DEF Frame
  <2>3. EndFrame(b, full, full \/ Visited(full) # {} \/ layers # {}, table)
    BY <1>7 DEF Frame
  <2>4. dirtyRows' = {} /\ prevCursor' = cursor /\ missed' \in {{}, missed}
    BY <1>7 DEF Frame
  <2> QED BY <1>5, <1>6, <2>1, <2>2, <2>3, <2>4 DEF TypeOK
<1>8. CASE NoRenderState
  BY <1>1, <1>8 DEF NoRenderState, TypeOK
<1>9. CASE LatchFails
  BY <1>1, <1>9 DEF LatchFails, TypeOK
<1>10. CASE CellsFail(force, b)
  <2> DEFINE start == IF full THEN Blank ELSE image[b]
  <2>1. PICK visited \in SUBSET Visited(full) : \E broken \in SUBSET visited :
          /\ EndFrame(b, full, full \/ visited # {}, table)
          /\ Paint(b, [Painted(start, full, visited)
                         EXCEPT !.rows = @ \ broken, !.layers = start.layers])
          /\ dirtyRows' = dirtyRows \ visited
          /\ missed' = missed \cup {"frame"}
          /\ UNCHANGED prevCursor
    BY <1>10 DEF CellsFail
  <2>2. start \in Image
    BY <1>1, BlankTyped
  <2>3. visited \in SUBSET Row
    BY <1>4, <2>1
  <2>4. Painted(start, full, visited) \in Image
    BY <1>2, <2>2, <2>3, PaintedTyped
  <2>5. \A broken : [Painted(start, full, visited)
                       EXCEPT !.rows = @ \ broken, !.layers = start.layers] \in Image
    BY <2>2, <2>4 DEF Image
  <2> QED BY <1>5, <1>6, <2>1, <2>5 DEF TypeOK
<1> QED BY <1>7, <1>8, <1>9, <1>10 DEF RenderGhostty

\* A frame that leaves nothing missed has put everything on the screen, and
\* only its own buffer counts as fresh.
LEMMA FrameShows ==
  ASSUME TypeOK, FreshIsWhole, NEW force \in BOOLEAN, NEW b \in live,
         RenderGhostty(force, b), Ready(force), StaysPut, missed' = {}
  PROVE  /\ posted' = b /\ Shows(b)' /\ LacksOnlyDirty(b)'
         /\ \A x \in Buffer : known'[x] = "fresh" => x = b
         /\ latched' = NoSize
<1> DEFINE table == Latch(known, live, b)
           full  == force \/ table[b] # "fresh"
<1>1. b \in Buffer /\ known \in [Buffer -> Mark] /\ image[b] \in Image
  BY DEF TypeOK, Mark
<1>2. /\ table \in [Buffer -> Mark] /\ full \in BOOLEAN
      /\ \A x \in Buffer : table[x] = "fresh" => known[x] = "fresh"
  BY <1>1, LatchTyped
<1>3. Frame(force, b)
  BY DEF RenderGhostty, NoRenderState, LatchFails, CellsFail
<1>4. /\ EndFrame(b, full, full \/ Visited(full) # {} \/ layers # {}, table)
      /\ Paint(b, Painted(image[b], full, Visited(full)))
      /\ dirtyRows' = {} /\ prevCursor' = cursor
      /\ missed' = IF full THEN {} ELSE missed
  BY <1>3 DEF Frame
<1>5. CASE full
  <2>1. posted' = b /\ latched' = NoSize /\ known' = FreshOnly(b, table)
    BY <1>4, <1>5 DEF EndFrame
  <2>2. \A x \in Buffer : known'[x] = "fresh" => x = b
    BY <1>1, <1>2, <2>1, FreshOnlyTyped
  <2>3. image'[b] = Painted(image[b], full, Row)
    BY <1>1, <1>4, <1>5 DEF Paint, Visited
  <2>4. image'[b].rows = Row /\ image'[b].layers = layers
    BY <1>1, <1>5, <2>3 DEF Painted, Image
  <2>5. image'[b].cursors = Drawn(cursor)
    BY <1>1, <1>2, <1>4, <1>5, CursorMoves DEF Paint
  <2> QED BY <1>4, <2>1, <2>2, <2>4, <2>5 DEF Shows, LacksOnlyDirty, StaysPut
<1>6. CASE ~full
  <2>1. missed = {} /\ ~force /\ known[b] = "fresh"
    BY <1>1, <1>2, <1>4, <1>6
  <2>2. \A x \in Buffer : known[x] = "fresh" => posted = x /\ LacksOnlyDirty(x)
    BY <2>1 DEF FreshIsWhole, Ready
  <2>3. posted' = b /\ latched' = NoSize /\ known' = table
    BY <1>1, <1>4, <1>6, <2>1, <2>2 DEF EndFrame
  <2>4. \A x \in Buffer : known'[x] = "fresh" => x = b
    BY <1>1, <1>2, <2>1, <2>2, <2>3
  <2>5. image'[b] = Painted(image[b], full, Visited(full))
    BY <1>1, <1>4 DEF Paint, TypeOK
  <2>6. /\ Row \ dirtyRows \subseteq image[b].rows
        /\ image[b].cursors = Drawn(prevCursor) /\ image[b].layers = layers
    BY <1>1, <2>1, <2>2 DEF LacksOnlyDirty
  <2>7. image'[b].rows = image[b].rows \cup Visited(full) /\ image'[b].layers = layers
    BY <1>6, <2>5, <2>6 DEF Painted
  <2>8. dirtyRows \subseteq Visited(full) /\ Visited(full) \subseteq Row
    BY <1>2, <1>6, VisitedTyped DEF Visited
  <2>9. image'[b].rows = Row
    BY <1>1, <2>6, <2>7, <2>8 DEF Image
  <2>10. image'[b].cursors = Drawn(cursor)
    BY <1>1, <1>2, <2>5, <2>6, CursorMoves
  <2> QED BY <1>4, <2>3, <2>4, <2>7, <2>9, <2>10 DEF Shows, LacksOnlyDirty, StaysPut
<1> QED BY <1>5, <1>6

-----------------------------------------------------------------------------
(* The handlers                                                            *)

LEMMA InitEstablishes == Init => FrameInv
<1> SUFFICES ASSUME Init PROVE FrameInv
  OBVIOUS
<1>1. live \subseteq Buffer /\ Cell = Row \X Col
  BY DEF Init, Cell
<1>2. [x \in Buffer |-> "unknown"] \in [Buffer -> Mark]
  BY DEF Mark
<1>3. known \in [Buffer -> Mark]
  BY <1>1, <1>2, LatchTyped DEF Init
<1>4. TypeOK
  BY <1>1, <1>3, BlankTyped DEF Init, TypeOK, Mark
<1> QED BY <1>4 DEF Init, FrameInv, FreshIsWhole, GateIsHonest, FullWhileOwed, LatchedBriefly

\* Rows that change are dirty, and no buffer is taken to show them.
LEMMA ChangeKeeps ==
  ASSUME TypeOK, NEW rows \in SUBSET Row, Change(rows)
  PROVE  /\ dirtyRows' \in SUBSET Row /\ image' \in [Buffer -> Image]
         /\ \A b \in Buffer : LacksOnlyDirty(b) /\ UNCHANGED <<prevCursor, layers>>
                                 => LacksOnlyDirty(b)'
<1>1. image \in [Buffer -> Image] /\ dirtyRows \in SUBSET Row
  BY DEF TypeOK
<1>2. dirtyRows' = dirtyRows \cup rows
  BY DEF Change
<1>3. \A b \in Buffer : /\ image'[b] \in Image
                        /\ image'[b].rows = image[b].rows \ rows
                        /\ image'[b].cursors = image[b].cursors
                        /\ image'[b].layers = image[b].layers
  BY <1>1 DEF Change, Image
<1>4. image' \in [Buffer -> Image]
  BY <1>1, <1>3 DEF Change
<1> QED BY <1>1, <1>2, <1>3, <1>4 DEF LacksOnlyDirty

LEMMA OtherTerminalTyped ==
  ASSUME TypeOK, OtherTerminal
  PROVE  /\ dirtyRows' \in SUBSET Row /\ image' \in [Buffer -> Image]
         /\ cursor' \in Cell \cup {NoCell}
BY DEF OtherTerminal, TypeOK, Image

\* The handlers that leave buffers, window and owed frames alone: those that
\* mark the whole screen, those that leave what was painted painted, and one
\* that fails.
LEMMA HandlerKeeps ==
  ASSUME FrameInv, Quiet, Handler, UNCHANGED <<live, known, posted, windowVars>>,
         dirtyRows' \in SUBSET Row, image' \in [Buffer -> Image],
         cursor' \in Cell \cup {NoCell}, layers' \in SUBSET Layer, UNCHANGED prevCursor,
         missed' \subseteq {"frame", "mark"}, missed \subseteq missed',
         gate' \in [dirty : BOOLEAN, full : BOOLEAN], gate'.full => gate'.dirty,
         gate.dirty => gate'.dirty, gate.full => gate'.full,
         \/ gate'.full
         \/ missed' # {}
         \/ \A b \in Buffer : LacksOnlyDirty(b) => LacksOnlyDirty(b)'
  PROVE  FrameInv'
<1>1. TypeOK'
  BY DEF FrameInv, TypeOK, Quiet, Handler, IoHandler, Event, Tick, windowVars
<1>2. framesOwed' = 0 /\ framesOwed = 0 /\ latched' = latched
  BY DEF Quiet, windowVars
<1>3. gate \in [dirty : BOOLEAN, full : BOOLEAN] /\ NoBuffer \notin Buffer /\ live \subseteq Buffer
  BY FrameAssumption DEF FrameInv, TypeOK
<1>4. FreshIsWhole'
  BY <1>2, <1>3 DEF FrameInv, FreshIsWhole
<1>5. GateIsHonest'
  BY <1>2, <1>3 DEF FrameInv, GateIsHonest
<1>6. FullWhileOwed'
  BY <1>2 DEF FullWhileOwed
<1>7. LatchedBriefly'
  <2> SUFFICES ASSUME missed' = {}, latched' # NoSize
               PROVE  at' = "gate" /\ gate'.dirty
    BY DEF LatchedBriefly
  <2>1. at = "gate" /\ gate.dirty
    BY <1>2 DEF FrameInv, LatchedBriefly
  <2> QED BY <2>1 DEF Handler, IoHandler, Event, Tick
<1> QED BY <1>1, <1>4, <1>5, <1>6, <1>7 DEF FrameInv

\* MarkScreenDirty, as HandlerKeeps wants it.
LEMMA MarkKeeps ==
  ASSUME TypeOK, NEW full \in BOOLEAN, MarkScreenDirty(full)
  PROVE  /\ gate' \in [dirty : BOOLEAN, full : BOOLEAN]
         /\ gate'.dirty /\ (full => gate'.full) /\ (gate.full => gate'.full)
BY DEF TypeOK, MarkScreenDirty

\* rescreen marks everything and owes two full frames.
LEMMA RescreenKeeps ==
  ASSUME FrameInv, NEW bs \in SUBSET Buffer, Rescreen(bs), Handler,
         live' \in SUBSET Buffer, posted' \in Buffer \cup {NoBuffer}, window' \in Size,
         dirtyRows' \in SUBSET Row, image' \in [Buffer -> Image]
  PROVE  FrameInv'
<1>1. /\ gate' \in [dirty : BOOLEAN, full : BOOLEAN]
      /\ gate'.dirty /\ gate'.full
  BY MarkKeeps DEF FrameInv, Rescreen
<1>2. /\ known' \in [Buffer -> Mark] /\ latched' \in Size \cup {NoSize} /\ menuSize' \in Size
  <2>1. known \in [Buffer -> Mark] /\ latched \in Size \cup {NoSize}
    BY DEF FrameInv, TypeOK, Mark
  <2> QED BY <2>1, LatchTyped DEF Rescreen, InitSymmenus
<1>3. TypeOK'
  BY <1>1, <1>2 DEF FrameInv, TypeOK, Rescreen, Handler, IoHandler, Event, Tick, Mark
<1>4. framesOwed' = 2
  BY DEF Rescreen
<1> QED BY <1>1, <1>3, <1>4
       DEF FrameInv, FreshIsWhole, GateIsHonest, FullWhileOwed, LatchedBriefly

\* One of the frames that rescreen owes.
LEMMA ForcedFrameKeeps ==
  ASSUME FrameInv, NEW b \in live, ForcedFrame(b)
  PROVE  FrameInv'
<1>1. TypeOK /\ FreshIsWhole /\ gate.full /\ gate.dirty
  BY DEF FrameInv, FullWhileOwed, ForcedFrame, TypeOK
<1>2. RenderGhostty(TRUE, b)
  BY DEF ForcedFrame
<1>3. TypeOK'
  <2>1. framesOwed' \in 0 .. 2
    BY <1>1 DEF ForcedFrame, TypeOK
  <2>2. UNCHANGED <<at, gate, cursor, layers, live, window, menuSize>>
    BY DEF ForcedFrame
  <2>3. /\ dirtyRows' \in SUBSET Row /\ prevCursor' \in Cell \cup {NoCell}
        /\ posted' \in Buffer \cup {NoBuffer}
        /\ known' \in [Buffer -> Mark] /\ image' \in [Buffer -> Image]
        /\ latched' \in Size \cup {NoSize} /\ missed' \subseteq {"frame", "mark"}
    BY <1>1, <1>2, FrameTyped
  <2> QED BY <1>1, <2>1, <2>2, <2>3 DEF TypeOK, Mark
<1>4. missed' = {} => latched' = NoSize
  BY <1>1, <1>2, FrameShows DEF ForcedFrame, Ready, StaysPut
<1>5. gate' = gate
  BY DEF ForcedFrame
<1> QED BY <1>1, <1>3, <1>4, <1>5
       DEF FrameInv, FreshIsWhole, GateIsHonest, FullWhileOwed, LatchedBriefly

\* The frame at the end of the loop.
LEMMA GateFrameKeeps ==
  ASSUME FrameInv, NEW b \in live, GateFrame(b)
  PROVE  FrameInv'
<1>1. TypeOK /\ FreshIsWhole /\ framesOwed = 0 /\ framesOwed' = 0 /\ b \in Buffer
  BY DEF FrameInv, TypeOK, GateFrame
<1>2. gate.full \in BOOLEAN /\ RenderGhostty(gate.full, b)
  BY DEF FrameInv, TypeOK, GateFrame
<1>3. TypeOK'
  BY <1>1, <1>2, FrameTyped DEF TypeOK, GateFrame, Mark
<1>4. ASSUME missed' = {}
      PROVE  /\ posted' = b /\ LacksOnlyDirty(b)' /\ latched' = NoSize
             /\ \A x \in Buffer : known'[x] = "fresh" => x = b
  BY <1>1, <1>2, <1>4, FrameShows DEF GateFrame, Ready, StaysPut
<1>5. FreshIsWhole' /\ GateIsHonest'
  BY <1>1, <1>4 DEF FreshIsWhole, GateIsHonest, GateFrame
<1> QED BY <1>1, <1>3, <1>4, <1>5 DEF FrameInv, FullWhileOwed, LatchedBriefly

\* Every step keeps the invariant.
LEMMA StepKeeps == FrameInv /\ [Next]_vars => FrameInv'
<1> SUFFICES ASSUME FrameInv, [Next]_vars PROVE FrameInv'
  OBVIOUS
<1> USE DEF FrameInv
<1>0. /\ TypeOK /\ gate \in [dirty : BOOLEAN, full : BOOLEAN]
      /\ layers \in SUBSET Layer /\ cursor \in Cell \cup {NoCell}
      /\ dirtyRows \in SUBSET Row /\ image \in [Buffer -> Image]
      /\ missed \subseteq {"frame", "mark"} /\ (gate.full => gate.dirty)
  BY DEF TypeOK
<1>1. CASE PtyOutput
  <2>1. PICK rows \in SUBSET Row : Change(rows)
    BY <1>1 DEF PtyOutput
  <2>2. Quiet /\ Handler /\ MarkScreenDirty(FALSE) /\ cursor' \in Cell \cup {NoCell}
        /\ UNCHANGED <<layers, prevCursor, live, known, posted, windowVars, missed>>
    BY <1>1 DEF PtyOutput, Handler
  <2>3. /\ dirtyRows' \in SUBSET Row /\ image' \in [Buffer -> Image]
        /\ \A b \in Buffer : LacksOnlyDirty(b) => LacksOnlyDirty(b)'
    BY <1>0, <2>1, <2>2, ChangeKeeps
  <2>4. gate' \in [dirty : BOOLEAN, full : BOOLEAN] /\ gate'.dirty /\ (gate.full => gate'.full)
    BY <1>0, <2>2, MarkKeeps
  <2> QED BY <1>0, <2>2, <2>3, <2>4, HandlerKeeps
<1>2. CASE SnapToBottom
  <2>1. Quiet /\ Handler /\ Change(Row) /\ cursor' \in Cell
        /\ UNCHANGED <<gate, layers, prevCursor, live, known, posted, windowVars, missed>>
    BY <1>2 DEF SnapToBottom, Handler
  <2>2. /\ dirtyRows' \in SUBSET Row /\ image' \in [Buffer -> Image]
        /\ \A b \in Buffer : LacksOnlyDirty(b) => LacksOnlyDirty(b)'
    BY <1>0, <2>1, ChangeKeeps
  <2> QED BY <1>0, <2>1, <2>2, HandlerKeeps
<1>3. CASE ScrollView \/ ChangeLayers
  <2>1. PICK rows \in SUBSET Row : Change(rows)
    BY <1>3 DEF ScrollView, ChangeLayers
  <2>2. Quiet /\ Handler /\ MarkScreenDirty(TRUE) /\ cursor' \in Cell \cup {NoCell}
        /\ layers' \in SUBSET Layer
        /\ UNCHANGED <<prevCursor, live, known, posted, windowVars, missed>>
    BY <1>0, <1>3 DEF ScrollView, ChangeLayers, Handler
  <2>3. dirtyRows' \in SUBSET Row /\ image' \in [Buffer -> Image]
    BY <1>0, <2>1, ChangeKeeps
  <2>4. gate' \in [dirty : BOOLEAN, full : BOOLEAN] /\ gate'.dirty /\ gate'.full
    BY <1>0, <2>2, MarkKeeps
  <2> QED BY <1>0, <2>2, <2>3, <2>4, HandlerKeeps
<1>4. CASE SwitchTab
  <2>1. Quiet /\ Handler /\ OtherTerminal /\ MarkScreenDirty(TRUE) /\ layers' \in SUBSET Layer
        /\ UNCHANGED <<prevCursor, live, known, posted, windowVars, missed>>
    BY <1>4 DEF SwitchTab
  <2>2. gate' \in [dirty : BOOLEAN, full : BOOLEAN] /\ gate'.dirty /\ gate'.full
    BY <1>0, <2>1, MarkKeeps
  <2> QED BY <1>0, <2>1, <2>2, OtherTerminalTyped, HandlerKeeps
<1>5. CASE TabNewFails
  <2>1. Quiet /\ Handler
        /\ UNCHANGED <<gate, layers, prevCursor, live, known, posted, windowVars>>
    BY <1>5 DEF TabNewFails
  <2>2. CASE UNCHANGED <<cursor, dirtyRows, image, missed>>
    <3>1. \A b \in Buffer : LacksOnlyDirty(b) => LacksOnlyDirty(b)'
      BY <2>1, <2>2 DEF LacksOnlyDirty
    <3> QED BY <1>0, <2>1, <2>2, <3>1, HandlerKeeps
  <2>3. CASE OtherTerminal /\ missed' = missed \cup {"mark"}
    BY <1>0, <2>1, <2>3, OtherTerminalTyped, HandlerKeeps
  <2> QED BY <1>5, <2>2, <2>3 DEF TabNewFails
<1>5a. CASE DropLayer
  <2>1. Quiet /\ Handler /\ layers' \in SUBSET Layer /\ missed' = missed \cup {"mark"}
        /\ UNCHANGED <<gate, tabVars, prevCursor, bufferVars, windowVars>>
    BY <1>0, <1>5a DEF DropLayer
  <2> QED BY <1>0, <2>1, HandlerKeeps DEF tabVars, bufferVars
<1>6. CASE NoEvent
  <2>1. Quiet /\ Handler
        /\ UNCHANGED <<gate, tabVars, layers, prevCursor, bufferVars, windowVars, missed>>
    BY <1>6 DEF NoEvent, Handler
  <2>2. \A b \in Buffer : LacksOnlyDirty(b) => LacksOnlyDirty(b)'
    BY <2>1 DEF LacksOnlyDirty, tabVars, bufferVars
  <2> QED BY <1>0, <2>1, <2>2, HandlerKeeps DEF tabVars, bufferVars
<1>7. CASE Reconfigure
  <2>1. Handler /\ Rescreen(live) /\ Change(Row) /\ UNCHANGED <<live, posted, window>>
    BY <1>7 DEF Reconfigure
  <2>2. dirtyRows' \in SUBSET Row /\ image' \in [Buffer -> Image]
    BY <1>0, <2>1, ChangeKeeps
  <2>3. live \in SUBSET Buffer /\ posted \in Buffer \cup {NoBuffer} /\ window \in Size
    BY <1>0 DEF TypeOK
  <2> QED BY <2>1, <2>2, <2>3, RescreenKeeps
<1>8. CASE Rotate
  <2>1. Handler /\ Rescreen(live') /\ live' \in SUBSET Buffer
    BY <1>8 DEF Rotate, Handler
  <2>2. /\ dirtyRows' \in SUBSET Row /\ image' \in [Buffer -> Image]
        /\ posted' \in Buffer \cup {NoBuffer} /\ window' \in Size
    BY <1>8, BlankTyped DEF Rotate
  <2> QED BY <2>1, <2>2, RescreenKeeps
<1>9. CASE \E b \in live : ForcedFrame(b) \/ GateFrame(b)
  BY <1>9, ForcedFrameKeeps, GateFrameKeeps
<1>10. CASE GateShut
  BY <1>10 DEF GateShut, TypeOK, FreshIsWhole, GateIsHonest, FullWhileOwed, LatchedBriefly,
               LacksOnlyDirty, tabVars, bufferVars, windowVars
<1>11. CASE UNCHANGED vars
  BY <1>11 DEF vars, loopVars, tabVars, bufferVars, windowVars, TypeOK, FreshIsWhole,
               GateIsHonest, FullWhileOwed, LatchedBriefly, LacksOnlyDirty
<1> QED BY <1>1, <1>2, <1>3, <1>4, <1>5, <1>6, <1>7, <1>8, <1>9, <1>10, <1>11, <1>5a DEF Next

-----------------------------------------------------------------------------
(* The theorems                                                            *)

LEMMA Inductive == Spec => []FrameInv
<1>1. Init => FrameInv
  BY InitEstablishes
<1>2. FrameInv /\ [Next]_vars => FrameInv'
  BY StepKeeps
<1> QED BY <1>1, <1>2, PTL DEF Spec

\* Types, for any grid, layers and addresses; a full repaint is never asked
\* for without a repaint (mark_screen_dirty and the gate).
THEOREM TypeCorrect == Spec => []TypeOK
<1>1. FrameInv => TypeOK
  BY DEF FrameInv
<1> QED BY <1>1, Inductive, PTL

\* What the table known[] calls fresh lacks only what a partial frame paints,
\* also when a rotation hands out the addresses of buffers that are gone.
THEOREM PartialFramesSuffice == Spec => []FreshIsWhole
<1>1. FrameInv => FreshIsWhole
  BY DEF FrameInv
<1> QED BY <1>1, Inductive, PTL

\* Whatever changes what is to be seen marks the screen, or leaves rows that
\* the next frame paints.
THEOREM NothingUnmarked == Spec => []GateIsHonest
<1>1. FrameInv => GateIsHonest
  BY DEF FrameInv
<1> QED BY <1>1, Inductive, PTL

\* The menus are drawn for the size the window has been rotated to.
THEOREM MenusFit == Spec => MenusFitScreen
<1>1. FrameInv /\ [Next]_vars => [(Rotate /\ missed = {}) => menuSize' = window']_vars
  <2> SUFFICES ASSUME FrameInv, Rotate, missed = {}
               PROVE  menuSize' = window'
    OBVIOUS
  <2>1. latched = NoSize
    BY DEF FrameInv, LatchedBriefly, Rotate, Event, Rescreen
  <2> QED BY <2>1 DEF Rotate, Rescreen, InitSymmenus
<1> QED BY <1>1, Inductive, PTL DEF Spec, MenusFitScreen

\* A frame with nothing missed leaves all of the active tab and its layers on
\* the screen, on whichever buffer it was painted and however little of it.
THEOREM FramesAreWhole == Spec => FrameIsWhole
<1>1. FrameInv /\ [Next]_vars =>
        [(\E b \in live : ForcedFrame(b) \/ GateFrame(b))
           => (missed # {} \/ (posted \in live /\ Shows(posted)))']_vars
  <2> SUFFICES ASSUME FrameInv, NEW b \in live, ForcedFrame(b) \/ GateFrame(b), missed' = {}
               PROVE  posted' \in live' /\ Shows(posted)'
    OBVIOUS
  <2>1. TypeOK /\ FreshIsWhole /\ gate.full \in BOOLEAN
    BY DEF FrameInv, TypeOK
  <2>2. CASE ForcedFrame(b)
    <3>1. posted' = b /\ Shows(b)' /\ live' = live
      BY <2>1, <2>2, FrameShows DEF ForcedFrame, Ready, StaysPut
    <3> QED BY <3>1 DEF Shows
  <2>3. CASE GateFrame(b)
    <3>1. posted' = b /\ Shows(b)' /\ live' = live
      BY <2>1, <2>3, FrameShows DEF GateFrame, Ready, StaysPut
    <3> QED BY <3>1 DEF Shows
  <2> QED BY <2>2, <2>3
<1> QED BY <1>1, Inductive, PTL DEF Spec, FrameIsWhole

==============================================================================
