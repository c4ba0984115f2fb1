----------------------------- MODULE TouchGesture -----------------------------
(***************************************************************************)
(* One-finger gestures (main.c): a drag scrolls, a held finger becomes an  *)
(* arrow pad that types and repeats, a tap brings the virtual keyboard.    *)
(*                                                                         *)
(* A gesture keeps a pointer to the session it began in.  In the meantime  *)
(* io handlers close that session and open others, whose memory may be     *)
(* the one just freed: sessions have addresses here, and an identity that  *)
(* the code cannot see.  The URL picker comes up and takes the touches,    *)
(* a second finger sends the same events as the first, and translate_screen *)
(* drops events above the screen's edge.                                   *)
(*                                                                         *)
(* The loop handles one event, then gesture_tick looks at the clock.       *)
(* Positions are relative to the touch's start, half a line is 1.          *)
(***************************************************************************)
EXTENDS Integers, FiniteSets

CONSTANTS
  Addr,          \* memory a session_t may have
  NoAddr,        \* NULL
  MaxId,         \* bound of the model: sessions opened in a run
  MaxFingers,    \* fingers that may be on the screen
  PosX, PosY,    \* positions a finger reports
  BezelReleases  \* a finger may be lifted above the edge, unseen

ASSUME GestureAssumption ==
  /\ NoAddr \notin Addr
  /\ MaxId \in Nat \ {0} /\ MaxFingers \in Nat \ {0}
  /\ PosX \subseteq Int /\ PosY \subseteq Int
  /\ BezelReleases \in BOOLEAN

VARIABLES
  at,         \* address -> the session there, 0 when it is free
  active,     \* address of the active session
  nextId,     \* next_id of the registry
  menuOpen,   \* kbd.current_symmenu is not NULL
  picking,    \* url_pick_active()
  fingers,    \* fingers on the screen
  drag,       \* g_drag
  held,       \* ARROW_HOLD_MS have passed since TOUCH_DOWN
  due,        \* next_fire_ns has passed
  pollFast,   \* the pump's timeout is ARROW_POLL_MS
  phase,      \* "event" before app_handle_event, "tick" before gesture_tick
  sent,       \* what the step just taken gave to a session
  latched,    \* the session TOUCH_DOWN found, by identity
  did,        \* what the gesture has done so far
  anchor,     \* the finger's last position before it began to scroll
  scrolled    \* lines scrolled by the gesture

tabVars     == <<at, active, nextId>>
modalVars   == <<menuOpen, picking>>
gestureVars == <<drag, held, due, pollFast>>
historyVars == <<latched, did, anchor, scrolled>>
vars == <<tabVars, modalVars, fingers, gestureVars, phase, sent, historyVars>>

Mode == {"IDLE", "SCROLL", "WHEEL", "ALT_SCROLL", "LOCKED", "ARROW"}
Direction == {"NONE", "UP", "DOWN", "LEFT", "RIGHT"}
TextHeight == 2

Live == {a \in Addr : at[a] # 0}
OriginLives == drag.origin \in Live      \* app_session_index_of(origin)

Nothing == [what |-> "none", to |-> 0]

-----------------------------------------------------------------------------
(***************************************************************************)
(* Helpers of the handlers                                                 *)
(***************************************************************************)
Abs(n) == IF n < 0 THEN -n ELSE n
Quotient(n, d) == IF n < 0 THEN -((-n) \div d) ELSE n \div d   \* C's n / d

\* The dominant axis, with a dead square around the start.
ArrowDir(dx, dy) ==
  CASE Abs(dx) < TextHeight /\ Abs(dy) < TextHeight -> "NONE"
    [] OTHER -> IF Abs(dx) > Abs(dy) THEN (IF dx > 0 THEN "RIGHT" ELSE "LEFT")
                ELSE IF dy > 0 THEN "DOWN" ELSE "UP"

NoDrag == [mode |-> "IDLE", committed |-> FALSE, eligible |-> FALSE, dir |-> "NONE",
           origin |-> NoAddr, x |-> 0, y |-> 0, accum |-> 0]

\* drag_reset zeroes the times too: both lie in the past.
DragReset == drag' = NoDrag /\ held' = TRUE /\ due' = TRUE

\* Faulty variant: the arrow goes to the tab that is shown.
ArrowToActive(dir) ==
  IF dir # "NONE" /\ OriginLives
    THEN sent' = [what |-> "arrow", to |-> at[active]] /\ did' = did \cup {"arrow"}
    ELSE sent' = Nothing /\ UNCHANGED did

\* Faulty variant: nobody looks whether the session still exists.
ArrowUnguarded(dir) ==
  IF dir # "NONE" /\ drag.origin # NoAddr
    THEN sent' = [what |-> "arrow", to |-> at[drag.origin]] /\ did' = did \cup {"arrow"}
    ELSE sent' = Nothing /\ UNCHANGED did

\* An arrow for the latched session, if there is still one at its address.
ArrowEmit(dir) ==
  IF dir # "NONE" /\ OriginLives
    THEN sent' = [what |-> "arrow", to |-> at[drag.origin]] /\ did' = did \cup {"arrow"}
    ELSE sent' = Nothing /\ UNCHANGED did

-----------------------------------------------------------------------------
(***************************************************************************)
(* What happens besides touches                                            *)
(***************************************************************************)

\* TAB_NEW succeeds: the session may be put where another one was.
OpenTab ==
  /\ nextId <= MaxId
  /\ \E a \in Addr \ Live : at' = [at EXCEPT ![a] = nextId] /\ active' = a
  /\ nextId' = nextId + 1

\* TAB_CLOSE or the reaper; closing the last tab ends the app and is not here.
CloseTab ==
  /\ \E a \in Live :
       /\ Live # {a}
       /\ at' = [at EXCEPT ![a] = 0]
       /\ IF active = a THEN active' \in Live \ {a} ELSE UNCHANGED active
  /\ UNCHANGED nextId

SwitchTab == active' \in Live \ {active} /\ UNCHANGED <<at, nextId>>

TabChange == OpenTab \/ CloseTab \/ SwitchTab

\* What runs between two events: io handlers inside platform_next_event (the
\* reaper, the control socket), and after the tick a reload of the
\* configuration, which drops the menu, and the evals that waited.  Entering
\* the picker again drops it when no URL is left to be seen.
IoHandler ==
  /\ phase = "event"
  /\ \/ TabChange /\ UNCHANGED modalVars
     \/ picking' = ~picking /\ UNCHANGED <<tabVars, menuOpen>>
     \/ menuOpen /\ menuOpen' = FALSE /\ UNCHANGED <<tabVars, picking>>
  /\ sent' = Nothing
  /\ UNCHANGED <<fingers, gestureVars, phase, historyVars>>

\* A key: to the picker, which stays or goes, or to the app, where it changes
\* tabs, opens or closes the symbol menu, or brings up the picker.
Key ==
  /\ phase = "event" /\ phase' = "tick"
  /\ IF picking
       THEN picking' \in BOOLEAN /\ UNCHANGED <<tabVars, menuOpen>>
       ELSE /\ TabChange \/ UNCHANGED tabVars
            /\ menuOpen' \in BOOLEAN /\ picking' \in BOOLEAN
  /\ sent' = Nothing
  /\ UNCHANGED <<fingers, gestureVars, historyVars>>

\* platform_next_event times out.
NoEvent ==
  /\ phase = "event" /\ phase' = "tick"
  /\ sent' = Nothing
  /\ UNCHANGED <<tabVars, modalVars, fingers, gestureVars, historyVars>>

TimePasses ==
  /\ phase = "event"
  /\ \/ ~held /\ held' = TRUE /\ UNCHANGED due
     \/ ~due /\ due' = TRUE /\ UNCHANGED held
  /\ sent' = Nothing
  /\ UNCHANGED <<tabVars, modalVars, fingers, drag, pollFast, phase, historyVars>>

-----------------------------------------------------------------------------
(***************************************************************************)
(* The touches                                                             *)
(***************************************************************************)

\* The mode is chosen for the whole gesture, by the menu and by what the
\* program in the terminal has asked for.
LatchedMode == IF menuOpen THEN {"LOCKED"} ELSE {"WHEEL", "ALT_SCROLL", "LOCKED", "SCROLL"}

\* handle_mousedown: the strip's pills and its +, a key of the symbol menu
\* (any action, and the menu may go), or nothing of interest.
MouseDown ==
  \/ UNCHANGED <<tabVars, modalVars>>
  \/ TabChange /\ UNCHANGED modalVars
  \/ /\ menuOpen /\ menuOpen' \in BOOLEAN
     /\ TabChange \/ UNCHANGED tabVars
     /\ picking' \in BOOLEAN

StartGesture ==
  /\ \E m \in LatchedMode :
       drag' = [NoDrag EXCEPT !.mode = m, !.eligible = ~menuOpen, !.origin = active]
  /\ held' = FALSE /\ due' = TRUE
  /\ latched' = at[active] /\ did' = {} /\ anchor' = 0 /\ scrolled' = 0
  /\ MouseDown
  /\ UNCHANGED pollFast

TouchDown ==
  /\ phase = "event" /\ phase' = "tick"
  /\ fingers < MaxFingers /\ fingers' = fingers + 1
  /\ IF picking
       THEN picking' = FALSE /\ UNCHANGED <<tabVars, menuOpen, gestureVars, historyVars>>
       ELSE StartGesture
  /\ sent' = Nothing

MovePad(x, y) ==
  LET dir == ArrowDir(x, y)
  IN /\ drag' = [drag EXCEPT !.x = x, !.y = y, !.dir = dir]
     /\ IF dir = drag.dir THEN sent' = Nothing /\ UNCHANGED did ELSE ArrowEmit(dir)
     /\ due' = IF dir \in {drag.dir, "NONE"} THEN due ELSE FALSE
     /\ UNCHANGED <<anchor, scrolled>>

MoveIgnored(x) ==
  /\ drag' = [drag EXCEPT !.x = x]
  /\ sent' = Nothing
  /\ UNCHANGED <<due, did, anchor, scrolled>>

\* Less than half a line from the start the finger is still.
MoveStill(x, y) ==
  /\ drag' = [drag EXCEPT !.x = x, !.y = y]
  /\ sent' = Nothing
  /\ UNCHANGED <<due, did, anchor, scrolled>>

\* Faulty variant: the lines that were scrolled go on counting.
MoveScrollKeepingLines(x, y) ==
  LET sum  == drag.accum + y - drag.y
      rows == Quotient(sum, TextHeight)
  IN /\ drag' = [drag EXCEPT !.x = x, !.y = y, !.committed = TRUE, !.accum = sum]
     /\ anchor' = IF drag.committed THEN anchor ELSE drag.y
     /\ scrolled' = scrolled + rows
     /\ IF rows = 0 THEN sent' = Nothing /\ UNCHANGED did
        ELSE sent' = [what |-> "scroll", to |-> at[drag.origin]] /\ did' = did \cup {"scroll"}
     /\ UNCHANGED due

\* Faulty variant: what is left of a line is dropped with every event.
MoveScrollDroppingRest(x, y) ==
  LET sum  == drag.accum + y - drag.y
      rows == Quotient(sum, TextHeight)
  IN /\ drag' = [drag EXCEPT !.x = x, !.y = y, !.committed = TRUE, !.accum = 0]
     /\ anchor' = IF drag.committed THEN anchor ELSE drag.y
     /\ scrolled' = scrolled + rows
     /\ IF rows = 0 THEN sent' = Nothing /\ UNCHANGED did
        ELSE sent' = [what |-> "scroll", to |-> at[drag.origin]] /\ did' = did \cup {"scroll"}
     /\ UNCHANGED due

\* Whole lines go to the session, the rest waits in accum_dy.
MoveScroll(x, y) ==
  LET sum  == drag.accum + y - drag.y
      rows == Quotient(sum, TextHeight)
  IN /\ drag' = [drag EXCEPT !.x = x, !.y = y, !.committed = TRUE,
                             !.accum = sum - rows * TextHeight]
     /\ anchor' = IF drag.committed THEN anchor ELSE drag.y
     /\ scrolled' = scrolled + rows
     /\ IF rows = 0 THEN sent' = Nothing /\ UNCHANGED did
        ELSE sent' = [what |-> "scroll", to |-> at[drag.origin]] /\ did' = did \cup {"scroll"}
     /\ UNCHANGED due

TouchMove(x, y) ==
  /\ phase = "event" /\ phase' = "tick" /\ fingers > 0
  /\ IF picking THEN sent' = Nothing /\ UNCHANGED <<drag, due, did, anchor, scrolled>>
     ELSE IF drag.mode = "ARROW" THEN MovePad(x, y)
     ELSE IF drag.mode \in {"IDLE", "LOCKED"} \/ ~OriginLives THEN MoveIgnored(x)
     ELSE IF ~drag.committed /\ 2 * Abs(y) < TextHeight THEN MoveStill(x, y)
     ELSE MoveScroll(x, y)
  /\ UNCHANGED <<tabVars, modalVars, fingers, held, pollFast, latched>>

\* maybe_show_vkb: what ends as a tap.
IsTap == drag.mode \notin {"IDLE", "LOCKED", "ARROW"} /\ ~drag.committed

TouchUp ==
  /\ phase = "event" /\ phase' = "tick"
  /\ fingers > 0 /\ fingers' = fingers - 1
  /\ IF picking
       THEN sent' = Nothing /\ UNCHANGED gestureVars
       ELSE /\ sent' = IF IsTap THEN [what |-> "keyboard", to |-> 0] ELSE Nothing
            /\ pollFast' = IF drag.mode = "ARROW" THEN FALSE ELSE pollFast
            /\ DragReset
  /\ UNCHANGED <<tabVars, modalVars, historyVars>>

\* translate_screen drops the release of a finger above the edge.
LiftUnseen ==
  /\ BezelReleases /\ phase = "event" /\ phase' = "tick"
  /\ fingers > 0 /\ fingers' = fingers - 1
  /\ sent' = Nothing
  /\ UNCHANGED <<tabVars, modalVars, gestureVars, historyVars>>

-----------------------------------------------------------------------------
(***************************************************************************)
(* gesture_tick                                                            *)
(***************************************************************************)
PadLosesTab ==
  /\ drag.mode = "ARROW" /\ ~OriginLives
  /\ DragReset /\ pollFast' = FALSE
  /\ sent' = Nothing /\ UNCHANGED did

PadRepeats ==
  /\ drag.mode = "ARROW" /\ OriginLives /\ drag.dir # "NONE" /\ due
  /\ ArrowEmit(drag.dir) /\ due' = FALSE
  /\ UNCHANGED <<drag, held, pollFast>>

MayArm ==
  /\ drag.mode # "ARROW" /\ drag.eligible /\ ~drag.committed /\ ~menuOpen
  /\ drag.origin # NoAddr /\ held

\* A finger that has kept still turns the gesture into the arrow pad.
PadArms ==
  LET dir == ArrowDir(drag.x, drag.y)
  IN /\ MayArm
     /\ drag' = [drag EXCEPT !.mode = "ARROW", !.dir = dir]
     /\ pollFast' = TRUE
     /\ ArrowEmit(dir)
     /\ due' = IF dir = "NONE" THEN due ELSE FALSE
     /\ UNCHANGED held

TickIdle ==
  /\ ~MayArm
  /\ drag.mode = "ARROW" => OriginLives /\ (drag.dir = "NONE" \/ ~due)
  /\ sent' = Nothing /\ UNCHANGED <<gestureVars, did>>

Tick ==
  /\ phase = "tick" /\ phase' = "event"
  /\ PadLosesTab \/ PadRepeats \/ PadArms \/ TickIdle
  /\ UNCHANGED <<tabVars, modalVars, fingers, latched, anchor, scrolled>>

-----------------------------------------------------------------------------
Init ==
  /\ \E a \in Addr : active = a /\ at = [b \in Addr |-> IF b = a THEN 1 ELSE 0]
  /\ nextId = 2
  /\ menuOpen = FALSE /\ picking = FALSE /\ fingers = 0
  /\ drag = NoDrag /\ held = TRUE /\ due = TRUE /\ pollFast = FALSE
  /\ phase = "event" /\ sent = Nothing
  /\ latched = 0 /\ did = {} /\ anchor = 0 /\ scrolled = 0

Next ==
  \/ IoHandler
  \/ Key
  \/ NoEvent
  \/ TimePasses
  \/ TouchDown
  \/ \E x \in PosX, y \in PosY : TouchMove(x, y)
  \/ TouchUp
  \/ LiftUnseen
  \/ Tick

Spec == Init /\ [][Next]_vars

-----------------------------------------------------------------------------
(***************************************************************************)
(* Correctness                                                             *)
(***************************************************************************)

\* Every variable stays in its type; less than a line waits in accum_dy.
TypeOK ==
  /\ at \in [Addr -> 0 .. MaxId] /\ active \in Live /\ nextId \in 1 .. MaxId + 1
  /\ menuOpen \in BOOLEAN /\ picking \in BOOLEAN /\ fingers \in 0 .. MaxFingers
  /\ drag \in [mode : Mode, committed : BOOLEAN, eligible : BOOLEAN, dir : Direction,
               origin : Addr \cup {NoAddr}, x : PosX \cup {0}, y : PosY \cup {0},
               accum : -(TextHeight - 1) .. TextHeight - 1]
  /\ held \in BOOLEAN /\ due \in BOOLEAN /\ pollFast \in BOOLEAN
  /\ phase \in {"event", "tick"}
  /\ sent \in [what : {"none", "arrow", "scroll", "keyboard"}, to : 0 .. MaxId]
  /\ latched \in 0 .. MaxId /\ did \subseteq {"arrow", "scroll"}
  /\ anchor \in Int /\ scrolled \in Int

\* "Guards the latched session in case its child exited mid-gesture and freed
\* it" (arrow_emit): what a gesture sends goes to a session that exists.
NoDanglingOrigin == sent.what \in {"arrow", "scroll"} => sent.to # 0

\* "A programmatic tab switch mid-stroke can't make us emit into a different
\* tab than the one we latched" (main.c:945): while the latched session lives,
\* all the gesture sends goes there, whatever tab is shown.  Once it is gone
\* its memory may hold another session, which the code takes for it.
EmitsToLatchedTab ==
  sent.what \in {"arrow", "scroll"} /\ (\E a \in Addr : at[a] = latched) => sent.to = latched

\* One gesture scrolls or types, never both: "a fast swipe sets committed
\* first and so never arms", and the pad's moves do not scroll.
ScrollsOrTypes == did # {"arrow", "scroll"}

\* Only a finger that has neither scrolled nor typed brings up the keyboard.
KeyboardOnlyOnTap == sent.what = "keyboard" => did = {}

\* The content follows the finger: after any number of moves, back and forth,
\* the lines scrolled and the rest are the way it has gone since it set off.
ScrollFollowsFinger ==
  drag.committed => scrolled * TextHeight + drag.accum = drag.y - anchor

=============================================================================
