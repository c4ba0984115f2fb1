-------------------------- MODULE TouchGestureProofs --------------------------
(***************************************************************************)
(* What holds of gestures for any number of sessions, addresses, fingers   *)
(* and positions.                                                          *)
(*                                                                         *)
(* GestureInv is inductive.  EmitsToLatchedTab needs to know of the memory *)
(* (OriginKnown: as long as the latched session lives it is where the      *)
(* gesture's pointer says, for ids are not given twice), the others what a *)
(* mode says of the gesture's past (ModeKnowsPast).                        *)
(***************************************************************************)
EXTENDS TouchGesture, TLAPS

UniqueIds == \A a, b \in Addr : at[a] # 0 /\ at[a] = at[b] => a = b
IdsBelow  == \A a \in Addr : at[a] < nextId

Pinned(origin, id) ==
  /\ origin \in Addr /\ id \in 1 .. nextId - 1
  /\ (\E a \in Addr : at[a] = id) => at[origin] = id

OriginKnown == drag.origin # NoAddr => Pinned(drag.origin, latched)

Memory == UniqueIds /\ IdsBelow /\ OriginKnown

ModeKnowsPast ==
  /\ drag.mode = "IDLE" => ~drag.eligible /\ ~drag.committed /\ drag.origin = NoAddr
  /\ drag.mode # "IDLE" /\ "scroll" \in did => drag.committed
  /\ drag.mode # "IDLE" /\ "arrow" \in did => drag.mode = "ARROW"
  /\ drag.mode # "IDLE" /\ ~drag.committed => drag.accum = 0 /\ scrolled = 0
  /\ drag.mode = "ARROW" => ~drag.committed

History == ModeKnowsPast /\ ScrollsOrTypes /\ KeyboardOnlyOnTap /\ ScrollFollowsFinger

GestureInv == TypeOK /\ Memory /\ History /\ NoDanglingOrigin /\ EmitsToLatchedTab

TabsTyped ==
  at \in [Addr -> 0 .. MaxId] /\ active \in Live /\ nextId \in 1 .. MaxId + 1

DragType ==
  [mode : Mode, committed : BOOLEAN, eligible : BOOLEAN, dir : Direction,
   origin : Addr \cup {NoAddr}, x : PosX \cup {0}, y : PosY \cup {0},
   accum : -(TextHeight - 1) .. TextHeight - 1]

SentType == [what : {"none", "arrow", "scroll", "keyboard"}, to : 0 .. MaxId]

-----------------------------------------------------------------------------
(* Types                                                                   *)

\* What C's division leaves is smaller than a line, and the sum is kept.
LEMMA RestOfDrag ==
  ASSUME NEW sum \in Int
  PROVE  /\ Quotient(sum, TextHeight) \in Int
         /\ sum - Quotient(sum, TextHeight) * TextHeight \in -(TextHeight - 1) .. TextHeight - 1
<1>1. CASE sum < 0
  <2>1. (-sum) \in Nat /\ (-sum) \div 2 \in Nat
    BY <1>1, Z3
  <2>2. (-sum) - ((-sum) \div 2) * 2 \in {0, 1}
    BY <2>1, Z3
  <2>3. Quotient(sum, TextHeight) = -((-sum) \div 2)
    BY <1>1 DEF Quotient, TextHeight
  <2> QED BY <2>1, <2>2, <2>3 DEF TextHeight
<1>2. CASE ~(sum < 0)
  <2>1. sum \div 2 \in Nat /\ sum - (sum \div 2) * 2 \in {0, 1}
    BY <1>2, Z3
  <2>2. Quotient(sum, TextHeight) = sum \div 2
    BY <1>2 DEF Quotient, TextHeight
  <2> QED BY <2>1, <2>2 DEF TextHeight
<1> QED BY <1>1, <1>2

\* The pad's direction is one of five.
LEMMA DirectionOfPad ==
  ASSUME NEW x, NEW y
  PROVE  ArrowDir(x, y) \in Direction
  BY DEF ArrowDir, Direction

\* An arrow is sent to a live session or nothing is sent.
LEMMA ArrowTyped ==
  ASSUME TypeOK, NEW dir, ArrowEmit(dir)
  PROVE  sent' \in SentType /\ did' \subseteq {"arrow", "scroll"}
<1>1. Nothing \in SentType
  BY GestureAssumption DEF Nothing, SentType
<1>2. CASE dir # "NONE" /\ OriginLives
  <2>1. at[drag.origin] \in 0 .. MaxId
    BY <1>2 DEF TypeOK, OriginLives, Live
  <2>2. sent' = [what |-> "arrow", to |-> at[drag.origin]] /\ did' = did \cup {"arrow"}
    BY <1>2, Zenon DEF ArrowEmit
  <2>3. sent' \in SentType
    BY <2>1, <2>2 DEF SentType
  <2>4. did \subseteq {"arrow", "scroll"}
    BY DEF TypeOK
  <2> QED BY <2>2, <2>3, <2>4
<1>3. CASE ~(dir # "NONE" /\ OriginLives)
  <2>1. sent' = Nothing /\ did' = did
    BY <1>3, Zenon DEF ArrowEmit
  <2> QED BY <1>1, <2>1 DEF TypeOK
<1> QED BY <1>2, <1>3

\* Opening, closing and switching tabs keep the tabs' types.
LEMMA TabsStayTyped ==
  ASSUME TypeOK, TabChange
  PROVE  TabsTyped'
<1>0. TabsTyped
  BY DEF TypeOK, TabsTyped
<1>1. CASE OpenTab
  <2>1. PICK a \in Addr \ Live : at' = [at EXCEPT ![a] = nextId] /\ active' = a
    BY <1>1 DEF OpenTab
  <2>2. nextId \in 1 .. MaxId /\ nextId' = nextId + 1
    BY <1>0, <1>1, GestureAssumption DEF OpenTab, TabsTyped
  <2>3. at' \in [Addr -> 0 .. MaxId] /\ at'[a] = nextId
    BY <1>0, <2>1, <2>2 DEF TabsTyped
  <2>4. active' \in Live'
    BY <2>1, <2>2, <2>3 DEF Live
  <2>5. nextId' \in 1 .. MaxId + 1
    BY <2>2, GestureAssumption
  <2> QED BY <2>3, <2>4, <2>5 DEF TabsTyped
<1>2. CASE CloseTab
  <2>1. PICK a \in Live : /\ at' = [at EXCEPT ![a] = 0]
                          /\ IF active = a THEN active' \in Live \ {a} ELSE UNCHANGED active
    BY <1>2 DEF CloseTab
  <2>2. at' \in [Addr -> 0 .. MaxId] /\ Live' = Live \ {a}
    BY <1>0, <2>1, GestureAssumption DEF TabsTyped, Live
  <2>3. active' \in Live \ {a}
    BY <1>0, <2>1 DEF TabsTyped
  <2> QED BY <1>0, <1>2, <2>2, <2>3 DEF TabsTyped, CloseTab
<1>3. CASE SwitchTab
  BY <1>0, <1>3 DEF SwitchTab, TabsTyped, Live
<1> QED BY <1>1, <1>2, <1>3 DEF TabChange

OtherTypes ==
  /\ menuOpen \in BOOLEAN /\ picking \in BOOLEAN /\ fingers \in 0 .. MaxFingers
  /\ held \in BOOLEAN /\ due \in BOOLEAN /\ pollFast \in BOOLEAN
  /\ phase \in {"event", "tick"}
  /\ latched \in 0 .. MaxId /\ did \subseteq {"arrow", "scroll"}
  /\ anchor \in Int /\ scrolled \in Int

LEMMA TypeParts ==
  TypeOK <=> TabsTyped /\ drag \in DragType /\ sent \in SentType /\ OtherTypes
BY Zenon DEF TypeOK, TabsTyped, DragType, SentType, OtherTypes

LEMMA NoDragTyped == NoDrag \in DragType
<1>1. "IDLE" \in Mode /\ "NONE" \in Direction
  BY DEF Mode, Direction
<1>2. 0 \in -(TextHeight - 1) .. TextHeight - 1
  BY DEF TextHeight
<1> QED BY <1>1, <1>2 DEF NoDrag, DragType

\* A touch that goes down starts with types.
LEMMA DownTyped ==
  ASSUME TypeOK, TouchDown
  PROVE  TypeOK'
<1>0. TabsTyped /\ drag \in DragType /\ OtherTypes
  BY TypeParts
<1>1. fingers' \in 0 .. MaxFingers /\ phase' = "tick"
  BY <1>0, GestureAssumption DEF TouchDown, OtherTypes
<1>2. sent' \in SentType
  BY GestureAssumption DEF TouchDown, Nothing, SentType
<1>3. CASE picking
  <2>1. UNCHANGED <<tabVars, menuOpen, gestureVars, historyVars>> /\ picking' = FALSE
    BY <1>3, Zenon DEF TouchDown
  <2>2. TabsTyped' /\ drag' \in DragType /\ OtherTypes'
    BY <1>0, <1>1, <2>1 DEF TabsTyped, Live, OtherTypes, tabVars, gestureVars, historyVars
  <2> QED BY <1>2, <2>2, Zenon DEF TypeOK, TabsTyped, DragType, SentType, OtherTypes
<1>4. CASE ~picking
  <2>1. StartGesture
    BY <1>4, Zenon DEF TouchDown
  <2>2. drag' \in DragType
    <3>1. PICK m \in LatchedMode :
            drag' = [NoDrag EXCEPT !.mode = m, !.eligible = ~menuOpen, !.origin = active]
      BY <2>1, Zenon DEF StartGesture
    <3> DEFINE free == ~menuOpen
    <3>2. m \in Mode
      BY Zenon DEF LatchedMode, Mode
    <3>3. free \in BOOLEAN
      BY Zenon
    <3>4. active \in Addr
      BY <1>0 DEF TabsTyped, Live
    <3> HIDE DEF free
    <3>5. drag' = [NoDrag EXCEPT !.mode = m, !.eligible = free, !.origin = active]
      BY <3>1, Zenon DEF free
    <3> QED BY <3>2, <3>3, <3>4, <3>5, NoDragTyped DEF DragType
  <2>3. at[active] \in 0 .. MaxId
    BY <1>0 DEF TabsTyped, Live
  <2>4. TabsTyped' /\ menuOpen' \in BOOLEAN /\ picking' \in BOOLEAN
    <3>1. MouseDown
      BY <2>1, Zenon DEF StartGesture
    <3>2. TabChange \/ UNCHANGED tabVars
      BY <3>1, Zenon DEF MouseDown
    <3>3. TabsTyped'
      BY <1>0, <3>2, TabsStayTyped DEF tabVars, TabsTyped, Live
    <3> QED BY <1>0, <3>1, <3>3 DEF MouseDown, modalVars, OtherTypes
  <2>5. OtherTypes'
    <3>1. /\ held' = FALSE /\ due' = TRUE /\ pollFast' = pollFast
          /\ latched' = at[active] /\ did' = {} /\ anchor' = 0 /\ scrolled' = 0
      BY <2>1, Zenon DEF StartGesture
    <3>2. held' \in BOOLEAN /\ due' \in BOOLEAN /\ pollFast' \in BOOLEAN
      BY <1>0, <3>1, Zenon DEF OtherTypes
    <3>3. latched' \in 0 .. MaxId /\ did' \subseteq {"arrow", "scroll"}
      BY <2>3, <3>1
    <3>4. anchor' \in Int /\ scrolled' \in Int /\ phase' \in {"event", "tick"}
      BY <1>1, <3>1
    <3> QED BY <1>1, <2>4, <3>2, <3>3, <3>4, Zenon DEF OtherTypes
  <2> QED BY <1>2, <2>2, <2>4, <2>5, Zenon DEF TypeOK, TabsTyped, DragType, SentType, OtherTypes
<1> QED BY <1>3, <1>4

LEMMA PositionsAreIntegers ==
  ASSUME drag \in DragType
  PROVE  /\ PosY \subseteq Int
         /\ drag.x \in Int /\ drag.y \in Int /\ drag.accum \in Int
<1>1. PosX \subseteq Int /\ PosY \subseteq Int /\ 0 \in Int
  BY GestureAssumption
<1>2. drag.x \in PosX \cup {0} /\ drag.y \in PosY \cup {0}
  BY DEF DragType
<1>3. drag.accum \in Int
  BY DEF DragType, TextHeight
<1>4. drag.x \in Int /\ drag.y \in Int
  BY <1>1, <1>2, Zenon
<1> QED BY <1>1, <1>3, <1>4, Zenon

\* A finger's move, whatever it is taken for.
LEMMA MoveTyped ==
  ASSUME TypeOK, NEW x \in PosX, NEW y \in PosY, TouchMove(x, y)
  PROVE  TypeOK'
<1>0. TabsTyped /\ drag \in DragType /\ OtherTypes
  BY TypeParts
<1>1. TabsTyped'
  BY <1>0 DEF TouchMove, TabsTyped, Live, tabVars
<1>2. Nothing \in SentType
  BY GestureAssumption DEF Nothing, SentType
<1>3. /\ menuOpen' \in BOOLEAN /\ picking' \in BOOLEAN /\ fingers' \in 0 .. MaxFingers
      /\ held' \in BOOLEAN /\ pollFast' \in BOOLEAN /\ phase' \in {"event", "tick"}
      /\ latched' \in 0 .. MaxId
  BY <1>0 DEF TouchMove, OtherTypes, modalVars
<1> DEFINE Good == /\ drag' \in DragType /\ sent' \in SentType /\ due' \in BOOLEAN
                   /\ did' \subseteq {"arrow", "scroll"} /\ anchor' \in Int /\ scrolled' \in Int
<1>4. ASSUME sent' = Nothing, UNCHANGED <<due, did, anchor, scrolled>>, drag' \in DragType
      PROVE  Good
  BY <1>0, <1>2, <1>4, Zenon DEF OtherTypes
<1>5. ASSUME picking
      PROVE  Good
  <2>1. sent' = Nothing /\ UNCHANGED <<drag, due, did, anchor, scrolled>>
    BY <1>5, Zenon DEF TouchMove
  <2> QED BY <1>0, <1>4, <2>1, Zenon
<1>6. ASSUME MovePad(x, y)
      PROVE  Good
  <2>1. drag' = [drag EXCEPT !.x = x, !.y = y, !.dir = ArrowDir(x, y)]
    BY <1>6, Zenon DEF MovePad
  <2>2. drag' \in DragType
    BY <1>0, <2>1, DirectionOfPad DEF DragType
  <2>3. (sent' = Nothing /\ UNCHANGED did) \/ ArrowEmit(ArrowDir(x, y))
    BY <1>6, Zenon DEF MovePad
  <2>4. sent' \in SentType /\ did' \subseteq {"arrow", "scroll"}
    BY <1>0, <1>2, <2>3, ArrowTyped DEF OtherTypes
  <2>5. due' = due \/ due' = FALSE
    BY <1>6, Zenon DEF MovePad
  <2>6. due' \in BOOLEAN
    BY <1>0, <2>5, Zenon DEF OtherTypes
  <2>7. anchor' \in Int /\ scrolled' \in Int
    BY <1>0, <1>6 DEF MovePad, OtherTypes
  <2> QED BY <2>2, <2>4, <2>6, <2>7, Zenon
<1>7. ASSUME MoveIgnored(x)
      PROVE  Good
  <2>1. drag' = [drag EXCEPT !.x = x]
    BY <1>7, Zenon DEF MoveIgnored
  <2>2. drag' \in DragType
    BY <1>0, <2>1 DEF DragType
  <2> QED BY <1>4, <1>7, <2>2, Zenon DEF MoveIgnored
<1>8. ASSUME MoveStill(x, y)
      PROVE  Good
  <2>1. drag' = [drag EXCEPT !.x = x, !.y = y]
    BY <1>8, Zenon DEF MoveStill
  <2>2. drag' \in DragType
    BY <1>0, <2>1 DEF DragType
  <2> QED BY <1>4, <1>8, <2>2, Zenon DEF MoveStill
<1>9. ASSUME MoveScroll(x, y) /\ OriginLives
      PROVE  Good
  <2> DEFINE sum  == drag.accum + y - drag.y
             rows == Quotient(sum, TextHeight)
             rest == sum - rows * TextHeight
  <2>0. y \in Int /\ drag.y \in Int /\ drag.accum \in Int
    BY <1>0, PositionsAreIntegers
  <2>1. sum \in Int
    BY <2>0
  <2>2. rows \in Int /\ rest \in -(TextHeight - 1) .. TextHeight - 1
    BY <2>1, RestOfDrag
  <2>3. /\ drag' = [drag EXCEPT !.x = x, !.y = y, !.committed = TRUE, !.accum = rest]
        /\ anchor' = (IF drag.committed THEN anchor ELSE drag.y)
        /\ scrolled' = scrolled + rows /\ due' = due
    BY <1>9, Zenon DEF MoveScroll
  <2>4. \/ sent' = Nothing /\ UNCHANGED did
        \/ sent' = [what |-> "scroll", to |-> at[drag.origin]] /\ did' = did \cup {"scroll"}
    BY <1>9, Zenon DEF MoveScroll
  <2> HIDE DEF sum, rows, rest
  <2>5. drag' \in DragType
    BY <1>0, <2>2, <2>3 DEF DragType
  <2>6. anchor' = anchor \/ anchor' = drag.y
    BY <2>3, Zenon
  <2>7. anchor' \in Int /\ scrolled' \in Int
    BY <1>0, <2>0, <2>2, <2>3, <2>6 DEF OtherTypes
  <2>8. at[drag.origin] \in 0 .. MaxId
    BY <1>0, <1>9 DEF OriginLives, Live, TabsTyped
  <2>9. sent' \in SentType /\ did' \subseteq {"arrow", "scroll"}
    <3>1. [what |-> "scroll", to |-> at[drag.origin]] \in SentType
      BY <2>8 DEF SentType
    <3>2. did \subseteq {"arrow", "scroll"}
      BY <1>0 DEF OtherTypes
    <3> QED BY <1>2, <2>4, <3>1, <3>2
  <2>10. due' \in BOOLEAN
    BY <1>0, <2>3, Zenon DEF OtherTypes
  <2> QED BY <2>5, <2>7, <2>9, <2>10, Zenon
<1>10. \/ picking \/ MovePad(x, y) \/ MoveIgnored(x) \/ MoveStill(x, y)
       \/ MoveScroll(x, y) /\ OriginLives
  BY Zenon DEF TouchMove
<1> HIDE DEF Good
<1>11. Good
  BY <1>5, <1>6, <1>7, <1>8, <1>9, <1>10, Zenon
<1> QED BY <1>1, <1>3, <1>11, Zenon DEF Good, TypeOK, TabsTyped, DragType, SentType

\* A finger's release resets the gesture.
LEMMA UpTyped ==
  ASSUME TypeOK, TouchUp
  PROVE  TypeOK'
<1>0. TabsTyped /\ drag \in DragType /\ OtherTypes
  BY TypeParts
<1>1. TabsTyped'
  BY <1>0 DEF TouchUp, TabsTyped, Live, tabVars
<1>2. sent' \in SentType
  <2>1. Nothing \in SentType /\ [what |-> "keyboard", to |-> 0] \in SentType
    BY GestureAssumption DEF Nothing, SentType
  <2>2. sent' = Nothing \/ sent' = [what |-> "keyboard", to |-> 0]
    BY Zenon DEF TouchUp
  <2> QED BY <2>1, <2>2
<1>3. fingers' \in 0 .. MaxFingers
  BY <1>0, GestureAssumption DEF TouchUp, OtherTypes
<1>4. drag' \in DragType
  BY <1>0, NoDragTyped DEF TouchUp, gestureVars, DragReset
<1>5. held' \in BOOLEAN /\ due' \in BOOLEAN /\ pollFast' \in BOOLEAN
  <2>1. (held' = held \/ held' = TRUE) /\ (due' = due \/ due' = TRUE)
        /\ (pollFast' = pollFast \/ pollFast' = FALSE)
    BY DEF TouchUp, gestureVars, DragReset
  <2> QED BY <1>0, <2>1, Zenon DEF OtherTypes
<1>6. /\ menuOpen' \in BOOLEAN /\ picking' \in BOOLEAN /\ phase' \in {"event", "tick"}
      /\ latched' \in 0 .. MaxId /\ did' \subseteq {"arrow", "scroll"}
      /\ anchor' \in Int /\ scrolled' \in Int
  BY <1>0 DEF TouchUp, OtherTypes, modalVars, historyVars
<1> QED BY <1>1, <1>2, <1>3, <1>4, <1>5, <1>6, Zenon DEF TypeOK, TabsTyped, DragType, SentType

\* The tick resets, repeats, arms or does nothing.
LEMMA TickTyped ==
  ASSUME TypeOK, Tick
  PROVE  TypeOK'
<1>0. TabsTyped /\ drag \in DragType /\ OtherTypes
  BY TypeParts
<1>1. TabsTyped'
  BY <1>0 DEF Tick, TabsTyped, Live, tabVars
<1>2. /\ menuOpen' \in BOOLEAN /\ picking' \in BOOLEAN /\ phase' \in {"event", "tick"}
      /\ latched' \in 0 .. MaxId /\ fingers' \in 0 .. MaxFingers
      /\ anchor' \in Int /\ scrolled' \in Int
  BY <1>0 DEF Tick, OtherTypes, modalVars
<1>3. drag' \in DragType
  <2>1. CASE PadArms
    <3>1. drag' = [drag EXCEPT !.mode = "ARROW", !.dir = ArrowDir(drag.x, drag.y)]
      BY <2>1, Zenon DEF PadArms
    <3>2. "ARROW" \in Mode
      BY DEF Mode
    <3> QED BY <1>0, <3>1, <3>2, DirectionOfPad DEF DragType
  <2> QED BY <1>0, <2>1, NoDragTyped DEF Tick, PadLosesTab, PadRepeats, TickIdle, gestureVars, DragReset
<1>4. sent' \in SentType /\ did' \subseteq {"arrow", "scroll"}
  <2>1. (sent' = Nothing /\ did' = did) \/ \E d \in Direction : ArrowEmit(d)
    <3>1. drag.dir \in Direction /\ ArrowDir(drag.x, drag.y) \in Direction
      BY <1>0, DirectionOfPad DEF DragType
    <3> QED BY <3>1, Zenon DEF Tick, PadLosesTab, PadRepeats, PadArms, TickIdle
  <2>2. Nothing \in SentType
    BY GestureAssumption DEF Nothing, SentType
  <2>3. did \subseteq {"arrow", "scroll"}
    BY <1>0 DEF OtherTypes
  <2> QED BY <2>1, <2>2, <2>3, ArrowTyped
<1>5. held' \in BOOLEAN /\ due' \in BOOLEAN /\ pollFast' \in BOOLEAN
  <2>1. /\ held' = held \/ held' = TRUE
        /\ due' = due \/ due' = TRUE \/ due' = FALSE
        /\ pollFast' = pollFast \/ pollFast' = FALSE \/ pollFast' = TRUE
    BY DEF Tick, PadLosesTab, PadRepeats, PadArms, TickIdle, gestureVars, DragReset
  <2> QED BY <1>0, <2>1, Zenon DEF OtherTypes
<1> QED BY <1>1, <1>2, <1>3, <1>4, <1>5, Zenon DEF TypeOK, TabsTyped, DragType, SentType

\* What happens besides touches.
BesidesTouches == IoHandler \/ Key \/ NoEvent \/ TimePasses \/ LiftUnseen

LEMMA BesidesTyped ==
  ASSUME TypeOK, BesidesTouches
  PROVE  TypeOK'
<1>0. TabsTyped /\ drag \in DragType /\ OtherTypes
  BY TypeParts
<1>1. TabChange \/ UNCHANGED tabVars
  BY Zenon DEF BesidesTouches, IoHandler, Key, NoEvent, TimePasses, LiftUnseen, tabVars
<1>2. TabsTyped'
  BY <1>0, <1>1, TabsStayTyped DEF tabVars, TabsTyped, Live
<1>3. drag' = drag /\ pollFast' = pollFast /\ UNCHANGED historyVars /\ sent' = Nothing
  BY Zenon DEF BesidesTouches, IoHandler, Key, NoEvent, TimePasses, LiftUnseen, gestureVars
<1>4. sent' \in SentType
  BY <1>3, GestureAssumption DEF Nothing, SentType
<1>5. /\ latched' \in 0 .. MaxId /\ did' \subseteq {"arrow", "scroll"}
      /\ anchor' \in Int /\ scrolled' \in Int
  BY <1>0, <1>3 DEF historyVars, OtherTypes
<1>6. fingers' \in 0 .. MaxFingers /\ phase' \in {"event", "tick"}
  BY <1>0, GestureAssumption
     DEF BesidesTouches, IoHandler, Key, NoEvent, TimePasses, LiftUnseen, OtherTypes
<1>7. /\ menuOpen' = menuOpen \/ menuOpen' \in BOOLEAN
      /\ picking' = picking \/ picking' \in BOOLEAN
  <2>1. CASE IoHandler
    <3>1. /\ menuOpen' = menuOpen \/ menuOpen' = FALSE
          /\ picking' = picking \/ picking' = ~picking
      BY <2>1, Zenon DEF IoHandler, modalVars
    <3> QED BY <3>1, Zenon
  <2>2. CASE Key
    BY <2>2, Zenon DEF Key
  <2> QED BY <2>1, <2>2, Zenon DEF BesidesTouches, NoEvent, TimePasses, LiftUnseen, modalVars
<1>8. menuOpen' \in BOOLEAN /\ picking' \in BOOLEAN
  BY <1>0, <1>7, Zenon DEF OtherTypes
<1>9. held' \in BOOLEAN /\ due' \in BOOLEAN /\ pollFast' \in BOOLEAN
  <2>1. (held' = held \/ held' = TRUE) /\ (due' = due \/ due' = TRUE)
    BY DEF BesidesTouches, IoHandler, Key, NoEvent, TimePasses, LiftUnseen, gestureVars
  <2> QED BY <1>0, <1>3, <2>1, Zenon DEF OtherTypes
<1> QED BY <1>0, <1>2, <1>3, <1>4, <1>5, <1>6, <1>8, <1>9, Zenon
        DEF TypeOK, TabsTyped, DragType, SentType

LEMMA NextCases ==
  ASSUME Next
  PROVE  \/ BesidesTouches \/ TouchDown \/ TouchUp \/ Tick
         \/ \E x \in PosX, y \in PosY : TouchMove(x, y)
  BY Zenon DEF Next, BesidesTouches

LEMMA Idle ==
  ASSUME UNCHANGED vars
  PROVE  UNCHANGED <<at, active, nextId, menuOpen, picking, fingers, drag, held, due,
                     pollFast, phase, sent, latched, did, anchor, scrolled>>
  BY DEF vars, tabVars, modalVars, gestureVars, historyVars

LEMMA TypesStep == TypeOK /\ [Next]_vars => TypeOK'
<1>1. ASSUME TypeOK, Next PROVE TypeOK'
  BY <1>1, NextCases, BesidesTyped, DownTyped, UpTyped, TickTyped, MoveTyped
<1>2. ASSUME TypeOK, UNCHANGED vars PROVE TypeOK'
  BY <1>2, Idle, Zenon DEF TypeOK, Live
<1> QED BY <1>1, <1>2

LEMMA TypesInit == Init => TypeOK
<1> SUFFICES ASSUME Init PROVE TypeOK
  OBVIOUS
<1>1. PICK a \in Addr : active = a /\ at = [b \in Addr |-> IF b = a THEN 1 ELSE 0]
  BY DEF Init
<1>2. MaxId \in Nat \ {0} /\ MaxFingers \in Nat \ {0}
  BY GestureAssumption
<1>3. at \in [Addr -> 0 .. MaxId] /\ at[a] = 1
  BY <1>1, <1>2
<1>4. TabsTyped
  BY <1>1, <1>2, <1>3 DEF Init, TabsTyped, Live
<1>5. drag \in DragType
  BY NoDragTyped DEF Init
<1>6. sent \in SentType
  BY <1>2 DEF Init, Nothing, SentType
<1>7. menuOpen \in BOOLEAN /\ picking \in BOOLEAN /\ held \in BOOLEAN /\ due \in BOOLEAN
      /\ pollFast \in BOOLEAN
  BY Zenon DEF Init
<1>8. /\ fingers \in 0 .. MaxFingers /\ phase \in {"event", "tick"}
      /\ latched \in 0 .. MaxId /\ did \subseteq {"arrow", "scroll"}
      /\ anchor \in Int /\ scrolled \in Int
  BY <1>2 DEF Init
<1> QED BY <1>4, <1>5, <1>6, <1>7, <1>8, TypeParts, Zenon DEF OtherTypes

-----------------------------------------------------------------------------
(* Where the latched session is                                            *)

\* A session keeps its address while it lives and its id is given to no other,
\* so what is said of a pointer and an id goes on being true.
LEMMA TabsKeepMemory ==
  ASSUME TypeOK, UniqueIds, IdsBelow, TabChange \/ UNCHANGED tabVars
  PROVE  /\ UniqueIds' /\ IdsBelow'
         /\ \A o, id : Pinned(o, id) => Pinned(o, id)'
<1>0. at \in [Addr -> 0 .. MaxId] /\ nextId \in 1 .. MaxId + 1 /\ MaxId \in Nat
  BY GestureAssumption DEF TypeOK
<1>1. CASE OpenTab
  <2>1. PICK b \in Addr \ Live : at' = [at EXCEPT ![b] = nextId]
    BY <1>1 DEF OpenTab
  <2>2. nextId' = nextId + 1 /\ nextId # 0 /\ at[b] = 0
    BY <1>0, <1>1, <2>1 DEF OpenTab, Live
  <2>3. \A a \in Addr : at'[a] = IF a = b THEN nextId ELSE at[a]
    BY <1>0, <2>1
  <2>4. \A a \in Addr : at[a] \in Nat /\ at[a] < nextId
    BY <1>0 DEF IdsBelow
  <2>5. IdsBelow'
    BY <1>0, <2>2, <2>3, <2>4 DEF IdsBelow
  <2>6. UniqueIds'
    BY <1>0, <2>3, <2>4 DEF UniqueIds
  <2>7. ASSUME NEW o, NEW id, Pinned(o, id) PROVE Pinned(o, id)'
    <3>1. o \in Addr /\ id \in 1 .. nextId - 1 /\ id # 0 /\ id # nextId
      BY <1>0, <2>7 DEF Pinned
    <3>2. id \in 1 .. nextId' - 1
      BY <1>0, <2>2, <3>1
    <3>3. ASSUME NEW a \in Addr, at'[a] = id PROVE at'[o] = id
      <4>1. at[a] = id
        BY <2>3, <3>1, <3>3
      <4>2. at[o] = id
        BY <2>7, <4>1 DEF Pinned
      <4> QED BY <2>2, <2>3, <3>1, <4>2
    <3> QED BY <3>1, <3>2, <3>3 DEF Pinned
  <2> QED BY <2>5, <2>6, <2>7
<1>2. CASE CloseTab
  <2>1. PICK b \in Live : at' = [at EXCEPT ![b] = 0]
    BY <1>2 DEF CloseTab
  <2>2. nextId' = nextId /\ at[b] # 0 /\ b \in Addr
    BY <1>2, <2>1 DEF CloseTab, Live
  <2>3. \A a \in Addr : at'[a] = IF a = b THEN 0 ELSE at[a]
    BY <1>0, <2>1
  <2>4. IdsBelow' /\ UniqueIds'
    BY <1>0, <2>2, <2>3 DEF IdsBelow, UniqueIds
  <2>5. ASSUME NEW o, NEW id, Pinned(o, id) PROVE Pinned(o, id)'
    <3>1. o \in Addr /\ id \in 1 .. nextId - 1 /\ id # 0
      BY <1>0, <2>5 DEF Pinned
    <3>2. ASSUME NEW a \in Addr, at'[a] = id PROVE at'[o] = id
      <4>1. at[a] = id /\ a # b
        BY <2>3, <3>1, <3>2
      <4>2. at[o] = id
        BY <2>5, <4>1 DEF Pinned
      <4>3. o = a
        BY <3>1, <4>1, <4>2 DEF UniqueIds
      <4> QED BY <3>2, <4>3
    <3> QED BY <2>2, <3>1, <3>2 DEF Pinned
  <2> QED BY <2>4, <2>5
<1>3. CASE SwitchTab \/ UNCHANGED tabVars
  <2>1. at' = at /\ nextId' = nextId
    BY <1>3 DEF SwitchTab, tabVars
  <2> QED BY <2>1 DEF IdsBelow, UniqueIds, Pinned
<1> QED BY <1>1, <1>2, <1>3 DEF TabChange

\* Only TOUCH_DOWN latches a session, the active one, and only drag_reset
\* lets go of it.
LEMMA PointerMoves ==
  ASSUME TypeOK, Next
  PROVE  /\ TabChange \/ UNCHANGED tabVars
         /\ \/ drag'.origin = NoAddr
            \/ drag'.origin = drag.origin /\ latched' = latched
            \/ drag'.origin = active /\ latched' = at[active]
<1>0. drag \in DragType
  BY TypeParts
<1>1. CASE BesidesTouches
  BY <1>1 DEF BesidesTouches, IoHandler, Key, NoEvent, TimePasses, LiftUnseen, tabVars,
              gestureVars, historyVars
<1>2. CASE TouchDown
  <2>1. CASE picking
    BY <1>2, <2>1 DEF TouchDown, gestureVars, historyVars
  <2>2. CASE ~picking
    <3>1. StartGesture
      BY <1>2, <2>2, Zenon DEF TouchDown
    <3>2. TabChange \/ UNCHANGED tabVars
      BY <3>1, Zenon DEF StartGesture, MouseDown
    <3>3. drag'.origin = active /\ latched' = at[active]
      BY <3>1 DEF StartGesture, NoDrag
    <3> QED BY <3>2, <3>3
  <2> QED BY <2>1, <2>2
<1>3. CASE TouchUp
  <2>1. UNCHANGED tabVars /\ latched' = latched
    BY <1>3 DEF TouchUp, historyVars
  <2>2. drag' = drag \/ drag' = NoDrag
    BY <1>3, Zenon DEF TouchUp, gestureVars, DragReset
  <2> QED BY <2>1, <2>2 DEF NoDrag
<1>4. CASE Tick
  <2>1. UNCHANGED tabVars /\ latched' = latched
    BY <1>4, Zenon DEF Tick
  <2>2. \/ drag' = drag \/ drag' = NoDrag
        \/ drag' = [drag EXCEPT !.mode = "ARROW", !.dir = ArrowDir(drag.x, drag.y)]
    BY <1>4, Zenon DEF Tick, PadLosesTab, PadRepeats, PadArms, TickIdle, gestureVars, DragReset
  <2>3. NoDrag.origin = NoAddr
    BY DEF NoDrag
  <2>4. CASE drag' = [drag EXCEPT !.mode = "ARROW", !.dir = ArrowDir(drag.x, drag.y)]
    <3>1. drag'.origin = drag.origin
      BY <1>0, <2>4 DEF DragType
    <3> QED BY <2>1, <3>1
  <2> QED BY <2>1, <2>2, <2>3, <2>4
<1>5. CASE \E x \in PosX, y \in PosY : TouchMove(x, y)
  <2>1. PICK x \in PosX, y \in PosY : TouchMove(x, y)
    BY <1>5
  <2>2. drag'.origin = drag.origin
    BY <1>0, <2>1 DEF TouchMove, MovePad, MoveIgnored, MoveStill, MoveScroll, DragType
  <2> QED BY <2>1, <2>2 DEF TouchMove
<1> QED BY <1>1, <1>2, <1>3, <1>4, <1>5, NextCases

LEMMA MemoryStep == TypeOK /\ Memory /\ [Next]_vars => Memory'
<1>1. ASSUME TypeOK, Memory, Next PROVE Memory'
  <2>1. UniqueIds /\ IdsBelow /\ OriginKnown
    BY <1>1 DEF Memory
  <2>2. UniqueIds' /\ IdsBelow' /\ \A o, id : Pinned(o, id) => Pinned(o, id)'
    BY <1>1, <2>1, PointerMoves, TabsKeepMemory
  <2>3. Pinned(active, at[active])
    <3>1. active \in Addr /\ at[active] # 0 /\ at[active] \in Nat /\ at[active] < nextId
          /\ nextId \in Nat
      BY <1>1, <2>1, GestureAssumption DEF TypeOK, Live, IdsBelow
    <3> QED BY <3>1 DEF Pinned
  <2>4. OriginKnown'
    <3>1. CASE drag'.origin = NoAddr
      BY <3>1 DEF OriginKnown
    <3>2. CASE drag'.origin = drag.origin /\ latched' = latched
      <4>1. drag.origin # NoAddr => Pinned(drag.origin, latched)'
        <5> SUFFICES ASSUME drag.origin # NoAddr PROVE Pinned(drag.origin, latched)'
          OBVIOUS
        <5>1. PICK o, id : o = drag.origin /\ id = latched
          OBVIOUS
        <5>2. Pinned(o, id)'
          BY <2>1, <2>2, <5>1 DEF OriginKnown
        <5> QED BY <3>2, <5>1, <5>2 DEF Pinned
      <4> QED BY <3>2, <4>1 DEF OriginKnown
    <3>3. CASE drag'.origin = active /\ latched' = at[active]
      <4>1. PICK o, id : o = active /\ id = at[active]
        OBVIOUS
      <4>2. Pinned(o, id)'
        BY <2>2, <2>3, <4>1
      <4> QED BY <3>3, <4>1, <4>2 DEF OriginKnown, Pinned
    <3> QED BY <1>1, <3>1, <3>2, <3>3, PointerMoves
  <2> QED BY <2>2, <2>4 DEF Memory
<1>2. ASSUME Memory, UNCHANGED vars PROVE Memory'
  BY <1>2, Idle DEF Memory, UniqueIds, IdsBelow, OriginKnown, Pinned
<1> QED BY <1>1, <1>2

-----------------------------------------------------------------------------
(* What is sent, and what a gesture has done                               *)

\* What a step sends goes to the live session at the latched address.
LEMMA SendsToOrigin ==
  ASSUME TypeOK, Next, sent'.what \in {"arrow", "scroll"}
  PROVE  OriginLives /\ sent'.to = at[drag.origin] /\ at' = at /\ latched' = latched
<1> DEFINE Sent == OriginLives /\ sent'.to = at[drag.origin]
<1>0. sent' # Nothing
  BY DEF Nothing
<1>1. ASSUME NEW d, ArrowEmit(d) PROVE Sent
  <2>1. OriginLives /\ sent' = [what |-> "arrow", to |-> at[drag.origin]]
    BY <1>0, <1>1, Zenon DEF ArrowEmit
  <2> QED BY <2>1
<1>2. CASE \E x \in PosX, y \in PosY : TouchMove(x, y)
  <2>1. PICK x \in PosX, y \in PosY : TouchMove(x, y)
    BY <1>2
  <2>2. ArrowEmit(ArrowDir(x, y)) \/ (MoveScroll(x, y) /\ OriginLives)
    BY <1>0, <2>1, Zenon DEF TouchMove, MovePad, MoveIgnored, MoveStill
  <2>3. ASSUME MoveScroll(x, y), OriginLives PROVE Sent
    <3>1. sent' = [what |-> "scroll", to |-> at[drag.origin]]
      BY <1>0, <2>3, Zenon DEF MoveScroll
    <3> QED BY <2>3, <3>1
  <2>4. at' = at /\ latched' = latched
    BY <2>1 DEF TouchMove, tabVars
  <2> QED BY <1>1, <2>2, <2>3, <2>4
<1>3. CASE Tick
  <2>1. ArrowEmit(drag.dir) \/ ArrowEmit(ArrowDir(drag.x, drag.y))
    BY <1>0, <1>3, Zenon DEF Tick, PadLosesTab, PadRepeats, PadArms, TickIdle
  <2>2. at' = at /\ latched' = latched
    BY <1>3 DEF Tick, tabVars
  <2> QED BY <1>1, <2>1, <2>2
<1>4. CASE BesidesTouches \/ TouchDown
  BY <1>0, <1>4, Zenon DEF BesidesTouches, IoHandler, Key, NoEvent, TimePasses, LiftUnseen, TouchDown
<1>5. CASE TouchUp
  <2>1. sent' = [what |-> "keyboard", to |-> 0]
    BY <1>0, <1>5, Zenon DEF TouchUp
  <2> QED BY <2>1
<1> QED BY <1>2, <1>3, <1>4, <1>5, NextCases

LEMMA OutputStep ==
  /\ TypeOK /\ NoDanglingOrigin /\ [Next]_vars => NoDanglingOrigin'
  /\ TypeOK /\ Memory /\ EmitsToLatchedTab /\ [Next]_vars => EmitsToLatchedTab'
<1>1. ASSUME TypeOK, Next PROVE NoDanglingOrigin'
  BY <1>1, SendsToOrigin DEF NoDanglingOrigin, OriginLives, Live
<1>2. ASSUME TypeOK, Memory, Next PROVE EmitsToLatchedTab'
  <2> SUFFICES ASSUME sent'.what \in {"arrow", "scroll"}, NEW a \in Addr, at'[a] = latched'
               PROVE  sent'.to = latched'
    BY DEF EmitsToLatchedTab
  <2>1. OriginLives /\ sent'.to = at[drag.origin] /\ at[a] = latched /\ latched' = latched
    BY <1>2, SendsToOrigin
  <2>2. drag.origin # NoAddr
    BY <2>1, GestureAssumption DEF OriginLives, Live
  <2> QED BY <1>2, <2>1, <2>2 DEF Memory, OriginKnown, Pinned
<1>3. ASSUME UNCHANGED vars
      PROVE  /\ NoDanglingOrigin => NoDanglingOrigin'
             /\ EmitsToLatchedTab => EmitsToLatchedTab'
  BY <1>3, Idle DEF NoDanglingOrigin, EmitsToLatchedTab
<1> QED BY <1>1, <1>2, <1>3

\* Nothing that is sent is the keyboard unless a tap ends.
LEMMA HistoryOfRest ==
  ASSUME TypeOK, History, BesidesTouches
  PROVE  History'
<1>1. drag' = drag /\ UNCHANGED historyVars /\ sent' = Nothing
  BY Zenon DEF BesidesTouches, IoHandler, Key, NoEvent, TimePasses, LiftUnseen, gestureVars
<1> QED BY <1>1 DEF historyVars, Nothing, History, ModeKnowsPast, ScrollsOrTypes,
                    KeyboardOnlyOnTap, ScrollFollowsFinger

LEMMA HistoryOfDown ==
  ASSUME TypeOK, History, TouchDown
  PROVE  History'
<1>1. sent' = Nothing
  BY Zenon DEF TouchDown
<1>2. CASE picking
  BY <1>1, <1>2 DEF TouchDown, gestureVars, historyVars, Nothing, History, ModeKnowsPast,
                    ScrollsOrTypes, KeyboardOnlyOnTap, ScrollFollowsFinger
<1>3. CASE ~picking
  <2>1. StartGesture
    BY <1>3, Zenon DEF TouchDown
  <2>2. PICK m \in LatchedMode :
          drag' = [NoDrag EXCEPT !.mode = m, !.eligible = ~menuOpen, !.origin = active]
    BY <2>1, Zenon DEF StartGesture
  <2>3. drag'.mode = m /\ drag'.committed = FALSE /\ drag'.accum = 0
    BY <2>2 DEF NoDrag
  <2>4. did' = {} /\ scrolled' = 0
    BY <2>1 DEF StartGesture
  <2>5. m \notin {"IDLE", "ARROW"}
    BY DEF LatchedMode
  <2> QED BY <1>1, <2>3, <2>4, <2>5 DEF Nothing, History, ModeKnowsPast, ScrollsOrTypes,
                                      KeyboardOnlyOnTap, ScrollFollowsFinger
<1> QED BY <1>2, <1>3

LEMMA HistoryOfUp ==
  ASSUME TypeOK, History, TouchUp
  PROVE  History'
<1>1. UNCHANGED historyVars
  BY Zenon DEF TouchUp
<1>2. KeyboardOnlyOnTap'
  <2>1. sent' = Nothing \/ IsTap
    BY Zenon DEF TouchUp
  <2>2. IsTap => did = {}
    BY DEF IsTap, History, ModeKnowsPast, TypeOK
  <2> QED BY <1>1, <2>1, <2>2 DEF KeyboardOnlyOnTap, historyVars, Nothing
<1>3. drag' = drag \/ drag' = NoDrag
  BY Zenon DEF TouchUp, gestureVars, DragReset
<1>4. ModeKnowsPast' /\ ScrollsOrTypes' /\ ScrollFollowsFinger'
  BY <1>1, <1>3 DEF historyVars, NoDrag, History, ModeKnowsPast, ScrollsOrTypes, ScrollFollowsFinger
<1> QED BY <1>2, <1>4 DEF History

\* The pad arms only from a gesture that has not scrolled, and types only as
\* a pad.
LEMMA HistoryOfTick ==
  ASSUME TypeOK, History, Tick
  PROVE  History'
<1>0. drag \in DragType
  BY TypeParts
<1>1. scrolled' = scrolled /\ anchor' = anchor
  BY Zenon DEF Tick
<1>2. ASSUME NEW d, ArrowEmit(d)
      PROVE  (did' = did \/ did' = did \cup {"arrow"}) /\ sent'.what # "keyboard"
  <2>1. CASE sent' = Nothing /\ did' = did
    BY <2>1 DEF Nothing
  <2>2. CASE sent' = [what |-> "arrow", to |-> at[drag.origin]] /\ did' = did \cup {"arrow"}
    BY <2>2
  <2> QED BY <1>2, <2>1, <2>2, Zenon DEF ArrowEmit
<1>3. CASE PadLosesTab \/ TickIdle
  <2>1. sent' = Nothing /\ did' = did /\ (drag' = drag \/ drag' = NoDrag)
    BY <1>3, Zenon DEF PadLosesTab, TickIdle, gestureVars, DragReset
  <2> QED BY <1>1, <2>1 DEF Nothing, NoDrag, History, ModeKnowsPast, ScrollsOrTypes,
                            KeyboardOnlyOnTap, ScrollFollowsFinger
<1>4. CASE PadRepeats
  <2>1. drag' = drag /\ drag.mode = "ARROW" /\ ArrowEmit(drag.dir)
    BY <1>4, Zenon DEF PadRepeats
  <2>2. (did' = did \/ did' = did \cup {"arrow"}) /\ sent'.what # "keyboard"
    BY <1>2, <2>1
  <2>3. ~drag.committed /\ "scroll" \notin did
    BY <2>1 DEF History, ModeKnowsPast
  <2> QED BY <1>1, <2>1, <2>2, <2>3 DEF History, ModeKnowsPast, ScrollsOrTypes,
                                        KeyboardOnlyOnTap, ScrollFollowsFinger
<1>5. CASE PadArms
  <2>1. drag' = [drag EXCEPT !.mode = "ARROW", !.dir = ArrowDir(drag.x, drag.y)]
    BY <1>5, Zenon DEF PadArms
  <2>2. MayArm /\ ArrowEmit(ArrowDir(drag.x, drag.y))
    BY <1>5, Zenon DEF PadArms
  <2>3. /\ drag'.mode = "ARROW" /\ drag'.committed = drag.committed
        /\ drag'.accum = drag.accum /\ drag'.y = drag.y
    BY <1>0, <2>1 DEF DragType
  <2>4. (did' = did \/ did' = did \cup {"arrow"}) /\ sent'.what # "keyboard"
    BY <1>2, <2>2
  <2>5. drag.mode # "IDLE" /\ ~drag.committed
    BY <2>2 DEF MayArm, History, ModeKnowsPast
  <2>6. "scroll" \notin did /\ drag.accum = 0 /\ scrolled = 0
    BY <2>5 DEF History, ModeKnowsPast
  <2> QED BY <1>1, <2>3, <2>4, <2>5, <2>6 DEF History, ModeKnowsPast, ScrollsOrTypes,
                                              KeyboardOnlyOnTap, ScrollFollowsFinger
<1> QED BY <1>3, <1>4, <1>5, Zenon DEF Tick

LEMMA HistoryOfMove ==
  ASSUME TypeOK, History, NEW x \in PosX, NEW y \in PosY, TouchMove(x, y)
  PROVE  History'
<1>0. drag \in DragType /\ anchor \in Int /\ scrolled \in Int
  BY TypeParts DEF OtherTypes
<1> DEFINE Still == \/ picking /\ drag' = drag
                    \/ MoveIgnored(x)
                    \/ MoveStill(x, y) /\ ~drag.committed
<1>1. CASE Still
  <2>1. sent' = Nothing /\ UNCHANGED <<did, anchor, scrolled>>
    BY <1>1, Zenon DEF TouchMove, MoveIgnored, MoveStill
  <2>2. \/ drag' = drag \/ drag' = [drag EXCEPT !.x = x]
        \/ drag' = [drag EXCEPT !.x = x, !.y = y] /\ ~drag.committed
    BY <1>1, Zenon DEF MoveIgnored, MoveStill
  <2>3. /\ drag'.mode = drag.mode /\ drag'.committed = drag.committed
        /\ drag'.eligible = drag.eligible /\ drag'.origin = drag.origin
        /\ drag'.accum = drag.accum /\ (drag'.y = drag.y \/ ~drag.committed)
    BY <1>0, <2>2 DEF DragType
  <2> QED BY <2>1, <2>3 DEF Nothing, History, ModeKnowsPast, ScrollsOrTypes,
                            KeyboardOnlyOnTap, ScrollFollowsFinger
<1>2. CASE MovePad(x, y) /\ drag.mode = "ARROW"
  <2>1. drag' = [drag EXCEPT !.x = x, !.y = y, !.dir = ArrowDir(x, y)]
    BY <1>2, Zenon DEF MovePad
  <2>2. /\ drag'.mode = "ARROW" /\ drag'.committed = drag.committed
        /\ drag'.accum = drag.accum
    BY <1>0, <1>2, <2>1 DEF DragType
  <2>3. \/ sent' = Nothing /\ did' = did
        \/ sent' = [what |-> "arrow", to |-> at[drag.origin]] /\ did' = did \cup {"arrow"}
    BY <1>2, Zenon DEF MovePad, ArrowEmit
  <2>4. sent'.what # "keyboard" /\ (did' = did \/ did' = did \cup {"arrow"})
    BY <2>3 DEF Nothing
  <2>5. anchor' = anchor /\ scrolled' = scrolled
    BY <1>2, Zenon DEF MovePad
  <2>6. ~drag.committed /\ "scroll" \notin did /\ drag.accum = 0 /\ scrolled = 0
    BY <1>2 DEF History, ModeKnowsPast
  <2> QED BY <2>2, <2>4, <2>5, <2>6 DEF History, ModeKnowsPast, ScrollsOrTypes,
                                        KeyboardOnlyOnTap, ScrollFollowsFinger
<1>3. CASE MoveScroll(x, y) /\ drag.mode \notin {"IDLE", "ARROW"}
  <2> DEFINE sum  == drag.accum + y - drag.y
             rows == Quotient(sum, TextHeight)
             rest == sum - rows * TextHeight
  <2>1. /\ drag' = [drag EXCEPT !.x = x, !.y = y, !.committed = TRUE, !.accum = rest]
        /\ anchor' = (IF drag.committed THEN anchor ELSE drag.y)
        /\ scrolled' = scrolled + rows
    BY <1>3, Zenon DEF MoveScroll
  <2>2. \/ sent' = Nothing /\ did' = did
        \/ sent' = [what |-> "scroll", to |-> at[drag.origin]] /\ did' = did \cup {"scroll"}
    BY <1>3, Zenon DEF MoveScroll
  <2>3. y \in Int /\ drag.y \in Int /\ drag.accum \in Int
    BY <1>0, PositionsAreIntegers
  <2>4. rows \in Int
    BY <2>3, RestOfDrag
  <2>5. rest = drag.accum + y - drag.y - rows * 2 /\ rest \in Int
    BY <2>3, <2>4 DEF TextHeight
  <2> HIDE DEF sum, rows, rest
  <2>6. /\ drag'.mode = drag.mode /\ drag'.committed = TRUE
        /\ drag'.accum = rest /\ drag'.y = y
    BY <1>0, <2>1 DEF DragType
  <2>7. ScrollFollowsFinger'
    <3>1. drag.committed => scrolled * 2 + drag.accum = drag.y - anchor
      BY DEF History, ScrollFollowsFinger, TextHeight
    <3>2. ~drag.committed => scrolled = 0 /\ drag.accum = 0
      BY <1>3 DEF History, ModeKnowsPast
    <3>3. scrolled' * 2 + rest = y - anchor'
      <4>0. scrolled' = scrolled + rows
        BY <2>1, Zenon
      <4>1. CASE drag.committed
        <5>1. anchor' = anchor
          BY <2>1, <4>1, Zenon
        <5>2. scrolled * 2 + drag.accum = drag.y - anchor
          BY <3>1, <4>1, Zenon
        <5> QED BY <1>0, <2>3, <2>4, <2>5, <4>0, <5>1, <5>2
      <4>2. CASE ~drag.committed
        <5>1. anchor' = drag.y
          BY <2>1, <4>2, Zenon
        <5>2. scrolled = 0 /\ drag.accum = 0
          BY <3>2, <4>2, Zenon
        <5> QED BY <1>0, <2>3, <2>4, <2>5, <4>0, <5>1, <5>2
      <4> QED BY <4>1, <4>2
    <3> QED BY <2>6, <3>3 DEF ScrollFollowsFinger, TextHeight
  <2>8. "arrow" \notin did
    BY <1>3 DEF History, ModeKnowsPast
  <2>9. sent'.what # "keyboard" /\ (did' = did \/ did' = did \cup {"scroll"})
    BY <2>2 DEF Nothing
  <2>10. ScrollsOrTypes' /\ KeyboardOnlyOnTap'
    BY <2>8, <2>9 DEF ScrollsOrTypes, KeyboardOnlyOnTap
  <2>11. ModeKnowsPast'
    BY <1>3, <2>6, <2>8, <2>9 DEF ModeKnowsPast
  <2> QED BY <2>7, <2>10, <2>11 DEF History
<1>4. \/ Still
      \/ MovePad(x, y) /\ drag.mode = "ARROW"
      \/ MoveScroll(x, y) /\ drag.mode \notin {"IDLE", "ARROW"}
  BY DEF TouchMove
<1> HIDE DEF Still
<1> QED BY <1>1, <1>2, <1>3, <1>4

LEMMA HistoryStep == TypeOK /\ History /\ [Next]_vars => History'
<1>1. ASSUME TypeOK, History, Next PROVE History'
  BY <1>1, NextCases, HistoryOfRest, HistoryOfDown, HistoryOfUp, HistoryOfTick, HistoryOfMove
<1>2. ASSUME History, UNCHANGED vars PROVE History'
  BY <1>2, Idle DEF History, ModeKnowsPast, ScrollsOrTypes, KeyboardOnlyOnTap, ScrollFollowsFinger
<1> QED BY <1>1, <1>2

-----------------------------------------------------------------------------
(* The theorems                                                            *)

LEMMA GestureInvInit == Init => GestureInv
<1> SUFFICES ASSUME Init PROVE GestureInv
  OBVIOUS
<1>1. TypeOK
  BY TypesInit
<1>2. PICK a \in Addr : at = [b \in Addr |-> IF b = a THEN 1 ELSE 0]
  BY DEF Init
<1>3. drag.origin = NoAddr /\ drag.mode = "IDLE" /\ drag.committed = FALSE
      /\ drag.eligible = FALSE /\ nextId = 2 /\ sent.what = "none" /\ did = {}
  BY DEF Init, NoDrag, Nothing
<1>4. Memory
  BY <1>2, <1>3 DEF Memory, UniqueIds, IdsBelow, OriginKnown
<1>5. History
  BY <1>3 DEF History, ModeKnowsPast, ScrollsOrTypes, KeyboardOnlyOnTap, ScrollFollowsFinger
<1>6. NoDanglingOrigin /\ EmitsToLatchedTab
  BY <1>3 DEF NoDanglingOrigin, EmitsToLatchedTab
<1> QED BY <1>1, <1>4, <1>5, <1>6 DEF GestureInv

LEMMA Invariance == Spec => []GestureInv
<1>1. GestureInv /\ [Next]_vars => GestureInv'
  BY TypesStep, MemoryStep, HistoryStep, OutputStep DEF GestureInv
<1> QED BY <1>1, GestureInvInit, PTL DEF Spec

\* Every variable stays in its type, and a drag that goes back and forth never
\* leaves a whole line waiting in accum_dy.
THEOREM TypeCorrect == Spec => []TypeOK
<1>1. GestureInv => TypeOK
  BY DEF GestureInv
<1> QED BY <1>1, Invariance, PTL

\* What a gesture sends goes to a session that exists, whatever was closed in
\* the middle of it (arrow_emit's and TOUCH_MOVE's look-up of the pointer).
THEOREM NothingDangles == Spec => []NoDanglingOrigin
<1>1. GestureInv => NoDanglingOrigin
  BY DEF GestureInv
<1> QED BY <1>1, Invariance, PTL

\* While the session of TOUCH_DOWN lives it gets all that the gesture sends:
\* no switch of tabs and no reuse of memory leads it astray (main.c:945).
THEOREM LatchHolds == Spec => []EmitsToLatchedTab
<1>1. GestureInv => EmitsToLatchedTab
  BY DEF GestureInv
<1> QED BY <1>1, Invariance, PTL

\* A gesture scrolls or types and never both, whenever the hold timer expires
\* (gesture_tick's `committed`).
THEOREM NeverBoth == Spec => []ScrollsOrTypes
<1>1. GestureInv => ScrollsOrTypes
  BY DEF GestureInv, History
<1> QED BY <1>1, Invariance, PTL

\* The keyboard comes only when a finger goes that did nothing (TOUCH_UP).
THEOREM KeyboardIsForTaps == Spec => []KeyboardOnlyOnTap
<1>1. GestureInv => KeyboardOnlyOnTap
  BY DEF GestureInv, History
<1> QED BY <1>1, Invariance, PTL

\* Lines and rest of a drag add up to the finger's way (TOUCH_MOVE's accum_dy),
\* for all positions.
THEOREM NoLineIsLost == Spec => []ScrollFollowsFinger
<1>1. GestureInv => ScrollFollowsFinger
  BY DEF GestureInv, History
<1> QED BY <1>1, Invariance, PTL
=============================================================================
