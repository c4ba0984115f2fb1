-------------------------- MODULE ScreenLayoutProofs --------------------------
(***************************************************************************)
(* What holds of the layout for any number of tabs, any screens, fonts,    *)
(* menus and keyboards.                                                    *)
(*                                                                         *)
(* LayoutInv is inductive: GridsAgree needs the types of the sizes,        *)
(* PadFollowsTabs that a line has a height, and GridOnScreen a fact on     *)
(* integer division (RowsFit).                                             *)
(***************************************************************************)
EXTENDS ScreenLayout, SequenceTheorems, TLAPS

\* The loop runs only while there is a tab.
TabsWhileLooping == tabs = {} => exitApplication

LayoutInv == TypeOK /\ TabsWhileLooping /\ GridsAgree /\ PadFollowsTabs /\ GridOnScreen

\* GridOnScreen of any grid, pad, font and height.
Fits(g, pad, f, h) == pad + LineHeight[f] <= h => pad + g.rows * LineHeight[f] <= h

\* GridsAgree of any font and tabs, as a step leaves it.
AgreeNext(f, ts) ==
  \A t \in ts : bridge'[t] = SizeOf(grid', f) /\ tty'[t] = TtySizeOf(grid')

SizesTypedNext ==
  /\ grid' \in [rows : Nat \ {0}, cols : Nat]
  /\ bridge' \in [Tab -> Size] /\ tty' \in [Tab -> Size]

-----------------------------------------------------------------------------
(* The grid                                                                *)

\* As many whole lines as a height has room for do not exceed it.
LEMMA WholeLines ==
  ASSUME NEW a \in Nat, NEW b \in Nat \ {0}
  PROVE  /\ a \div b \in Nat
         /\ (a \div b) * b <= a
         /\ a >= b => a \div b # 0
         /\ a = b => a \div b = 1
  BY Z3

\* What GridFor counts fits between the pad and the height, or is one row.
LEMMA RowsFit ==
  ASSUME NEW w \in Nat, NEW h \in Int, NEW pad \in Nat, NEW f \in FontSize
  PROVE  /\ GridFor(w, h, pad, f) \in [rows : Nat \ {0}, cols : Nat]
         /\ \/ h - pad >= LineHeight[f]
               /\ pad + GridFor(w, h, pad, f).rows * LineHeight[f] <= h
            \/ GridFor(w, h, pad, f).rows = 1
<1> DEFINE th == LineHeight[f]
           cw == CellWidth[f]
           u  == Larger(h - pad, th)
<1>1. th \in Nat \ {0} /\ cw \in Nat \ {0}
  BY LayoutAssumption
<1>2. u \in Nat /\ u >= th /\ (u = h - pad \/ u = th)
  BY <1>1 DEF Larger
<1>3. u \div th \in Nat /\ (u \div th) * th <= u /\ u \div th # 0 /\ (u = th => u \div th = 1)
  BY <1>1, <1>2, WholeLines
<1>4. w \div cw \in Nat
  BY <1>1, WholeLines
<1>5. GridFor(w, h, pad, f) = [rows |-> u \div th, cols |-> w \div cw]
  BY DEF GridFor
<1> HIDE DEF th, cw, u
<1>6. CASE u = th
  BY <1>3, <1>4, <1>5, <1>6
<1>7. CASE u = h - pad
  <2>1. h - pad >= th /\ pad + (u \div th) * th <= h
    <3> DEFINE d == (u \div th) * th
    <3>1. d <= u /\ d \in Int
      BY <1>1, <1>3
    <3> HIDE DEF d
    <3>2. pad + d <= h
      BY <3>1, <1>7
    <3> QED BY <3>2, <1>7, <1>2 DEF d
  <2> QED BY <2>1, <1>3, <1>4, <1>5 DEF th
<1> QED BY <1>2, <1>6, <1>7

\* A grid counted for a part of the screen fits on the screen.
LEMMA PartFits ==
  ASSUME NEW w \in Nat, NEW h \in Int, NEW pad \in Nat, NEW f \in FontSize,
         NEW H \in Nat, h <= H
  PROVE  Fits(GridFor(w, h, pad, f), pad, f, H)
<1>1. LineHeight[f] \in Nat \ {0}
  BY LayoutAssumption
<1> DEFINE g == GridFor(w, h, pad, f)
<1>2. /\ g.rows \in Nat
      /\ \/ pad + g.rows * LineHeight[f] <= h
         \/ g.rows = 1
  BY RowsFit
<1> DEFINE d == g.rows * LineHeight[f]
<1>3. d \in Int /\ (g.rows = 1 => d = LineHeight[f])
  BY <1>1, <1>2
<1> SUFFICES pad + LineHeight[f] <= H => pad + d <= H
  BY DEF Fits
<1> HIDE DEF d, g
<1>4. pad + d <= h \/ d = LineHeight[f]
  BY <1>2, <1>3 DEF d
<1> QED BY <1>1, <1>3, <1>4

-----------------------------------------------------------------------------
(* setup_screen_size                                                       *)

\* A size a session is given has the type of one.
LEMMA SizesTyped ==
  ASSUME NEW g \in [rows : Nat \ {0}, cols : Nat], NEW f \in FontSize
  PROVE  SizeOf(g, f) \in Size /\ TtySizeOf(g) \in Size /\ NoSize \in Size
<1>1. LineHeight[f] \in Nat
  BY LayoutAssumption
<1> QED BY <1>1 DEF SizeOf, TtySizeOf, NoSize, Size

\* A call that is not refused reaches every session.
LEMMA SetupReachesAll ==
  ASSUME NEW w \in Nat, NEW h \in Int, NEW pad \in Nat, NEW f \in FontSize,
         NEW ts \in SUBSET Tab,
         ~Refused(w, h), SetupScreenSize(w, h, pad, f, ts)
  PROVE  grid' = GridFor(w, h, pad, f) /\ SizesTypedNext /\ AgreeNext(f, ts)
<1>1. /\ grid' = GridFor(w, h, pad, f)
      /\ bridge' = [t \in Tab |-> IF t \in ts THEN SizeOf(grid', f) ELSE NoSize]
      /\ tty' = [t \in Tab |-> IF t \in ts THEN TtySizeOf(grid') ELSE NoSize]
  BY DEF SetupScreenSize
<1>2. grid' \in [rows : Nat \ {0}, cols : Nat]
  BY <1>1, RowsFit
<1>3. SizeOf(grid', f) \in Size /\ TtySizeOf(grid') \in Size /\ NoSize \in Size
  BY <1>2, SizesTyped
<1>4. SizesTypedNext
  BY <1>1, <1>2, <1>3 DEF SizesTypedNext
<1>5. AgreeNext(f, ts)
  BY <1>1 DEF AgreeNext
<1> QED BY <1>1, <1>4, <1>5

\* Keeping the sizes of the tabs that stay keeps them in agreement.
LEMMA KeptSizesAgree ==
  ASSUME TypeOK, GridsAgree, NEW ts \in SUBSET tabs, KeepSizes(ts)
  PROVE  grid' = grid /\ SizesTypedNext /\ AgreeNext(face, ts)
<1>1. NoSize \in Size
  BY DEF NoSize, Size
<1>2. SizesTypedNext
  BY <1>1 DEF TypeOK, KeepSizes, SizesTypedNext
<1>3. AgreeNext(face, ts)
  BY DEF TypeOK, KeepSizes, GridsAgree, AgreeNext
<1> QED BY <1>2, <1>3 DEF KeepSizes

\* Refused or not, a call for a part of the screen that changes neither pad
\* nor font keeps the layout in order.
LEMMA SetupOfPart ==
  ASSUME LayoutInv, NEW h \in Int, h <= fb[2],
         SetupScreenSize(fb[1], h, gridTopPad, face, tabs)
  PROVE  SizesTypedNext /\ AgreeNext(face, tabs) /\ Fits(grid', gridTopPad, face, fb[2])
<1>1. /\ fb[1] \in Nat /\ fb[2] \in Nat /\ gridTopPad \in Nat /\ face \in FontSize
      /\ tabs \in SUBSET Tab /\ TypeOK /\ GridsAgree
  BY LayoutAssumption DEF LayoutInv, TypeOK
<1>2. CASE Refused(fb[1], h)
  <2>1. KeepSizes(tabs)
    BY <1>2 DEF SetupScreenSize
  <2>2. grid' = grid /\ SizesTypedNext /\ AgreeNext(face, tabs)
    BY <1>1, <2>1, KeptSizesAgree
  <2>3. Fits(grid, gridTopPad, face, fb[2])
    BY DEF LayoutInv, GridOnScreen, Fits, Bottom, TextHeight
  <2> QED BY <2>2, <2>3
<1>3. CASE ~Refused(fb[1], h)
  <2>1. grid' = GridFor(fb[1], h, gridTopPad, face) /\ SizesTypedNext /\ AgreeNext(face, tabs)
    BY <1>1, <1>3, SetupReachesAll
  <2>2. Fits(GridFor(fb[1], h, gridTopPad, face), gridTopPad, face, fb[2])
    BY <1>1, PartFits
  <2> QED BY <2>1, <2>2
<1> QED BY <1>2, <1>3

\* The tab strip's layout, when it changes the pad.
LEMMA StripLaidOut ==
  ASSUME LayoutInv, NEW ts \in SUBSET Tab, ApplyTabStripLayout(ts),
         gridTopPad # IF Several(ts) THEN TextHeight ELSE 0
  PROVE  /\ SizesTypedNext /\ AgreeNext(face, ts)
         /\ gridTopPad' = IF Several(ts) THEN TextHeight ELSE 0
         /\ Fits(grid', gridTopPad', face, fb[2])
<1> DEFINE want == IF Several(ts) THEN TextHeight ELSE 0
<1>1. /\ fb[1] \in Nat /\ fb[2] \in Nat /\ face \in FontSize /\ want \in Nat
      /\ ~Refused(fb[1], fb[2])
  BY LayoutAssumption DEF LayoutInv, TypeOK, TextHeight, Refused
<1>2. gridTopPad' = want /\ SetupScreenSize(fb[1], fb[2], want, face, ts)
  BY DEF ApplyTabStripLayout
<1> HIDE DEF want
<1>3. grid' = GridFor(fb[1], fb[2], want, face) /\ SizesTypedNext /\ AgreeNext(face, ts)
  BY <1>1, <1>2, SetupReachesAll
<1>4. Fits(GridFor(fb[1], fb[2], want, face), want, face, fb[2])
  BY <1>1, PartFits
<1> QED BY <1>2, <1>3, <1>4 DEF want

\* rescreen, with any font and on any screen.
LEMMA RescreenKeepsOrder ==
  ASSUME LayoutInv, NEW w, NEW h, <<w, h>> \in Screen,
         NEW f \in FontSize \cup {MinFontSize - 1}, ~exitApplication,
         Rescreen(w, h, f)
  PROVE  /\ SizesTypedNext /\ face' \in FontSize /\ AgreeNext(face', tabs)
         /\ fb' \in Screen /\ exitApplication' \in BOOLEAN
         /\ Fits(grid', gridTopPad, face', fb'[2])
<1>1. /\ w \in Nat /\ h \in Nat /\ ~Refused(w, h) /\ gridTopPad \in Nat
      /\ tabs \in SUBSET Tab /\ keyboard.height \in Nat /\ face \in FontSize
  <2>1. w \in Nat \ {0, 1} /\ h \in Nat \ {0, 1}
    BY LayoutAssumption
  <2>2. ~Refused(w, h)
    BY <2>1 DEF Refused
  <2>3. keyboard.height \in KeyboardHeight
    BY DEF LayoutInv, TypeOK
  <2> QED BY <2>1, <2>2, <2>3, LayoutAssumption DEF LayoutInv, TypeOK
<1>2. Loadable(f) \subseteq FontSize
  BY LayoutAssumption DEF Loadable, FontSize
<1>3. PICK loaded \in Loadable(f) \cup {face}, ok \in BOOLEAN :
        /\ face' = loaded /\ fb' = <<w, h>> /\ exitApplication' = ~ok
        /\ SetupScreenSize(w, HeightLeft(w, h), gridTopPad, loaded, tabs)
  BY DEF Rescreen
<1>4. loaded \in FontSize
  BY <1>1, <1>2
<1> DEFINE left == HeightLeft(w, h)
<1>5. left \in Int /\ left <= h /\ ~Refused(w, left)
  BY <1>1 DEF HeightLeft
<1> HIDE DEF left
<1>6. SetupScreenSize(w, left, gridTopPad, loaded, tabs)
  BY <1>3 DEF left
<1>7. grid' = GridFor(w, left, gridTopPad, loaded) /\ SizesTypedNext /\ AgreeNext(loaded, tabs)
  BY <1>1, <1>4, <1>5, <1>6, SetupReachesAll
<1>8. Fits(GridFor(w, left, gridTopPad, loaded), gridTopPad, loaded, h)
  BY <1>1, <1>4, <1>5, PartFits
<1>9. fb'[2] = h
  BY <1>3
<1> QED BY <1>3, <1>4, <1>7, <1>8, <1>9

-----------------------------------------------------------------------------
(* The invariant                                                           *)

\* One session, laid out on the whole screen.
LEMMA InitInv == Init => LayoutInv
<1> SUFFICES ASSUME Init PROVE LayoutInv
  OBVIOUS
<1>1. PICK t \in Tab, s \in Screen, f \in FontSize :
        /\ tabs = {t} /\ fb = s /\ fontSize = f /\ face \in Loadable(f)
        /\ grid = GridFor(s[1], s[2], 0, face)
        /\ bridge = [u \in Tab |-> IF u = t THEN SizeOf(grid, face) ELSE NoSize]
        /\ tty = [u \in Tab |-> IF u = t THEN TtySizeOf(grid) ELSE NoSize]
  BY DEF Init
<1>2. /\ gridTopPad = 0 /\ menu = 0 /\ menuReflows \in BOOLEAN /\ keyboardVisible = FALSE
      /\ keyboard \in [shown : {FALSE}, height : KeyboardHeight]
      /\ vkbEvents = <<>> /\ exitApplication = FALSE
  BY DEF Init
<1>3. s[1] \in Nat /\ s[2] \in Nat /\ face \in FontSize
  BY <1>1, LayoutAssumption DEF Loadable, FontSize
<1>4. grid \in [rows : Nat \ {0}, cols : Nat]
  <2>1. GridFor(s[1], s[2], 0, face) \in [rows : Nat \ {0}, cols : Nat]
    <3> DEFINE w == s[1]
               h == s[2]
    <3>1. w \in Nat /\ h \in Int /\ 0 \in Nat
      BY <1>3
    <3> HIDE DEF w, h
    <3>2. GridFor(w, h, 0, face) \in [rows : Nat \ {0}, cols : Nat]
      BY <1>3, <3>1, RowsFit
    <3> QED BY <3>2 DEF w, h
  <2> QED BY <1>1, <2>1
<1>5. SizeOf(grid, face) \in Size /\ TtySizeOf(grid) \in Size /\ NoSize \in Size
  BY <1>3, <1>4, SizesTyped
<1>6. bridge \in [Tab -> Size] /\ tty \in [Tab -> Size]
  BY <1>1, <1>5
<1>7. TypeOK
  <2>1. tabs \subseteq Tab /\ fb \in Screen /\ fontSize \in FontSize
    BY <1>1
  <2>2. keyboard \in [shown : BOOLEAN, height : KeyboardHeight]
    BY <1>2
  <2>3. vkbEvents \in Seq([kind : {"visible", "hidden", "info"}, height : KeyboardHeight \cup {0}])
    BY <1>2
  <2>4. gridTopPad \in Nat /\ menu \in MenuHeight \cup {0}
    BY <1>2
  <2> QED BY <1>2, <1>3, <1>4, <1>6, <2>1, <2>2, <2>3, <2>4 DEF TypeOK
<1>8. TabsWhileLooping /\ GridsAgree /\ PadFollowsTabs
  BY <1>1, <1>2 DEF TabsWhileLooping, GridsAgree, PadFollowsTabs, Several
<1>9. Fits(grid, 0, face, fb[2])
  BY <1>1, <1>3, PartFits
<1>10. GridOnScreen
  BY <1>2, <1>9 DEF GridOnScreen, Fits, Bottom, TextHeight
<1> QED BY <1>7, <1>8, <1>10 DEF LayoutInv

\* What is left to show of a step is the same for all of them.
LEMMA InvFromParts ==
  ASSUME SizesTypedNext, AgreeNext(face', tabs'), Fits(grid', gridTopPad', face', fb'[2]),
         tabs' \subseteq Tab, TabsWhileLooping', PadFollowsTabs',
         gridTopPad' \in Nat, fb' \in Screen, face' \in FontSize,
         fontSize' \in FontSize \cup {MinFontSize - 1},
         menu' \in MenuHeight \cup {0}, menuReflows' \in BOOLEAN,
         keyboardVisible' \in BOOLEAN,
         keyboard' \in [shown : BOOLEAN, height : KeyboardHeight],
         vkbEvents' \in Seq([kind : {"visible", "hidden", "info"}, height : KeyboardHeight \cup {0}]),
         exitApplication' \in BOOLEAN
  PROVE  LayoutInv'
<1>1. TypeOK'
  BY DEF TypeOK, SizesTypedNext
<1>2. GridsAgree'
  BY DEF GridsAgree, AgreeNext
<1>3. GridOnScreen'
  BY DEF GridOnScreen, Fits, Bottom, TextHeight
<1> QED BY <1>1, <1>2, <1>3 DEF LayoutInv

LEMMA TabNewKeepsInv ==
  ASSUME LayoutInv, NEW t \in Tab, TabNew(t) PROVE LayoutInv'
<1>1. /\ tabs' = tabs \cup {t} /\ ~exitApplication /\ t \notin tabs
      /\ UNCHANGED <<unrelatedToTabs, exitApplication>>
  BY DEF TabNew, Looping
<1>2. tabs # {} /\ Several(tabs') /\ tabs' \in SUBSET Tab
  BY <1>1 DEF LayoutInv, TabsWhileLooping, TypeOK, Several
<1>3. TextHeight \in Nat \ {0}
  BY LayoutAssumption DEF LayoutInv, TypeOK, TextHeight
<1>4. /\ SizesTypedNext /\ AgreeNext(face, tabs')
      /\ gridTopPad' \in Nat /\ gridTopPad' # 0
      /\ Fits(grid', gridTopPad', face, fb[2])
  <2>1. CASE Several(tabs)
    <3>1. /\ bridge' = [bridge EXCEPT ![t] = SizeOf(grid, face)]
          /\ tty' = [s \in Tab |-> IF s \in tabs \cup {t} THEN TtySizeOf(grid) ELSE NoSize]
          /\ grid' = grid /\ gridTopPad' = gridTopPad
      BY <2>1 DEF TabNew, FitNewTab
    <3>2. grid \in [rows : Nat \ {0}, cols : Nat] /\ face \in FontSize
      BY DEF LayoutInv, TypeOK
    <3>3. SizeOf(grid, face) \in Size /\ TtySizeOf(grid) \in Size /\ NoSize \in Size
      BY <3>2, SizesTyped
    <3>4. SizesTypedNext
      BY <3>1, <3>2, <3>3 DEF SizesTypedNext, LayoutInv, TypeOK
    <3>5. AgreeNext(face, tabs')
      BY <1>1, <1>2, <3>1 DEF AgreeNext, LayoutInv, TypeOK, GridsAgree
    <3>6. gridTopPad \in Nat /\ gridTopPad # 0 /\ Fits(grid, gridTopPad, face, fb[2])
      BY <1>2, <2>1 DEF LayoutInv, TypeOK, PadFollowsTabs, GridOnScreen, Fits, Bottom, TextHeight
    <3> QED BY <3>1, <3>4, <3>5, <3>6
  <2>2. CASE ~Several(tabs)
    <3>1. ApplyTabStripLayout(tabs')
      BY <2>2 DEF TabNew
    <3>2. gridTopPad = 0
      BY <1>2, <2>2 DEF LayoutInv, PadFollowsTabs
    <3>3. gridTopPad # IF Several(tabs') THEN TextHeight ELSE 0
      BY <1>2, <1>3, <3>2
    <3>4. /\ SizesTypedNext /\ AgreeNext(face, tabs')
          /\ gridTopPad' = IF Several(tabs') THEN TextHeight ELSE 0
          /\ Fits(grid', gridTopPad', face, fb[2])
      BY <1>2, <3>1, <3>3, StripLaidOut
    <3> QED BY <1>2, <1>3, <3>4
  <2> QED BY <2>1, <2>2
<1>5. TabsWhileLooping' /\ PadFollowsTabs'
  BY <1>1, <1>2, <1>4 DEF TabsWhileLooping, PadFollowsTabs
<1>6. /\ fb' = fb /\ face' = face /\ fontSize' = fontSize /\ menu' = menu
      /\ menuReflows' = menuReflows /\ keyboardVisible' = keyboardVisible
      /\ keyboard' = keyboard /\ vkbEvents' = vkbEvents /\ exitApplication' = exitApplication
  BY <1>1 DEF unrelatedToTabs, keyboardVars
<1> QED BY <1>2, <1>4, <1>5, <1>6, InvFromParts DEF LayoutInv, TypeOK

LEMMA CloseKeepsInv ==
  ASSUME LayoutInv, NEW t \in Tab, CloseAndReflow(t) PROVE LayoutInv'
<1>1. /\ tabs' = tabs \ {t} /\ exitApplication' = (tabs' = {}) /\ t \in tabs
      /\ UNCHANGED unrelatedToTabs
  BY DEF CloseAndReflow
<1>2. tabs' \in SUBSET tabs /\ tabs' \in SUBSET Tab
  BY <1>1 DEF LayoutInv, TypeOK
<1>3. TextHeight \in Nat \ {0} /\ gridTopPad \in Nat /\ TypeOK /\ GridsAgree
  BY LayoutAssumption DEF LayoutInv, TypeOK, TextHeight
<1>4. Fits(grid, gridTopPad, face, fb[2])
  BY DEF LayoutInv, GridOnScreen, Fits, Bottom, TextHeight
<1> DEFINE want == IF Several(tabs') THEN TextHeight ELSE 0
<1>5. /\ SizesTypedNext /\ AgreeNext(face, tabs') /\ gridTopPad' \in Nat
      /\ tabs' # {} => gridTopPad' = want
      /\ Fits(grid', gridTopPad', face, fb[2])
  <2>1. CASE tabs' = {} \/ gridTopPad = want
    <3>1. KeepSizes(tabs') /\ gridTopPad' = gridTopPad
      BY <2>1 DEF CloseAndReflow, ApplyTabStripLayout
    <3>2. grid' = grid /\ SizesTypedNext /\ AgreeNext(face, tabs')
      BY <1>2, <1>3, <3>1, KeptSizesAgree
    <3> QED BY <1>3, <1>4, <2>1, <3>1, <3>2
  <2>2. CASE tabs' # {} /\ gridTopPad # want
    <3>1. ApplyTabStripLayout(tabs')
      BY <2>2 DEF CloseAndReflow
    <3>2. /\ SizesTypedNext /\ AgreeNext(face, tabs') /\ gridTopPad' = want
          /\ Fits(grid', gridTopPad', face, fb[2])
      BY <1>2, <2>2, <3>1, StripLaidOut
    <3> QED BY <1>3, <3>2
  <2> QED BY <2>1, <2>2
<1>6. TabsWhileLooping' /\ PadFollowsTabs'
  BY <1>1, <1>3, <1>5 DEF TabsWhileLooping, PadFollowsTabs
<1>7. /\ fb' = fb /\ face' = face /\ fontSize' = fontSize /\ menu' = menu
      /\ menuReflows' = menuReflows /\ keyboardVisible' = keyboardVisible
      /\ keyboard' = keyboard /\ vkbEvents' = vkbEvents /\ exitApplication' \in BOOLEAN
  BY <1>1 DEF unrelatedToTabs, keyboardVars
<1> QED BY <1>2, <1>5, <1>6, <1>7, InvFromParts DEF LayoutInv, TypeOK

\* The handlers that lay the grid out for a part of the screen.
LEMMA PartKeepsInv ==
  ASSUME LayoutInv, ~exitApplication,
         NEW h \in Int, h <= fb[2],
         \/ SetupScreenSize(fb[1], h, gridTopPad, face, tabs)
         \/ UNCHANGED sizeVars,
         UNCHANGED <<tabs, gridTopPad, fb, fontSize, face, menuReflows, exitApplication>>,
         menu' \in MenuHeight \cup {0}, keyboardVisible' \in BOOLEAN,
         keyboard' \in [shown : BOOLEAN, height : KeyboardHeight],
         vkbEvents' \in Seq([kind : {"visible", "hidden", "info"}, height : KeyboardHeight \cup {0}])
  PROVE  LayoutInv'
<1>1. SizesTypedNext /\ AgreeNext(face, tabs) /\ Fits(grid', gridTopPad, face, fb[2])
  <2>1. CASE SetupScreenSize(fb[1], h, gridTopPad, face, tabs)
    BY <2>1, SetupOfPart
  <2>2. CASE UNCHANGED sizeVars
    BY <2>2 DEF sizeVars, SizesTypedNext, AgreeNext, Fits, LayoutInv, TypeOK, GridsAgree,
                GridOnScreen, Bottom, TextHeight
  <2> QED BY <2>1, <2>2
<1>2. tabs' \subseteq Tab /\ TabsWhileLooping' /\ PadFollowsTabs'
  BY DEF LayoutInv, TypeOK, TabsWhileLooping, PadFollowsTabs
<1> QED BY <1>1, <1>2, InvFromParts DEF LayoutInv, TypeOK

LEMMA MenuKeepsInv ==
  ASSUME LayoutInv, SymmenuOpen \/ SymmenuClose \/ ChordClearsMenu
  PROVE  LayoutInv'
<1>1. /\ ~exitApplication
      /\ UNCHANGED <<tabs, gridTopPad, fb, fontSize, face, menuReflows, exitApplication>>
      /\ UNCHANGED <<keyboardVisible, keyboard, vkbEvents>>
  BY DEF SymmenuOpen, SymmenuClose, ChordClearsMenu, Looping, unrelatedToMenu, keyboardVars
<1>2. fb[2] \in Nat /\ TypeOK
  BY LayoutAssumption DEF LayoutInv, TypeOK
<1>3. CASE SymmenuOpen
  <2>1. PICK h \in MenuHeight :
          /\ menu' = h
          /\ \/ SetupScreenSize(fb[1], fb[2] - h, gridTopPad, face, tabs)
             \/ UNCHANGED sizeVars
    BY <1>3 DEF SymmenuOpen
  <2>2. fb[2] - h \in Int /\ fb[2] - h <= fb[2] /\ h \in MenuHeight \cup {0}
    BY <1>2, LayoutAssumption
  <2> DEFINE part == fb[2] - h
  <2> HIDE DEF part
  <2>3. /\ part \in Int /\ part <= fb[2]
        /\ \/ SetupScreenSize(fb[1], part, gridTopPad, face, tabs)
           \/ UNCHANGED sizeVars
    BY <2>1, <2>2 DEF part
  <2> QED BY <1>1, <1>2, <2>1, <2>2, <2>3, PartKeepsInv DEF TypeOK
<1>4. CASE SymmenuClose \/ ChordClearsMenu
  <2>1. /\ menu' = 0
        /\ \/ SetupScreenSize(fb[1], fb[2], gridTopPad, face, tabs)
           \/ UNCHANGED sizeVars
    BY <1>4 DEF SymmenuClose, ChordClearsMenu
  <2>2. fb[2] \in Int /\ fb[2] <= fb[2]
    BY <1>2
  <2> QED BY <1>1, <1>2, <2>1, <2>2, PartKeepsInv DEF TypeOK
<1> QED BY <1>3, <1>4

LEMMA HandleVkbKeepsInv ==
  ASSUME LayoutInv, HandleVkb PROVE LayoutInv'
<1> DEFINE E == [kind : {"visible", "hidden", "info"}, height : KeyboardHeight \cup {0}]
           e == Head(vkbEvents)
           part == fb[2] - Occupied(e)
<1>1. /\ ~exitApplication
      /\ UNCHANGED <<tabs, gridTopPad, fb, fontSize, face, menu, menuReflows, exitApplication>>
      /\ UNCHANGED keyboard
  BY DEF HandleVkb, Looping, unrelatedToKeyboard
<1>2. fb[2] \in Nat /\ TypeOK
  BY LayoutAssumption DEF LayoutInv, TypeOK
<1>3. vkbEvents \in Seq(E) /\ vkbEvents # <<>>
  BY <1>2 DEF HandleVkb, TypeOK
<1>4. e \in E /\ Tail(vkbEvents) \in Seq(E)
  <2> HIDE DEF E
  <2> QED BY <1>3, HeadTailProperties
<1>5. keyboard.height \in Nat /\ e.height \in Nat
  <2> HIDE DEF e
  <2>1. e.height \in KeyboardHeight \cup {0}
    BY <1>4
  <2>2. keyboard.height \in KeyboardHeight
    BY <1>2 DEF TypeOK
  <2>3. KeyboardHeight \subseteq Nat
    BY LayoutAssumption
  <2>4. \A n \in KeyboardHeight \cup {0} : n \in Nat
    BY <2>3
  <2>5. e.height \in Nat
    BY <2>1, <2>4, Zenon
  <2> QED BY <2>2, <2>3, <2>5
<1>6. Occupied(e) \in Nat
  BY <1>4, <1>5 DEF Occupied
<1>7. part \in Int /\ part <= fb[2]
  BY <1>2, <1>6
<1>8. keyboardVisible' \in BOOLEAN /\ vkbEvents' \in Seq(E)
      /\ SetupScreenSize(fb[1], part, gridTopPad, face, tabs)
  BY <1>2, <1>4 DEF HandleVkb, TypeOK
<1>9. menu' \in MenuHeight \cup {0} /\ keyboard' \in [shown : BOOLEAN, height : KeyboardHeight]
  BY <1>1, <1>2 DEF TypeOK
<1> HIDE DEF part
<1> QED BY <1>1, <1>7, <1>8, <1>9, PartKeepsInv

LEMMA KeyboardKeepsInv ==
  ASSUME LayoutInv, NEW h \in KeyboardHeight,
         KeyboardShows(h) \/ KeyboardHides \/ KeyboardChanges(h)
  PROVE  LayoutInv'
<1> DEFINE E == [kind : {"visible", "hidden", "info"}, height : KeyboardHeight \cup {0}]
<1>1. /\ ~exitApplication
      /\ UNCHANGED <<tabs, gridTopPad, fb, fontSize, face, menu, menuReflows, exitApplication>>
      /\ UNCHANGED sizeVars /\ UNCHANGED keyboardVisible
  BY DEF KeyboardShows, KeyboardHides, KeyboardChanges, Looping, unrelatedToKeyboard
<1>2. TypeOK /\ fb[2] \in Int /\ fb[2] <= fb[2]
  BY LayoutAssumption DEF LayoutInv, TypeOK
<1>3. keyboard' \in [shown : BOOLEAN, height : KeyboardHeight]
  <2>1. keyboard \in [shown : BOOLEAN, height : KeyboardHeight]
    BY <1>2 DEF TypeOK
  <2>2. CASE KeyboardShows(h)
    BY <2>2 DEF KeyboardShows
  <2>3. CASE KeyboardHides
    <3>1. keyboard' = [keyboard EXCEPT !.shown = FALSE]
      BY <2>3 DEF KeyboardHides
    <3> QED BY <2>1, <3>1
  <2>4. CASE KeyboardChanges(h)
    <3>1. keyboard' = [keyboard EXCEPT !.height = h]
      BY <2>4 DEF KeyboardChanges
    <3> QED BY <2>1, <3>1
  <2> QED BY <2>2, <2>3, <2>4
<1>4. PICK e \in E : vkbEvents' = Append(vkbEvents, e)
  <2>1. /\ [kind |-> "visible", height |-> 0] \in E
        /\ [kind |-> "hidden", height |-> 0] \in E
        /\ [kind |-> "info", height |-> h] \in E
    OBVIOUS
  <2> QED BY <2>1 DEF KeyboardShows, KeyboardHides, KeyboardChanges, Report
<1>5. vkbEvents' \in Seq(E)
  BY <1>2, <1>4 DEF TypeOK
<1>6. menu' \in MenuHeight \cup {0} /\ keyboardVisible' \in BOOLEAN
  BY <1>1, <1>2 DEF TypeOK
<1> QED BY <1>1, <1>2, <1>3, <1>5, <1>6, PartKeepsInv

\* The handlers that go through rescreen.
LEMMA RescreenKeepsInv ==
  ASSUME LayoutInv, NEW w, NEW h, <<w, h>> \in Screen,
         NEW f \in FontSize \cup {MinFontSize - 1}, ~exitApplication,
         Rescreen(w, h, f), fontSize' = f,
         menu' \in MenuHeight \cup {0}, menuReflows' \in BOOLEAN
  PROVE  LayoutInv'
<1>1. /\ SizesTypedNext /\ face' \in FontSize /\ AgreeNext(face', tabs)
      /\ fb' \in Screen /\ exitApplication' \in BOOLEAN
      /\ Fits(grid', gridTopPad, face', fb'[2])
  BY RescreenKeepsOrder
<1>2. /\ tabs' = tabs /\ gridTopPad' = gridTopPad /\ keyboardVisible' = keyboardVisible
      /\ keyboard' = keyboard /\ vkbEvents' = vkbEvents
  BY DEF Rescreen, keyboardVars
<1>3. TypeOK /\ tabs # {}
  BY DEF LayoutInv, TabsWhileLooping
<1>4. TabsWhileLooping' /\ PadFollowsTabs'
  BY <1>2, <1>3 DEF TabsWhileLooping, PadFollowsTabs, LayoutInv
<1> QED BY <1>1, <1>2, <1>3, <1>4, InvFromParts DEF TypeOK

LEMMA NextKeepsInv ==
  LayoutInv /\ [Next]_vars => LayoutInv'
<1> SUFFICES ASSUME LayoutInv, [Next]_vars PROVE LayoutInv'
  OBVIOUS
<1>1. /\ TypeOK /\ <<fb[1], fb[2]>> \in Screen /\ MinFontSize \in FontSize
      /\ MaxFontSize \in FontSize
  <2>1. TypeOK /\ fb \in Screen
    BY DEF LayoutInv, TypeOK
  <2>2. fb = <<fb[1], fb[2]>>
    BY <2>1, LayoutAssumption
  <2>3. MinFontSize \in FontSize /\ MaxFontSize \in FontSize
    BY LayoutAssumption DEF FontSize
  <2> QED BY <2>1, <2>2, <2>3
<1>2. CASE \E t \in Tab : TabNew(t)
  BY <1>2, TabNewKeepsInv
<1>3. CASE \E t \in Tab : CloseAndReflow(t)
  BY <1>3, CloseKeepsInv
<1>4. CASE SymmenuOpen \/ SymmenuClose \/ ChordClearsMenu
  BY <1>4, MenuKeepsInv
<1>5. ASSUME NEW n \in MinFontSize - 1 .. MaxFontSize + 1, SetFontSize(n) PROVE LayoutInv'
  <2>1. PICK size \in FontSize : /\ ~exitApplication /\ fontSize' = size
                                 /\ Rescreen(fb[1], fb[2], size)
                                 /\ UNCHANGED <<menu, menuReflows>>
    BY <1>5, LayoutAssumption DEF SetFontSize, Looping, FontSize
  <2> QED BY <1>1, <2>1, RescreenKeepsInv DEF TypeOK
<1>6. CASE ReloadConfig
  <2>1. PICK f \in FontSize \cup {MinFontSize - 1} :
          /\ ~exitApplication /\ fontSize' = f /\ menuReflows' \in BOOLEAN
          /\ menu' = 0 /\ Rescreen(fb[1], fb[2], f)
    BY <1>6 DEF ReloadConfig, Looping
  <2> QED BY <1>1, <2>1, RescreenKeepsInv
<1>7. ASSUME NEW s \in Screen, Resize(s) PROVE LayoutInv'
  <2>1. <<s[1], s[2]>> \in Screen
    BY LayoutAssumption
  <2>2. /\ ~exitApplication /\ Rescreen(s[1], s[2], fontSize)
        /\ UNCHANGED <<fontSize, menu, menuReflows>>
    BY <1>7 DEF Resize, Looping
  <2> QED BY <1>1, <2>1, <2>2, RescreenKeepsInv DEF TypeOK
<1>8. CASE \E h \in KeyboardHeight : KeyboardShows(h) \/ KeyboardChanges(h)
  BY <1>8, KeyboardKeepsInv
<1>9. CASE KeyboardHides
  <2>1. keyboard.height \in KeyboardHeight
    BY <1>1 DEF TypeOK
  <2> QED BY <1>9, <2>1, KeyboardKeepsInv
<1>10. CASE HandleVkb
  BY <1>10, HandleVkbKeepsInv
<1>11. CASE UNCHANGED vars
  BY <1>11 DEF vars, sizeVars, keyboardVars, LayoutInv, TypeOK, TabsWhileLooping, GridsAgree,
               PadFollowsTabs, GridOnScreen, Bottom, TextHeight
<1> QED
  BY <1>2, <1>3, <1>4, <1>5, <1>6, <1>7, <1>8, <1>9, <1>10, <1>11 DEF Next

-----------------------------------------------------------------------------
(* The keyboard                                                            *)

\* When the last event not yet handled brings a height, it is the keyboard's.
LastInfoIsCurrent ==
  LET last == vkbEvents[Len(vkbEvents)]
  IN vkbEvents # <<>> /\ last.kind = "info" => last.height = keyboard.height

KeyboardEvent == [kind : {"visible", "hidden", "info"}, height : KeyboardHeight \cup {0}]

LEMMA LastOfAppend ==
  ASSUME NEW S, NEW seq \in Seq(S), NEW e \in S
  PROVE  Append(seq, e) # <<>> /\ Append(seq, e)[Len(Append(seq, e))] = e
  OBVIOUS

LEMMA LastOfTail ==
  ASSUME NEW S, NEW seq \in Seq(S), seq # <<>>
  PROVE  /\ Tail(seq) # <<>> => Tail(seq)[Len(Tail(seq))] = seq[Len(seq)]
         /\ Tail(seq) = <<>> => seq[Len(seq)] = Head(seq)
<1> DEFINE tail == Tail(seq)
           n == Len(seq)
<1>1. tail \in Seq(S) /\ Len(tail) = n - 1
      /\ \A i \in 1 .. Len(tail) : tail[i] = seq[i + 1]
  BY HeadTailProperties
<1>2. n \in Nat \ {0} /\ Head(seq) = seq[1]
  BY EmptySeq
<1> HIDE DEF tail, n
<1>3. CASE tail = <<>>
  <2>1. n = 1
    BY <1>1, <1>2, <1>3, EmptySeq
  <2> QED BY <1>2, <1>3, <2>1 DEF n, tail
<1>4. CASE tail # <<>>
  <2>1. Len(tail) \in 1 .. Len(tail) /\ Len(tail) + 1 = n
    BY <1>1, <1>2, <1>4, EmptySeq
  <2>2. tail[Len(tail)] = seq[n]
    BY <1>1, <2>1
  <2> QED BY <1>4, <2>2 DEF n, tail
<1> QED BY <1>3, <1>4 DEF tail

LEMMA LastInfoInit == Init => LastInfoIsCurrent
  BY DEF Init, LastInfoIsCurrent

LEMMA LastInfoNext ==
  ASSUME LayoutInv, LastInfoIsCurrent, [Next]_vars PROVE LastInfoIsCurrent'
<1>1. vkbEvents \in Seq(KeyboardEvent)
  BY DEF LayoutInv, TypeOK, KeyboardEvent
<1>2. CASE UNCHANGED <<keyboard, vkbEvents>>
  BY <1>2 DEF LastInfoIsCurrent
<1>3. CASE HandleVkb
  <2>1. vkbEvents # <<>> /\ vkbEvents' = Tail(vkbEvents) /\ keyboard' = keyboard
    BY <1>3 DEF HandleVkb
  <2>2. vkbEvents' # <<>> => vkbEvents'[Len(vkbEvents')] = vkbEvents[Len(vkbEvents)]
    BY <1>1, <2>1, LastOfTail
  <2> QED BY <2>1, <2>2 DEF LastInfoIsCurrent
<1>4. ASSUME NEW h \in KeyboardHeight, KeyboardChanges(h) PROVE LastInfoIsCurrent'
  <2> DEFINE e == [kind |-> "info", height |-> h]
  <2>1. vkbEvents' = Append(vkbEvents, e) /\ keyboard'.height = h /\ e \in KeyboardEvent
    BY <1>4 DEF KeyboardChanges, Report, KeyboardEvent, LayoutInv, TypeOK
  <2>2. vkbEvents'[Len(vkbEvents')] = e
    BY <1>1, <2>1, LastOfAppend
  <2> QED BY <2>1, <2>2 DEF LastInfoIsCurrent
<1>5. ASSUME NEW e \in KeyboardEvent, e.kind # "info", vkbEvents' = Append(vkbEvents, e)
      PROVE  LastInfoIsCurrent'
  BY <1>1, <1>5, LastOfAppend DEF LastInfoIsCurrent
<1>6. CASE KeyboardHides \/ \E h \in KeyboardHeight : KeyboardShows(h)
  <2>1. /\ [kind |-> "visible", height |-> 0] \in KeyboardEvent
        /\ [kind |-> "hidden", height |-> 0] \in KeyboardEvent
    BY DEF KeyboardEvent
  <2>2. \/ vkbEvents' = Append(vkbEvents, [kind |-> "visible", height |-> 0])
        \/ vkbEvents' = Append(vkbEvents, [kind |-> "hidden", height |-> 0])
    BY <1>6 DEF KeyboardHides, KeyboardShows, Report
  <2> QED BY <1>5, <2>1, <2>2
<1>7. CASE \/ \E t \in Tab : TabNew(t) \/ CloseAndReflow(t)
           \/ SymmenuOpen \/ SymmenuClose \/ ChordClearsMenu
           \/ \E n \in MinFontSize - 1 .. MaxFontSize + 1 : SetFontSize(n)
           \/ ReloadConfig \/ \E s \in Screen : Resize(s)
           \/ UNCHANGED vars
  <2>1. UNCHANGED keyboardVars
    BY <1>7 DEF TabNew, CloseAndReflow, SymmenuOpen, SymmenuClose, ChordClearsMenu,
                SetFontSize, ReloadConfig, Resize, Rescreen, unrelatedToTabs, unrelatedToMenu,
                vars
  <2> QED BY <1>2, <2>1 DEF keyboardVars
<1> QED BY <1>3, <1>4, <1>6, <1>7 DEF Next

\* What KeyboardKeepsClear says of one step.
KeepsClear == UnderKeyboard' => UnderKeyboard \/ gridTopPad' # gridTopPad \/ menu' # menu

\* A grid counted for the part the keyboard leaves is clear of it.
LEMMA ClearOfKeyboard ==
  ASSUME gridTopPad' \in Nat, face' \in FontSize, fb' \in Screen,
         keyboardVisible' /\ ~Refused(fb'[1], fb'[2] - keyboard'.height) =>
           Fits(grid', gridTopPad', face', fb'[2] - keyboard'.height),
         keyboard'.height \in Nat, grid'.rows \in Nat
  PROVE  ~UnderKeyboard'
<1> SUFFICES ASSUME UnderKeyboard' PROVE FALSE
  OBVIOUS
<1>1. /\ keyboardVisible' /\ ~Refused(fb'[1], fb'[2] - keyboard'.height)
      /\ fb'[2] - keyboard'.height >= gridTopPad' + LineHeight[face']
      /\ gridTopPad' + grid'.rows * LineHeight[face'] > fb'[2] - keyboard'.height
  BY DEF UnderKeyboard, Bottom, TextHeight, Refused
<1>2. LineHeight[face'] \in Nat /\ fb'[2] \in Nat
  BY LayoutAssumption
<1> DEFINE left == fb'[2] - keyboard'.height
           bottom == gridTopPad' + grid'.rows * LineHeight[face']
           one == gridTopPad' + LineHeight[face']
<1>3. left \in Int /\ bottom \in Int /\ one \in Int
  BY <1>2
<1>4. left >= one /\ bottom > left
  BY <1>1
<1>5. one <= left => bottom <= left
  BY <1>1 DEF Fits
<1> HIDE DEF left, bottom, one
<1> QED BY <1>3, <1>4, <1>5

\* A step that moves none of its parts does not put rows under the keyboard.
LEMMA NothingMoved ==
  ASSUME UNCHANGED <<grid, gridTopPad, fb, face, keyboardVisible, keyboard, vkbEvents>>
  PROVE  KeepsClear
  BY DEF KeepsClear, UnderKeyboard, Bottom, TextHeight

LEMMA RescreenKeepsClear ==
  ASSUME LayoutInv, NEW w, NEW h, <<w, h>> \in Screen,
         NEW f \in FontSize \cup {MinFontSize - 1}, ~exitApplication,
         Rescreen(w, h, f)
  PROVE  ~UnderKeyboard'
<1>1. /\ SizesTypedNext /\ face' \in FontSize /\ fb' \in Screen
  BY RescreenKeepsOrder
<1>2. /\ gridTopPad' = gridTopPad /\ keyboardVisible' = keyboardVisible
      /\ keyboard' = keyboard /\ fb' = <<w, h>>
      /\ SetupScreenSize(w, HeightLeft(w, h), gridTopPad, face', tabs)
  BY DEF Rescreen, keyboardVars
<1>3. /\ gridTopPad \in Nat /\ tabs \in SUBSET Tab /\ keyboard.height \in KeyboardHeight
  BY DEF LayoutInv, TypeOK
<1>4. w \in Nat /\ h \in Nat /\ keyboard.height \in Nat
  BY <1>3, LayoutAssumption
<1>5. grid'.rows \in Nat
  BY <1>1 DEF SizesTypedNext
<1>6. ASSUME keyboardVisible, ~Refused(w, h - keyboard.height)
      PROVE  Fits(grid', gridTopPad, face', h - keyboard.height)
  <2> DEFINE left == h - keyboard.height
  <2>1. HeightLeft(w, h) = left
    BY <1>6 DEF HeightLeft
  <2>2. left \in Nat
    BY <1>4, <1>6 DEF Refused
  <2>3. SetupScreenSize(w, left, gridTopPad, face', tabs) /\ ~Refused(w, left)
    BY <1>2, <1>6, <2>1
  <2> HIDE DEF left
  <2>4. grid' = GridFor(w, left, gridTopPad, face')
    BY <2>3 DEF SetupScreenSize
  <2>5. Fits(GridFor(w, left, gridTopPad, face'), gridTopPad, face', left)
    BY <1>1, <1>3, <1>4, <2>2, PartFits
  <2> QED BY <2>4, <2>5 DEF left
<1> QED BY <1>1, <1>2, <1>3, <1>4, <1>5, <1>6, ClearOfKeyboard

LEMMA HandleVkbKeepsClear ==
  ASSUME LayoutInv, LastInfoIsCurrent, LayoutInv', HandleVkb
  PROVE  ~UnderKeyboard'
<1> DEFINE e == Head(vkbEvents)
<1> SUFFICES ASSUME UnderKeyboard' PROVE FALSE
  OBVIOUS
<1>1. vkbEvents \in Seq(KeyboardEvent) /\ vkbEvents # <<>> /\ e \in KeyboardEvent
  <2>1. vkbEvents \in Seq(KeyboardEvent) /\ vkbEvents # <<>>
    BY DEF LayoutInv, TypeOK, KeyboardEvent, HandleVkb
  <2> QED BY <2>1, HeadTailProperties
<1>2. Tail(vkbEvents) = <<>> /\ keyboardVisible'
      /\ ~Refused(fb'[1], fb'[2] - keyboard'.height)
  BY DEF UnderKeyboard, HandleVkb
<1>3. e = vkbEvents[Len(vkbEvents)]
  BY <1>1, <1>2, LastOfTail
<1>4. e.kind \in {"visible", "hidden", "info"}
  BY <1>1 DEF KeyboardEvent
<1>5. keyboardVisible' = IF e.kind = "info" THEN keyboardVisible ELSE e.kind = "visible"
  BY DEF HandleVkb
<1>6. Occupied(e) = keyboard.height
  BY <1>1, <1>2, <1>3, <1>4, <1>5 DEF Occupied, LastInfoIsCurrent
<1>7. /\ SetupScreenSize(fb[1], fb[2] - keyboard.height, gridTopPad, face, tabs)
      /\ UNCHANGED <<gridTopPad, fb, face, keyboard>>
  BY <1>6 DEF HandleVkb, unrelatedToKeyboard
<1>8. /\ gridTopPad \in Nat /\ face \in FontSize /\ fb \in Screen /\ grid'.rows \in Nat
      /\ keyboard.height \in KeyboardHeight
  BY DEF LayoutInv, TypeOK
<1>9. fb[1] \in Nat /\ fb[2] \in Nat /\ keyboard.height \in Nat
  BY <1>8, LayoutAssumption
<1> DEFINE left == fb[2] - keyboard.height
<1>10. left \in Nat /\ ~Refused(fb[1], left)
  BY <1>2, <1>7, <1>9 DEF Refused
<1>11. grid' = GridFor(fb[1], left, gridTopPad, face)
  BY <1>7, <1>10 DEF SetupScreenSize
<1>12. Fits(grid', gridTopPad, face, left)
  <2> HIDE DEF left
  <2> QED BY <1>8, <1>9, <1>10, <1>11, PartFits
<1> QED BY <1>7, <1>8, <1>9, <1>12, ClearOfKeyboard

LEMMA NextKeepsClear ==
  ASSUME LayoutInv, LastInfoIsCurrent, LayoutInv', [Next]_vars PROVE KeepsClear
<1>1. /\ TypeOK /\ <<fb[1], fb[2]>> \in Screen /\ MinFontSize \in FontSize
      /\ MaxFontSize \in FontSize
  <2>1. TypeOK /\ fb \in Screen
    BY DEF LayoutInv, TypeOK
  <2>2. fb = <<fb[1], fb[2]>>
    BY <2>1, LayoutAssumption
  <2>3. MinFontSize \in FontSize /\ MaxFontSize \in FontSize
    BY LayoutAssumption DEF FontSize
  <2> QED BY <2>1, <2>2, <2>3
<1>2. ASSUME NEW t \in Tab, TabNew(t) \/ CloseAndReflow(t) PROVE KeepsClear
  <2>1. \/ gridTopPad' # gridTopPad
        \/ grid' = grid /\ gridTopPad' = gridTopPad
    BY <1>2 DEF TabNew, CloseAndReflow, FitNewTab, ApplyTabStripLayout, KeepSizes
  <2>2. UNCHANGED <<fb, face, keyboardVisible, keyboard, vkbEvents>>
    BY <1>2 DEF TabNew, CloseAndReflow, unrelatedToTabs, keyboardVars
  <2> QED BY <2>1, <2>2, NothingMoved DEF KeepsClear
<1>3. CASE SymmenuOpen \/ SymmenuClose \/ ChordClearsMenu
  <2>1. menu' # menu
    BY <1>3, LayoutAssumption DEF SymmenuOpen, SymmenuClose, ChordClearsMenu
  <2> QED BY <2>1 DEF KeepsClear
<1>4. ASSUME NEW n \in MinFontSize - 1 .. MaxFontSize + 1, SetFontSize(n) PROVE KeepsClear
  <2>1. PICK size \in FontSize : ~exitApplication /\ Rescreen(fb[1], fb[2], size)
    BY <1>4, LayoutAssumption DEF SetFontSize, Looping, FontSize
  <2> QED BY <1>1, <2>1, RescreenKeepsClear DEF KeepsClear
<1>5. CASE ReloadConfig
  <2>1. PICK f \in FontSize \cup {MinFontSize - 1} :
          ~exitApplication /\ Rescreen(fb[1], fb[2], f)
    BY <1>5 DEF ReloadConfig, Looping
  <2> QED BY <1>1, <2>1, RescreenKeepsClear DEF KeepsClear
<1>6. ASSUME NEW s \in Screen, Resize(s) PROVE KeepsClear
  <2>1. <<s[1], s[2]>> \in Screen
    BY LayoutAssumption
  <2>2. ~exitApplication /\ Rescreen(s[1], s[2], fontSize)
    BY <1>6 DEF Resize, Looping
  <2> QED BY <1>1, <2>1, <2>2, RescreenKeepsClear DEF KeepsClear, TypeOK
<1>7. CASE KeyboardHides \/ \E h \in KeyboardHeight : KeyboardShows(h) \/ KeyboardChanges(h)
  <2>1. PICK e \in KeyboardEvent : vkbEvents' = Append(vkbEvents, e)
    <3>1. \A h \in KeyboardHeight :
            /\ [kind |-> "visible", height |-> 0] \in KeyboardEvent
            /\ [kind |-> "hidden", height |-> 0] \in KeyboardEvent
            /\ [kind |-> "info", height |-> h] \in KeyboardEvent
      BY DEF KeyboardEvent
    <3>2. [kind |-> "hidden", height |-> 0] \in KeyboardEvent
      BY DEF KeyboardEvent
    <3> QED BY <1>7, <3>1, <3>2 DEF KeyboardShows, KeyboardHides, KeyboardChanges, Report
  <2>2. vkbEvents' # <<>>
    BY <1>1, <2>1, LastOfAppend DEF TypeOK, KeyboardEvent
  <2> QED BY <2>2 DEF KeepsClear, UnderKeyboard
<1>8. CASE HandleVkb
  BY <1>8, HandleVkbKeepsClear DEF KeepsClear
<1>9. CASE UNCHANGED vars
  BY <1>9, NothingMoved DEF vars, sizeVars, keyboardVars
<1> QED
  BY <1>2, <1>3, <1>4, <1>5, <1>6, <1>7, <1>8, <1>9 DEF Next

-----------------------------------------------------------------------------
(* The theorems                                                            *)

\* Types, and always a row to write on (setup_screen_size's clamp).
THEOREM TypeCorrect == Spec => []TypeOK
<1>1. LayoutInv => TypeOK
  BY DEF LayoutInv
<1> QED BY <1>1, InitInv, NextKeepsInv, PTL DEF Spec

\* "Every session reflows": no tab's terminal or pty ever has another size
\* than the grid that is drawn.
THEOREM SessionsAgree == Spec => []GridsAgree
<1>1. LayoutInv => GridsAgree
  BY DEF LayoutInv
<1> QED BY <1>1, InitInv, NextKeepsInv, PTL DEF Spec

\* The top pad is there exactly while there are several tabs.
THEOREM PadIsThere == Spec => []PadFollowsTabs
<1>1. LayoutInv => PadFollowsTabs
  BY DEF LayoutInv
<1> QED BY <1>1, InitInv, NextKeepsInv, PTL DEF Spec

\* The grid never reaches below the screen if one row has room.
THEOREM RowsOnScreen == Spec => []GridOnScreen
<1>1. LayoutInv => GridOnScreen
  BY DEF LayoutInv
<1> QED BY <1>1, InitInv, NextKeepsInv, PTL DEF Spec

\* Rows come to lie under the visible keyboard only when the tab strip or the
\* symbol menu lays the grid out anew.
THEOREM KeyboardClear == Spec => KeyboardKeepsClear
<1>1. Init => LayoutInv /\ LastInfoIsCurrent
  BY InitInv, LastInfoInit
<1>2. LayoutInv /\ LastInfoIsCurrent /\ [Next]_vars => (LayoutInv /\ LastInfoIsCurrent)'
  BY NextKeepsInv, LastInfoNext
<1>3. LayoutInv /\ LastInfoIsCurrent /\ [Next]_vars => [KeepsClear]_vars
  BY NextKeepsInv, NextKeepsClear
<1>4. [KeepsClear]_vars
      <=> [UnderKeyboard' => UnderKeyboard \/ gridTopPad' # gridTopPad \/ menu' # menu]_vars
  BY DEF KeepsClear
<1> QED BY <1>1, <1>2, <1>3, <1>4, PTL DEF Spec, KeyboardKeepsClear
=============================================================================
