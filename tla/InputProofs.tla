----------------------------- MODULE InputProofs -----------------------------
(***************************************************************************)
(* What holds of the keyboard for any keys, tables, chords and             *)
(* preferences, and of the URL picker for any screen and alphabet.         *)
(*                                                                         *)
(* KeyInv is inductive. That a hold fires once needs to know which keys it *)
(* may have fired for: a repeat of an exempt key goes on below the hold    *)
(* step and clears the flag (FiredIsHeld).                                 *)
(*                                                                         *)
(* The scan is recursive twice, over the places of the buffer and over the *)
(* end of a URL. ScanFinds says what it comes to, for any buffer: the URLs *)
(* of UrlSpans, in the order they start. PickInv is inductive from there.  *)
(***************************************************************************)
EXTENDS KeyPipeline, UrlPick, FiniteSetTheorems, FunctionTheorems, SequenceTheorems,
        WellFoundedInduction, TLAPS


FiredIsHeld == hold = "fired" => held \notin Exempt

KeyInv == TypeOK /\ HoldFiresOnce /\ FiredIsHeld

\* The variables that a key event may change, but for hold.
KbdTypes ==
  /\ vmodifiers \subseteq Latch
  /\ {altsymLock, metamode, symmenuLock, keyRepeatDone, helpOverlay, pickerUp} \subseteq BOOLEAN
  /\ currentSymmenu \in Menu \cup {NoMenu}
  /\ active \in Tab /\ writebuf \in Tab \cup {NoTab}

\* What a dispatched action may change.
DispatchTypes ==
  /\ vmodifiers \subseteq Latch
  /\ {metamode, helpOverlay, pickerUp} \subseteq BOOLEAN
  /\ active \in Tab /\ writebuf \in Tab \cup {NoTab}

-----------------------------------------------------------------------------
(* Types                                                                   *)

\* Any action, with latches and a metamode of the right type, keeps types.
LEMMA DispatchKeeps ==
  ASSUME DispatchTypes, NEW a, NEW vm \in SUBSET Latch, NEW mm \in BOOLEAN, Dispatch(a, vm, mm)
  PROVE  DispatchTypes'
<1>1. vmodifiers' \subseteq Latch
  BY DEF Dispatch, Toggled, Latch
<1>2. {metamode', helpOverlay', pickerUp'} \subseteq BOOLEAN
  BY DEF Dispatch, DispatchTypes
<1>3. active' \in Tab
  BY DEF Dispatch, DispatchTypes, Tab
<1>4. writebuf' \in Tab \cup {NoTab}
  BY DEF Dispatch, WriteToActive, DispatchTypes
<1> QED
  BY <1>1, <1>2, <1>3, <1>4 DEF DispatchTypes

LEMMA QuietKeeps ==
  ASSUME DispatchTypes, NEW vm \in SUBSET Latch, NEW mm \in BOOLEAN, Quiet(vm, mm)
  PROVE  DispatchTypes'
  BY DEF Quiet, DispatchTypes

\* Opening and closing a menu keeps the types of the two that say which.
LEMMA ToggleMenuKeeps ==
  ASSUME KeyAssumption, KbdTypes, NEW target \in Menu \cup {NoMenu}, ToggleMenu(target)
  PROVE  currentSymmenu' \in Menu \cup {NoMenu} /\ symmenuLock' \in BOOLEAN
  BY DEF KeyAssumption, KbdTypes, ToggleMenu

\* The layer of the modifier keys, with both its chords and its defaults.
LEMMA ModKeyKeeps ==
  ASSUME KeyAssumption, KbdTypes, NEW k \in Key, NEW rep \in BOOLEAN, NEW mm \in BOOLEAN,
         ModKey(k, rep, mm)
  PROVE  KbdTypes'
<1>1. DispatchTypes
  BY DEF KbdTypes, DispatchTypes
<1>2. ASSUME NEW i \in SiteA(k, rep), FireSiteA(Chords[i], mm) PROVE KbdTypes'
  <2>1. vmodifiers \ Chords[i].mods \in SUBSET Latch
    BY DEF KbdTypes
  <2>2. Dispatch(Chords[i].to, vmodifiers \ Chords[i].mods, mm)
    BY <1>2 DEF FireSiteA
  <2>3. DispatchTypes'
    BY <1>1, <2>1, <2>2, DispatchKeeps
  <2>4. /\ {altsymLock', symmenuLock', keyRepeatDone'} \subseteq BOOLEAN
        /\ currentSymmenu' \in Menu \cup {NoMenu}
    BY <1>2 DEF FireSiteA, KbdTypes
  <2> QED
    BY <2>3, <2>4 DEF KbdTypes, DispatchTypes
<1>3. ASSUME ModKeyDefault(k, rep, mm) PROVE KbdTypes'
  <2>1. DispatchTypes'
    <3> DEFINE vm == IF OwnBit(k) = "shift" /\ ~rep THEN Toggled(vmodifiers, "shift") ELSE vmodifiers
    <3>1. vm \in SUBSET Latch
      BY DEF KbdTypes, Toggled, Latch
    <3>2. Quiet(vm, mm)
      BY <1>3 DEF ModKeyDefault
    <3> HIDE DEF vm
    <3> QED
      BY <1>1, <3>1, <3>2, QuietKeeps
  <2>2. currentSymmenu' \in Menu \cup {NoMenu} /\ symmenuLock' \in BOOLEAN
    <3>1. MainMenu \in Menu
      BY DEF Menu, KeyAssumption
    <3>2. CASE k = SymKey /\ ~rep
      <4>1. ToggleMenu(MainMenu) \/ ToggleMenu(NoMenu)
        BY <1>3, <3>2 DEF ModKeyDefault
      <4> QED
        BY <3>1, <4>1, ToggleMenuKeeps
    <3>3. CASE k = SymKey /\ rep
      BY <1>3, <3>3 DEF ModKeyDefault, KbdTypes
    <3>4. CASE k # SymKey
      BY <1>3, <3>4 DEF ModKeyDefault, KbdTypes
    <3> QED
      BY <3>2, <3>3, <3>4
  <2>3. {altsymLock', keyRepeatDone'} \subseteq BOOLEAN
    BY <1>3 DEF ModKeyDefault, KbdTypes
  <2> QED
    BY <2>1, <2>2, <2>3 DEF KbdTypes, DispatchTypes
<1> QED
  BY <1>2, <1>3 DEF ModKey

LEMMA MetaModeKeeps ==
  ASSUME KeyAssumption, KbdTypes, NEW k \in Key, NEW rep \in BOOLEAN,
         MetaHit(k), MetaMode(k, rep)
  PROVE  KbdTypes'
<1>1. DispatchTypes /\ vmodifiers \in SUBSET Latch
  BY DEF KbdTypes, DispatchTypes
<1>2. MetaEntry(k).sticky \in BOOLEAN
  BY DEF MetaHit, MetaEntry, ByGlyph, KeyAssumption
<1>3. Dispatch(MetaEntry(k).to, vmodifiers, MetaEntry(k).sticky)
  BY DEF MetaMode
<1>4. DispatchTypes'
  BY <1>1, <1>2, <1>3, DispatchKeeps
<1>5. /\ {altsymLock', symmenuLock', keyRepeatDone'} \subseteq BOOLEAN
      /\ currentSymmenu' \in Menu \cup {NoMenu}
  BY <1>2 DEF MetaMode, KbdTypes
<1> QED
  BY <1>4, <1>5 DEF KbdTypes, DispatchTypes

LEMMA KeyHoldKeeps ==
  ASSUME KeyAssumption, KbdTypes, NEW k \in Key, NEW mm \in BOOLEAN, KeyHold(k, mm)
  PROVE  KbdTypes'
<1>1. CASE HoldOver(mm)
  BY <1>1 DEF HoldOver, Quiet, KbdTypes
<1>2. CASE HoldMetamode(k, mm)
  BY <1>2 DEF HoldMetamode, WriteToActive, KbdTypes
<1>3. CASE HoldNothing(k, mm)
  BY <1>3 DEF HoldNothing, Quiet, KbdTypes
<1>4. CASE HoldReplace(k, mm)
  <2>1. currentSymmenu' \in Menu \cup {NoMenu} /\ symmenuLock' \in BOOLEAN
    <3>1. CASE k \in Accented
      <4>1. k \in Menu
        BY <3>1 DEF Menu, KeyAssumption
      <4>2. ToggleMenu(k) \/ ToggleMenu(NoMenu)
        BY <1>4, <3>1 DEF HoldReplace
      <4> QED
        BY <4>1, <4>2, ToggleMenuKeeps
    <3>2. CASE k \notin Accented
      BY <1>4, <3>2 DEF HoldReplace, KbdTypes
    <3> QED
      BY <3>1, <3>2
  <2>2. writebuf' \in Tab \cup {NoTab}
    BY <1>4 DEF HoldReplace, WriteToActive, KbdTypes
  <2> QED
    BY <1>4, <2>1, <2>2 DEF HoldReplace, KbdTypes
<1> QED
  BY <1>1, <1>2, <1>3, <1>4 DEF KeyHold

LEMMA BelowHoldKeeps ==
  ASSUME KeyAssumption, KbdTypes, NEW k \in Key, NEW pm, NEW rep \in BOOLEAN,
         NEW mm \in BOOLEAN, BelowHold(k, pm, rep, mm)
  PROVE  KbdTypes'
<1>1. DispatchTypes /\ vmodifiers \in SUBSET Latch
  BY DEF KbdTypes, DispatchTypes
<1>2. {altsymLock', keyRepeatDone'} \subseteq BOOLEAN
  BY DEF BelowHold
<1>3. ASSUME DispatchTypes', currentSymmenu' \in Menu \cup {NoMenu}, symmenuLock' \in BOOLEAN
      PROVE  KbdTypes'
  BY <1>2, <1>3 DEF KbdTypes, DispatchTypes
<1>4. CASE AltLayer(mm)
  BY <1>1, <1>3, <1>4, DispatchKeeps DEF AltLayer, KbdTypes
<1>5. CASE MenuLayer(mm)
  BY <1>1, <1>3, <1>5, DispatchKeeps, ToggleMenuKeeps DEF MenuLayer
<1>6. CASE Ordinary(k, pm, rep, mm)
  <2>1. {} \in SUBSET Latch /\ {"ctrl"} \in SUBSET Latch
    BY DEF Latch
  <2>2. DispatchTypes'
    <3>1. ASSUME NEW i \in SiteB(k, pm, rep), Dispatch(Chords[i].to, {}, mm) PROVE DispatchTypes'
      BY <1>1, <2>1, <3>1, DispatchKeeps
    <3>2. CASE k \in CtrlKey /\ Quiet({"ctrl"}, mm)
      BY <1>1, <2>1, <3>2, QuietKeeps
    <3>3. CASE k \in Shifts /\ Quiet({}, mm)
      BY <1>1, <2>1, <3>3, QuietKeeps
    <3>4. CASE Dispatch("bytes", {}, mm)
      BY <1>1, <2>1, <3>4, DispatchKeeps
    <3> QED
      BY <1>6, <3>1, <3>2, <3>3, <3>4 DEF Ordinary
  <2> QED
    BY <1>3, <1>6, <2>2 DEF Ordinary, KbdTypes
<1> QED
  BY <1>4, <1>5, <1>6 DEF BelowHold

LEMMA ResolveKeeps ==
  ASSUME KeyAssumption, KbdTypes, NEW k \in Key, NEW pm, NEW rep \in BOOLEAN,
         NEW mm \in BOOLEAN, NEW quick \in BOOLEAN, Resolve(k, pm, rep, mm, quick)
  PROVE  KbdTypes'
<1>1. CASE ModKey(k, rep, mm)
  BY <1>1, ModKeyKeeps
<1>2. CASE MetaTakes(k, mm, quick) /\ MetaMode(k, rep)
  BY <1>2, MetaModeKeeps DEF MetaTakes
<1>3. CASE KeyHold(k, mm)
  BY <1>3, KeyHoldKeeps
<1>4. CASE BelowHold(k, pm, rep, mm)
  BY <1>4, BelowHoldKeeps
<1> QED
  BY <1>1, <1>2, <1>3, <1>4 DEF Resolve

\* A key event, whoever takes it.
LEMMA EventKeeps ==
  ASSUME KeyAssumption, KbdTypes, NEW k \in Key, NEW pm, NEW rep \in BOOLEAN,
         Event(k, pm, rep)
  PROVE  KbdTypes'
<1>1. CASE pickerUp /\ PickerKey(rep)
  BY <1>1 DEF PickerKey, KbdTypes, kbdVars
<1>2. CASE DismissHelp
  BY <1>2 DEF DismissHelp, KbdTypes, kbdVars
<1>3. ASSUME NEW quick \in MayBeQuick(k, rep), Resolve(k, pm, rep, metamode # quick, quick)
      PROVE  KbdTypes'
  <2> DEFINE mm == metamode # quick
  <2>1. quick \in BOOLEAN /\ mm \in BOOLEAN
    BY DEF MayBeQuick
  <2>2. Resolve(k, pm, rep, mm, quick)
    BY <1>3
  <2> HIDE DEF mm
  <2> QED
    BY <2>1, <2>2, ResolveKeeps
<1> QED
  BY <1>1, <1>2, <1>3 DEF Event, HandleKey

-----------------------------------------------------------------------------
(* The hold                                                                *)

\* A key that reaches a layer leaves key_repeat_done and the hold in step.
LEMMA ResolveHold ==
  ASSUME KbdTypes, HoldFiresOnce, NEW k \in Key, NEW pm, NEW rep \in BOOLEAN,
         NEW mm \in BOOLEAN, NEW quick \in BOOLEAN, Resolve(k, pm, rep, mm, quick),
         rep => FiredIsHeld /\ k = held
  PROVE  /\ HoldFiresOnce'
         /\ hold' = "fired" => k \notin Exempt
<1>1. CASE ModKey(k, rep, mm) /\ hold' = IF rep THEN hold ELSE "above"
  <2>1. keyRepeatDone' = keyRepeatDone
    BY <1>1 DEF ModKey, FireSiteA, ModKeyDefault
  <2> QED
    BY <1>1, <2>1 DEF HoldFiresOnce, FiredIsHeld
<1>2. CASE MetaMode(k, rep)
  BY <1>2 DEF MetaMode, HoldFiresOnce, FiredIsHeld
<1>3. CASE HoldTakes(k, rep) /\ KeyHold(k, mm)
  <2>1. rep /\ k \notin Exempt
    BY <1>3 DEF HoldTakes
  <2>2. HoldFiresOnce'
    BY <1>3 DEF KeyHold, HoldOver, HoldMetamode, HoldNothing, HoldReplace, HoldFiresOnce
  <2> QED
    BY <2>1, <2>2
<1>4. CASE ~HoldTakes(k, rep) /\ BelowHold(k, pm, rep, mm)
  <2>1. keyRepeatDone' = FALSE /\ hold' = IF rep THEN hold ELSE "armed"
    BY <1>4 DEF BelowHold
  <2>2. rep => hold # "fired"
    BY <1>4 DEF HoldTakes, FiredIsHeld
  <2> QED
    BY <2>1, <2>2 DEF HoldFiresOnce
<1> QED
  BY <1>1, <1>2, <1>3, <1>4 DEF Resolve

LEMMA EventHold ==
  ASSUME KbdTypes, HoldFiresOnce, NEW k \in Key, NEW pm, NEW rep \in BOOLEAN,
         Event(k, pm, rep), rep => FiredIsHeld /\ k = held
  PROVE  /\ HoldFiresOnce'
         /\ hold' = "fired" => k \notin Exempt
<1>1. CASE pickerUp /\ PickerKey(rep)
  BY <1>1 DEF PickerKey, kbdVars, HoldFiresOnce, FiredIsHeld
<1>2. CASE DismissHelp
  BY <1>2 DEF DismissHelp, HoldFiresOnce
<1>3. ASSUME NEW quick \in MayBeQuick(k, rep), Resolve(k, pm, rep, metamode # quick, quick)
      PROVE  /\ HoldFiresOnce'
             /\ hold' = "fired" => k \notin Exempt
  <2>1. quick \in BOOLEAN /\ (metamode # quick) \in BOOLEAN
    BY DEF MayBeQuick
  <2> QED
    BY <1>3, <2>1, ResolveHold
<1> QED
  BY <1>1, <1>2, <1>3 DEF Event, HandleKey

-----------------------------------------------------------------------------
(* The invariant                                                           *)

LEMMA InitKeyInv == ASSUME KeyAssumption, Init PROVE KeyInv
  BY DEF KeyAssumption, Init, KeyInv, TypeOK, HoldFiresOnce, FiredIsHeld, Tab, NoTab

\* The two actions of the key that is down.
LEMMA KeyEventKeepsInv ==
  ASSUME KeyAssumption, KeyInv, NEW k \in Key, NEW pm, NEW rep \in BOOLEAN,
         Event(k, pm, rep), held' = k, rep => k = held
  PROVE  KeyInv'
<1>1. KbdTypes /\ HoldFiresOnce /\ FiredIsHeld
  BY DEF KeyInv, TypeOK, KbdTypes
<1>2. KbdTypes'
  BY <1>1, EventKeeps
<1>3. HoldFiresOnce' /\ (hold' = "fired" => k \notin Exempt)
  BY <1>1, EventHold
<1>4. hold' \in {"none", "above", "armed", "fired"}
  BY DEF KeyInv, TypeOK, Event, PickerKey, HandleKey, DismissHelp, Resolve, MetaMode, KeyHold,
         HoldOver, HoldMetamode, HoldNothing, HoldReplace, BelowHold
<1>5. vkbVisible' \in BOOLEAN /\ exited' \subseteq Tab
  BY DEF KeyInv, TypeOK, Event
<1> QED
  BY <1>2, <1>3, <1>4, <1>5 DEF KeyInv, TypeOK, KbdTypes, FiredIsHeld

LEMMA NextKeyInv == ASSUME KeyAssumption, KeyInv, [Next]_vars PROVE KeyInv'
<1>1. ASSUME NEW k \in Key, NEW pm \in Mod, Press(k, pm) PROVE KeyInv'
  BY <1>1, KeyEventKeepsInv DEF Press
<1>2. ASSUME NEW pm \in Mod, Repeat(pm) PROVE KeyInv'
  <2>1. held \in Key
    BY <1>2 DEF Repeat, KeyInv, TypeOK
  <2> QED
    BY <1>2, <2>1, KeyEventKeepsInv DEF Repeat
<1>3. CASE Release
  BY <1>3 DEF Release, kbdVars, modalVars, tabVars, KeyInv, TypeOK, HoldFiresOnce, FiredIsHeld
<1>4. CASE TapMetamode
  BY <1>4 DEF TapMetamode, modalVars, tabVars, KeyInv, TypeOK, HoldFiresOnce, FiredIsHeld
<1> USE DEF KbdTypes, DispatchTypes
<1>5. CASE TapMenu
  <2>1. DispatchTypes'
    BY <1>5, DispatchKeeps DEF TapMenu, KeyInv, TypeOK
  <2>2. currentSymmenu' \in Menu \cup {NoMenu} /\ symmenuLock' \in BOOLEAN
    BY <1>5, ToggleMenuKeeps DEF TapMenu, KeyInv, TypeOK
  <2> QED
    BY <1>5, <2>1, <2>2 DEF TapMenu, KeyInv, TypeOK, HoldFiresOnce, FiredIsHeld
<1>6. CASE TapOutsidePicker
  BY <1>6 DEF TapOutsidePicker, kbdVars, tabVars, KeyInv, TypeOK, HoldFiresOnce, FiredIsHeld
<1>7. ASSUME NEW a \in ScriptedAction, Scripted(a) PROVE KeyInv'
  <2>1. DispatchTypes'
    BY <1>7, DispatchKeeps DEF Scripted, KeyInv, TypeOK
  <2> QED
    BY <1>7, <2>1 DEF Scripted, KeyInv, TypeOK, HoldFiresOnce, FiredIsHeld
<1>8. CASE KeyboardMoves
  BY <1>8 DEF KeyboardMoves, kbdVars, tabVars, KeyInv, TypeOK, HoldFiresOnce, FiredIsHeld
<1>9. CASE ShellExits
  BY <1>9 DEF ShellExits, kbdVars, modalVars, KeyInv, TypeOK, HoldFiresOnce, FiredIsHeld,
              KeyAssumption, Tab
<1>10. CASE Reload
  BY <1>10 DEF Reload, tabVars, KeyInv, TypeOK, HoldFiresOnce, FiredIsHeld
<1>11. CASE UNCHANGED vars
  BY <1>11 DEF vars, kbdVars, modalVars, tabVars, KeyInv, TypeOK, HoldFiresOnce, FiredIsHeld
<1> QED
  BY <1>1, <1>2, <1>3, <1>4, <1>5, <1>6, <1>7, <1>8, <1>9, <1>10, <1>11 DEF Next

THEOREM KeyInvariant == Spec => []KeyInv
<1>1. Init => KeyInv
  BY KeyAssumption, InitKeyInv
<1>2. KeyInv /\ [Next]_vars => KeyInv'
  BY KeyAssumption, NextKeyInv
<1> QED
  BY <1>1, <1>2, PTL DEF Spec

\* The types of the keyboard's state, for any keys, tables and preferences.
THEOREM TypeCorrect == Spec => []TypeOK
<1>1. KeyInv => TypeOK
  BY DEF KeyInv
<1> QED
  BY <1>1, KeyInvariant, PTL

\* keyhold_step acts once per held key, for any keys, exemptions and scripts.
THEOREM HoldsFireOnce == Spec => []HoldFiresOnce
<1>1. KeyInv => HoldFiresOnce
  BY DEF KeyInv
<1> QED
  BY <1>1, KeyInvariant, PTL

-----------------------------------------------------------------------------
(* Modal screens                                                           *)

\* url_pick and the help overlay keep a press to themselves: nothing of the
\* keyboard, the tabs or a shell changes with it.
THEOREM ModalScreensHold == Spec => PressesStayModal
<1>1. ASSUME helpOverlay \/ pickerUp, NEW k \in Key, NEW pm \in Mod, Press(k, pm)
      PROVE  UNCHANGED <<kbdVars, active, writebuf>>
  <2>1. CASE pickerUp
    BY <1>1, <2>1 DEF Press, Event, PickerKey
  <2>2. CASE ~pickerUp /\ helpOverlay
    <3>1. HandleKey(k, pm, FALSE)
      BY <1>1, <2>2 DEF Press, Event
    <3>2. DismissHelp
      BY <3>1, <2>2 DEF HandleKey
    <3> QED
      BY <3>2 DEF DismissHelp
  <2> QED
    BY <1>1, <2>1, <2>2
<1>2. [Next]_vars
        => [(helpOverlay \/ pickerUp) /\ (\E k \in Key, pm \in Mod : Press(k, pm))
              => UNCHANGED <<kbdVars, active, writebuf>>]_vars
  BY <1>1
<1> QED
  BY <1>2, PTL DEF Spec, PressesStayModal

-----------------------------------------------------------------------------
(***************************************************************************)
(* The chord for Ctrl                                                      *)
(***************************************************************************)

\* shift and alt are bound to Ctrl, and nothing that chord_lookup_subset
\* prefers to it is bound to alt: no chord of several modifiers, and none of
\* one modifier before it. The shipped bindings are such (preferences.c).
IsCtrlChord(c) ==
  /\ c \in DOMAIN Chords
  /\ Chords[c].key = AltKey /\ Chords[c].mods = {"shift"} /\ Chords[c].to = "ctrl_down"
  /\ \A j \in DOMAIN Chords \ {c} :
       Chords[j].key = AltKey /\ Chords[j].mods # {} /\ "alt" \notin Chords[j].mods
         => Cardinality(Chords[j].mods) = 1 /\ c < j

CtrlChordBound == \E c : IsCtrlChord(c)

\* With shift latched the modifier layer finds it, whatever else is latched.
LEMMA CtrlChordFound ==
  ASSUME KeyAssumption, NEW c, IsCtrlChord(c), "shift" \in vmodifiers
  PROVE  SiteA(AltKey, FALSE) = {c}
<1> DEFINE S == WithinPrefix(AltKey, ModMask \ {"alt"})
<1>0. DOMAIN Chords \subseteq Nat /\ c \in Nat
  BY DEF KeyAssumption, IsCtrlChord
<1>1. SiteA(AltKey, FALSE) = MostSpecific(S)
  BY DEF SiteA, IsModKey, Trigger, OwnBit, Shifts, KeyAssumption
<1>2. c \in S
  BY DEF WithinPrefix, ModMask, IsCtrlChord
<1>3. \A j \in S \ {c} : j \in Nat /\ Cardinality(Chords[j].mods) = 1 /\ c < j
  BY <1>0 DEF WithinPrefix, IsCtrlChord
<1>4. Cardinality(Chords[c].mods) = 1
  BY FS_Singleton DEF IsCtrlChord
<1> HIDE DEF S
<1>5. c \in MostSpecific(S)
  BY <1>2, <1>3, <1>4 DEF MostSpecific
<1>6. ASSUME NEW j \in MostSpecific(S), j # c PROVE FALSE
  <2>1. j \in S \ {c} /\ c \in S \ {j}
    BY <1>2, <1>6 DEF MostSpecific
  <2>2. \/ Cardinality(Chords[c].mods) < Cardinality(Chords[j].mods)
        \/ Cardinality(Chords[c].mods) = Cardinality(Chords[j].mods) /\ j < c
    BY <1>6, <2>1 DEF MostSpecific
  <2> QED
    BY <1>0, <1>3, <1>4, <2>1, <2>2
<1>7. MostSpecific(S) = {c}
  <2>1. \A j \in MostSpecific(S) : j = c
    BY <1>6
  <2> QED
    BY <1>5, <2>1
<1> QED
  BY <1>1, <1>7

\* Where the chord is bound, alt after shift latches Ctrl and the same two
\* keys let it go, in every state that such a press can come in.
THEOREM CtrlChordWorks == CtrlChordBound /\ Spec => CtrlChordToggles
<1>1. ASSUME CtrlChordBound, Press(AltKey, {}), "shift" \in vmodifiers, ~helpOverlay, ~pickerUp
      PROVE  vmodifiers' = Toggled(vmodifiers \ {"shift"}, "ctrl")
  <2>0. PICK c : IsCtrlChord(c)
    BY <1>1 DEF CtrlChordBound
  <2>1. SiteA(AltKey, FALSE) = {c}
    BY <1>1, <2>0, KeyAssumption, CtrlChordFound
  <2>2. PICK quick \in MayBeQuick(AltKey, FALSE) :
          Resolve(AltKey, {}, FALSE, metamode # quick, quick)
    BY <1>1 DEF Press, Event, HandleKey
  <2>3. ModKeyTakes(AltKey, FALSE)
    BY <2>1 DEF ModKeyTakes
  <2>4. ModKey(AltKey, FALSE, metamode # quick)
    BY <2>2, <2>3 DEF Resolve
  <2>5. FireSiteA(Chords[c], metamode # quick)
    BY <2>1, <2>4 DEF ModKey
  <2> QED
    BY <2>0, <2>5 DEF FireSiteA, Dispatch, IsCtrlChord
<1>2. CtrlChordBound /\ [Next]_vars
        => [(Press(AltKey, {}) /\ "shift" \in vmodifiers /\ ~helpOverlay /\ ~pickerUp)
              => vmodifiers' = Toggled(vmodifiers \ {"shift"}, "ctrl")]_vars
  BY <1>1
<1>3. CtrlChordBound => CtrlChordBound'
  BY DEF CtrlChordBound, IsCtrlChord
<1> QED
  BY <1>2, <1>3, PTL DEF Spec, CtrlChordToggles

-----------------------------------------------------------------------------
(***************************************************************************)
(* Climbing and descending, for the recursive functions of the scan        *)
(***************************************************************************)

LEMMA LeastExists ==
  ASSUME NEW S \in SUBSET Nat, S # {}
  PROVE  \E m \in S : \A n \in S : m <= n
<1> DEFINE R == {ss \in Nat \X Nat : ss[1] < ss[2]}
<1>1. IsWellFoundedOn(R, Nat)
  BY NatLessThanWellFounded DEF OpToRel
<1>2. \E m \in S : \A n \in S : ~(<<n, m>> \in R)
  <2> HIDE DEF R
  <2> QED
    BY <1>1, WFMin
<1>3. PICK m \in S : \A n \in S : ~(<<n, m>> \in R)
  BY <1>2
<1>4. ASSUME NEW n \in S PROVE m <= n
  <2>1. m \in Nat /\ n \in Nat /\ <<n, m>> \in Nat \X Nat
    OBVIOUS
  <2>2. ~(n < m)
    BY <1>3, <2>1
  <2> QED
    BY <2>1, <2>2
<1> QED
  BY <1>4

\* A set that has 0, and with each number below n the next, has all up to n.
LEMMA Climb ==
  ASSUME NEW n \in Nat, NEW S, 0 \in S, \A i \in 0 .. (n - 1) : i \in S => i + 1 \in S
  PROVE  \A i \in 0 .. n : i \in S
<1> DEFINE Missing == {i \in 0 .. n : i \notin S}
<1>1. ASSUME Missing # {} PROVE FALSE
  <2>1. Missing \in SUBSET Nat
    OBVIOUS
  <2>2. PICK m \in Missing : \A i \in Missing : m <= i
    <3> HIDE DEF Missing
    <3> QED BY <1>1, <2>1, LeastExists
  <2>3. m \in 0 .. n /\ m \notin S /\ m # 0
    OBVIOUS
  <2>4. m - 1 \in 0 .. (n - 1) /\ m - 1 \notin Missing
    BY <2>2, <2>3
  <2>5. m - 1 \in S
    BY <2>4
  <2>6. (m - 1) + 1 \in S
    BY <2>4, <2>5
  <2> QED BY <2>3, <2>6
<1> QED BY <1>1

\* From m down: a place is in S when all after it are.
LEMMA Descend ==
  ASSUME NEW m \in Nat, 1 <= m, NEW S, \A i \in 1 .. m : (\A j \in i + 1 .. m : j \in S) => i \in S
  PROVE  1 \in S
<1> DEFINE T == {k \in Nat : k < m /\ m - k \notin S}
<1>1. ASSUME 1 \notin S PROVE FALSE
  <2>1. m - 1 \in T /\ T \in SUBSET Nat
    <3>1. m - 1 \in Nat /\ m - (m - 1) = 1 /\ m - 1 < m
      OBVIOUS
    <3> QED BY <1>1, <3>1
  <2>2. PICK k \in T : \A l \in T : k <= l
    <3> HIDE DEF T
    <3> QED BY <2>1, LeastExists
  <2>3. k \in Nat /\ k < m /\ m - k \notin S /\ m - k \in 1 .. m
    OBVIOUS
  <2>4. ASSUME NEW j \in (m - k) + 1 .. m PROVE j \in S
    <3>1. m - j \in Nat /\ m - j < k /\ m - j < m /\ m - (m - j) = j
      BY <2>3
    <3>2. m - j \notin T
      <4> HIDE DEF T
      <4> QED BY <2>2, <2>3, <3>1
    <3> QED BY <3>1, <3>2
  <2> HIDE DEF T
  <2> QED BY <2>3, <2>4
<1> QED BY <1>1

-----------------------------------------------------------------------------
(***************************************************************************)
(* The scan: where a URL ends                                              *)
(***************************************************************************)

CellOf == [tok : Token, row : 1 .. Rows, col : 1 .. Cols + 1]

LEMMA TokIsToken ==
  ASSUME NEW buf \in Seq(CellOf), NEW i \in 1 .. Len(buf)
  PROVE  Tok(buf, i) \in Token
<1>1. buf[i] \in CellOf
  OBVIOUS
<1> QED BY <1>1 DEF CellOf, Tok

\* e is where the run of URL tokens that starts at i ends.
EndsRun(buf, i, e) ==
  /\ e \in i .. Len(buf) + 1
  /\ \A j \in i .. (e - 1) : Tok(buf, j) \in UrlToken
  /\ e <= Len(buf) => Tok(buf, e) \notin UrlToken

LEMMA RunEndEndsRun ==
  ASSUME NEW buf \in Seq(CellOf), NEW i \in 1 .. Len(buf) + 1
  PROVE  EndsRun(buf, i, RunEnd(buf, i))
<1> DEFINE n == Len(buf)
           S == {e \in i .. n + 1 : e <= n => Tok(buf, e) \notin UrlToken}
<1>0. n \in Nat /\ i \in Nat
  OBVIOUS
<1>1. n + 1 \in S /\ S \in SUBSET Nat
  BY <1>0
<1>2. PICK m \in S : \A e \in S : m <= e
  <2> HIDE DEF S
  <2> QED BY <1>1, LeastExists
<1>3. \A j \in i .. (m - 1) : Tok(buf, j) \in UrlToken
  <2> TAKE j \in i .. (m - 1)
  <2>1. j \in i .. n + 1 /\ j < m /\ j <= n /\ m \in Nat
    BY <1>0
  <2>2. j \notin S
    BY <1>1, <1>2, <2>1
  <2> QED BY <2>1, <2>2
<1>4. m \in i .. (Len(buf) + 1)
      /\ (m <= Len(buf) => Tok(buf, m) \notin UrlToken)
  OBVIOUS
<1>5. \E e \in i .. (Len(buf) + 1) :
        /\ \A j \in i .. (e - 1) : Tok(buf, j) \in UrlToken
        /\ e <= Len(buf) => Tok(buf, e) \notin UrlToken
  BY <1>3, <1>4
<1> HIDE DEF S, n
<1> QED BY <1>5 DEF RunEnd, EndsRun

LEMMA RunEndsOnce ==
  ASSUME NEW buf \in Seq(CellOf), NEW i \in Nat, NEW d, EndsRun(buf, i, d),
         NEW e, EndsRun(buf, i, e)
  PROVE  d = e
<1>1. Len(buf) \in Nat /\ d \in i .. Len(buf) + 1 /\ e \in i .. Len(buf) + 1
  BY DEF EndsRun
<1>2. ~ (d < e)
  <2> SUFFICES ASSUME d < e PROVE FALSE
    OBVIOUS
  <2>1. d \in i .. (e - 1) /\ d <= Len(buf)
    BY <1>1
  <2> QED BY <2>1 DEF EndsRun
<1>3. ~ (e < d)
  <2> SUFFICES ASSUME e < d PROVE FALSE
    OBVIOUS
  <2>1. e \in i .. (d - 1) /\ e <= Len(buf)
    BY <1>1
  <2> QED BY <2>1 DEF EndsRun
<1> QED BY <1>1, <1>2, <1>3

\* t is one past what is left of buf[s..e-1] when what trails is gone.
EndsText(buf, s, e, t) ==
  /\ t \in s .. e
  /\ \A j \in t .. (e - 1) : Trailing(buf, s, j)
  /\ t = s \/ ~Trailing(buf, s, t - 1)

LEMMA TextEndsOnce ==
  ASSUME NEW buf, NEW s \in Nat, NEW e \in Nat, NEW t, EndsText(buf, s, e, t),
         NEW u, EndsText(buf, s, e, u)
  PROVE  t = u
<1>1. t \in s .. e /\ u \in s .. e
  BY DEF EndsText
<1>2. ~ (t < u)
  <2> SUFFICES ASSUME t < u PROVE FALSE
    OBVIOUS
  <2>1. u - 1 \in t .. (e - 1) /\ u # s
    BY <1>1
  <2> QED BY <2>1 DEF EndsText
<1>3. ~ (u < t)
  <2> SUFFICES ASSUME u < t PROVE FALSE
    OBVIOUS
  <2>1. t - 1 \in u .. (e - 1) /\ t # s
    BY <1>1
  <2> QED BY <2>1 DEF EndsText
<1> QED BY <1>1, <1>2, <1>3

LEMMA TextEnds ==
  ASSUME NEW buf, NEW s \in Nat, NEW e \in Nat, s <= e
  PROVE  \E t : EndsText(buf, s, e, t)
<1> DEFINE S == {t \in s .. e : \A j \in t .. (e - 1) : Trailing(buf, s, j)}
<1>1. e \in S /\ S \in SUBSET Nat
  OBVIOUS
<1>2. PICK t \in S : \A u \in S : t <= u
  <2> HIDE DEF S
  <2> QED BY <1>1, LeastExists
<1>3. ASSUME t # s, Trailing(buf, s, t - 1) PROVE FALSE
  <2>1. t - 1 \in s .. e /\ t \in Nat
    BY <1>1, <1>3
  <2>2. \A j \in (t - 1) .. (e - 1) : j = t - 1 \/ j \in t .. (e - 1)
    BY <2>1
  <2>3. t - 1 \in S
    BY <1>3, <2>1, <2>2
  <2> HIDE DEF S
  <2> QED BY <1>2, <2>1, <2>3
<1> QED BY <1>3 DEF EndsText

\* What trim_trailing looks at before it goes on is whether the last trails.
GoesOn(buf, s, e, drop) ==
  drop = [k \in s .. e |->
           IF k = s THEN s
           ELSE CASE Tok(buf, k - 1) = "dot"   -> drop[k - 1]
                  [] Tok(buf, k - 1) = "close" ->
                       IF \E j \in s .. (k - 2) : Tok(buf, j) = "open" THEN k ELSE drop[k - 1]
                  [] OTHER -> k]

DropAt(buf, s, drop, k) ==
  drop[k] = IF k = s THEN s ELSE IF Trailing(buf, s, k - 1) THEN drop[k - 1] ELSE k

LEMMA GoesOnAt ==
  ASSUME NEW buf, NEW s \in Nat, NEW e \in Nat, NEW drop, GoesOn(buf, s, e, drop), NEW k \in s .. e
  PROVE  DropAt(buf, s, drop, k)
<1>1. drop[k] = IF k = s THEN s
           ELSE CASE Tok(buf, k - 1) = "dot"   -> drop[k - 1]
                  [] Tok(buf, k - 1) = "close" ->
                       IF \E j \in s .. (k - 2) : Tok(buf, j) = "open" THEN k ELSE drop[k - 1]
                  [] OTHER -> k
  BY DEF GoesOn
<1>2. (k - 1) - 1 = k - 2
  OBVIOUS
<1>3. Trailing(buf, s, k - 1) <=>
        \/ Tok(buf, k - 1) = "dot"
        \/ Tok(buf, k - 1) = "close" /\ ~ \E j \in s .. (k - 2) : Tok(buf, j) = "open"
  BY <1>2 DEF Trailing
<1>4. "dot" # "close"
  OBVIOUS
<1> QED BY <1>1, <1>3, <1>4 DEF DropAt

LEMMA DropExists ==
  ASSUME NEW buf, NEW s \in Nat, NEW e \in Nat, s <= e
  PROVE  \E drop : GoesOn(buf, s, e, drop)
<1> DEFINE drop == [k \in s .. e |-> CHOOSE t : EndsText(buf, s, k, t)]
<1>1. \A k \in s .. e : EndsText(buf, s, k, drop[k])
  <2> TAKE k \in s .. e
  <2>1. k \in Nat /\ s <= k
    OBVIOUS
  <2>2. \E t : EndsText(buf, s, k, t)
    BY <2>1, TextEnds
  <2>3. EndsText(buf, s, k, CHOOSE t : EndsText(buf, s, k, t))
    BY <2>2
  <2> QED BY <2>3
<1>2. ASSUME NEW k \in s .. e
      PROVE  drop[k] = IF k = s THEN s
               ELSE CASE Tok(buf, k - 1) = "dot"   -> drop[k - 1]
                  [] Tok(buf, k - 1) = "close" ->
                       IF \E j \in s .. (k - 2) : Tok(buf, j) = "open" THEN k ELSE drop[k - 1]
                  [] OTHER -> k
  <2>0. EndsText(buf, s, k, drop[k]) /\ k \in Nat
    BY <1>1
  <2>1. CASE k = s
    BY <2>0, <2>1 DEF EndsText
  <2>2. CASE k # s /\ Trailing(buf, s, k - 1)
    <3>1. k - 1 \in s .. e /\ k - 1 \in Nat
      BY <2>2
    <3>2. EndsText(buf, s, k - 1, drop[k - 1])
      BY <1>1, <3>1
    <3>3. EndsText(buf, s, k, drop[k - 1])
      <4> HIDE DEF drop
      <4>1. drop[k - 1] \in s .. k
        BY <3>1, <3>2 DEF EndsText
      <4>2. \A j \in drop[k - 1] .. (k - 1) : j = k - 1 \/ j \in drop[k - 1] .. ((k - 1) - 1)
        BY <4>1
      <4>3. \A j \in drop[k - 1] .. (k - 1) : Trailing(buf, s, j)
        BY <2>2, <3>2, <4>2 DEF EndsText
      <4> QED BY <3>2, <4>1, <4>3 DEF EndsText
    <3>4. drop[k] = drop[k - 1]
      <4> HIDE DEF drop
      <4> QED BY <2>0, <3>3, TextEndsOnce
    <3>5. (k - 1) - 1 = k - 2
      OBVIOUS
    <3> HIDE DEF drop
    <3> QED BY <2>2, <3>4, <3>5 DEF Trailing
  <2>3. CASE k # s /\ ~Trailing(buf, s, k - 1)
    <3>1. EndsText(buf, s, k, k)
      BY <2>3 DEF EndsText
    <3>2. drop[k] = k
      <4> HIDE DEF drop
      <4> QED BY <2>0, <3>1, TextEndsOnce
    <3>5. (k - 1) - 1 = k - 2
      OBVIOUS
    <3> HIDE DEF drop
    <3> QED BY <2>3, <3>2, <3>5 DEF Trailing
  <2> QED BY <2>1, <2>2, <2>3
<1>3. drop = [k \in s .. e |-> drop[k]]
  OBVIOUS
<1> HIDE DEF drop
<1>4. GoesOn(buf, s, e, drop)
  BY <1>2, <1>3 DEF GoesOn
<1> QED BY <1>4

LEMMA DropEndsText ==
  ASSUME NEW buf, NEW s \in Nat, NEW e \in Nat, s <= e, NEW drop, GoesOn(buf, s, e, drop)
  PROVE  EndsText(buf, s, e, drop[e])
<1> DEFINE S == {i \in Nat : i <= e - s => EndsText(buf, s, s + i, drop[s + i])}
<1>1. 0 \in S
  <2>1. s \in s .. e
    OBVIOUS
  <2>2. DropAt(buf, s, drop, s)
    <3> HIDE DEF S
    <3> QED BY <2>1, GoesOnAt
  <2> QED BY <2>2 DEF EndsText, DropAt
<1>2. ASSUME NEW i \in 0 .. ((e - s) - 1), i \in S PROVE i + 1 \in S
  <2> DEFINE k == s + (i + 1)
  <2>1. k \in s .. e /\ k # s /\ k - 1 = s + i /\ i + 1 \in Nat /\ k \in Nat
    OBVIOUS
  <2>2. EndsText(buf, s, k - 1, drop[k - 1])
    BY <1>2, <2>1
  <2>3. DropAt(buf, s, drop, k)
    <3> HIDE DEF k, S
    <3> QED BY <2>1, GoesOnAt
  <2>4. EndsText(buf, s, k, drop[k])
    <3> HIDE DEF k, S
    <3>1. CASE Trailing(buf, s, k - 1)
      <4>1. drop[k - 1] \in s .. k
        BY <2>1, <2>2 DEF EndsText
      <4>2. \A j \in drop[k - 1] .. (k - 1) : j = k - 1 \/ j \in drop[k - 1] .. ((k - 1) - 1)
        BY <2>1, <4>1
      <4>3. \A j \in drop[k - 1] .. (k - 1) : Trailing(buf, s, j)
        BY <3>1, <2>2, <4>2 DEF EndsText
      <4> QED BY <2>1, <2>2, <2>3, <3>1, <4>1, <4>3 DEF EndsText, DropAt
    <3>2. CASE ~Trailing(buf, s, k - 1)
      BY <2>1, <2>3, <3>2 DEF EndsText, DropAt
    <3> QED BY <3>1, <3>2
  <2> QED BY <2>1, <2>4
<1>3. e - s \in Nat /\ s + (e - s) = e
  OBVIOUS
<1>4. \A i \in 0 .. (e - s) : i \in S
  <2> HIDE DEF S
  <2> QED BY <1>1, <1>2, <1>3, Climb
<1>5. e - s \in S
  BY <1>3, <1>4
<1> QED BY <1>3, <1>5

\* trim_trailing leaves off what trails, and no more.
LEMMA TrimEndEndsText ==
  ASSUME NEW buf, NEW s \in Nat, NEW e \in Nat, s <= e
  PROVE  EndsText(buf, s, e, TrimEnd(buf, s, e))
<1> DEFINE drop[k \in s .. e] ==
        IF k = s THEN s
        ELSE CASE Tok(buf, k - 1) = "dot"   -> drop[k - 1]
               [] Tok(buf, k - 1) = "close" ->
                    IF \E j \in s .. (k - 2) : Tok(buf, j) = "open" THEN k ELSE drop[k - 1]
               [] OTHER -> k
<1>1. \E d : d = [k \in s .. e |->
           IF k = s THEN s
           ELSE CASE Tok(buf, k - 1) = "dot"   -> d[k - 1]
                  [] Tok(buf, k - 1) = "close" ->
                       IF \E j \in s .. (k - 2) : Tok(buf, j) = "open" THEN k ELSE d[k - 1]
                  [] OTHER -> k]
  <2>1. PICK d : GoesOn(buf, s, e, d)
    BY DropExists
  <2> QED BY <2>1 DEF GoesOn
<1>2. GoesOn(buf, s, e, drop)
  BY <1>1 DEF GoesOn
<1>3. TrimEnd(buf, s, e) = drop[e]
  BY DEF TrimEnd
<1> HIDE DEF drop
<1> QED BY <1>2, <1>3, DropEndsText

-----------------------------------------------------------------------------
(***************************************************************************)
(* The scan: a URL for each place it stops at, and only for those          *)
(***************************************************************************)

Hosted(buf, i) == i + PrefixLen <= Len(buf) /\ Tok(buf, i + PrefixLen) \in HostToken

\* One past the URL that starts at i.
UrlEnd(buf, i) == TrimEnd(buf, i, RunEnd(buf, i + PrefixLen))

\* A URL starts at i, and it fits.
Starts(buf, i) ==
  /\ HasPrefixAt(buf, i) /\ Hosted(buf, i)
  /\ UrlEnd(buf, i) - i > PrefixLen
  /\ Len(UrlText(buf, i, UrlEnd(buf, i))) <= MaxUrlLen

SpanAt(buf, i)   == <<i, UrlEnd(buf, i) - 1>>
ShownAt(buf, x)  == [url |-> UrlText(buf, x[1], x[2] + 1),
                     row |-> buf[x[1]].row, col |-> buf[x[1]].col]

LEMMA UrlTokens ==
  ASSUME NEW t \in Token
  PROVE  t \in UrlToken <=> t \notin {"quote", "blank"}
  BY DEF UrlToken

LEMMA PrefixTokens ==
  ASSUME NEW buf, NEW i, HasPrefixAt(buf, i)
  PROVE  Tok(buf, i) \in UrlToken /\ Tok(buf, i + 1) \in UrlToken
<1>1. Tok(buf, i) \in {"https", "www"} /\ Tok(buf, i + 1) \in {"sep", "dot"}
  BY DEF HasPrefixAt
<1> QED BY <1>1 DEF UrlToken, Token

\* What trails is no end of a run.
LEMMA TrailingIsUrlToken ==
  ASSUME NEW buf, NEW s, NEW j, Trailing(buf, s, j)
  PROVE  Tok(buf, j) \in UrlToken
  BY DEF Trailing, UrlToken, Token

\* Where a hosted prefix is, the run and what is left of it end somewhere.
LEMMA UrlEnds ==
  ASSUME NEW buf \in Seq(CellOf), NEW i \in 1 .. Len(buf), Hosted(buf, i)
  PROVE  /\ EndsRun(buf, i + 2, RunEnd(buf, i + 2))
         /\ RunEnd(buf, i + 2) \in Nat
         /\ EndsText(buf, i, RunEnd(buf, i + 2), UrlEnd(buf, i))
         /\ UrlEnd(buf, i) \in i .. RunEnd(buf, i + 2)
<1>1. i + 2 \in 1 .. Len(buf) + 1 /\ Len(buf) \in Nat
  BY DEF Hosted, PrefixLen
<1>2. EndsRun(buf, i + 2, RunEnd(buf, i + 2))
  BY <1>1, RunEndEndsRun
<1>3. RunEnd(buf, i + 2) \in Nat /\ i <= RunEnd(buf, i + 2)
  BY <1>1, <1>2 DEF EndsRun
<1>4. EndsText(buf, i, RunEnd(buf, i + 2), TrimEnd(buf, i, RunEnd(buf, i + 2)))
  BY <1>3, TrimEndEndsText
<1> QED BY <1>2, <1>3, <1>4 DEF UrlEnd, PrefixLen, EndsText

LEMMA UrlAtItsEnd ==
  ASSUME NEW buf \in Seq(CellOf), NEW s \in 1 .. Len(buf), NEW e \in 1 .. Len(buf), s + 2 <= e,
         IsUrl(buf, s, e)
  PROVE  HasPrefixAt(buf, s) /\ Hosted(buf, s) /\ e = UrlEnd(buf, s) - 1
<1>0. Len(buf) \in Nat /\ s \in Nat /\ e \in Nat
  OBVIOUS
<1>1. HasPrefixAt(buf, s)
  <2>1. s > 1 => s - 1 \in 1 .. Len(buf)
    OBVIOUS
  <2>2. s > 1 => Tok(buf, s - 1) \notin UrlToken
    BY <2>1, UrlTokens, TokIsToken DEF IsUrl
  <2>3. s + PrefixLen - 1 <= Len(buf)
    BY <1>0 DEF PrefixLen
  <2> QED BY <2>2, <2>3 DEF IsUrl, HasPrefixAt
<1>2. Hosted(buf, s)
  BY <1>0 DEF IsUrl, Hosted, PrefixLen
<1>3. PICK stop \in e .. Len(buf) :
       /\ \A j \in (e + 1) .. stop : Trailing(buf, s, j)
       /\ stop = Len(buf) \/ Tok(buf, stop + 1) \in {"quote", "blank"}
  BY DEF IsUrl
<1>4. stop \in Nat /\ stop <= Len(buf) /\ e <= stop
  BY <1>0
<1>5. EndsRun(buf, s + 2, stop + 1)
  <2>1. stop + 1 \in s + 2 .. Len(buf) + 1
    BY <1>0, <1>4
  <2>2. ASSUME NEW j \in s + 2 .. ((stop + 1) - 1) PROVE Tok(buf, j) \in UrlToken
    <3>1. CASE j <= e
      <4>1. j \in s .. e /\ j \in 1 .. Len(buf)
        BY <1>0, <1>4, <3>1
      <4> QED BY <4>1, UrlTokens, TokIsToken DEF IsUrl
    <3>2. CASE j > e
      <4>1. j \in (e + 1) .. stop
        BY <1>0, <1>4, <3>2
      <4> QED BY <1>3, <4>1, TrailingIsUrlToken
    <3> QED BY <1>0, <1>4, <3>1, <3>2
  <2>3. stop + 1 <= Len(buf) => Tok(buf, stop + 1) \notin UrlToken
    BY <1>3, <1>4 DEF UrlToken
  <2> QED BY <2>1, <2>2, <2>3 DEF EndsRun
<1>6. RunEnd(buf, s + 2) = stop + 1
  <2>1. s + 2 \in Nat
    OBVIOUS
  <2> QED BY <1>2, <1>5, <2>1, UrlEnds, RunEndsOnce
<1>7. EndsText(buf, s, stop + 1, e + 1)
  <2>1. e + 1 \in s .. stop + 1 /\ (e + 1) - 1 = e /\ (stop + 1) - 1 = stop
    BY <1>0, <1>4
  <2> QED BY <1>3, <2>1 DEF EndsText, IsUrl
<1>8. UrlEnd(buf, s) = e + 1
  <2>1. stop + 1 \in Nat /\ s \in Nat
    BY <1>4
  <2> QED BY <1>2, <1>6, <1>7, <2>1, UrlEnds, TextEndsOnce
<1> QED BY <1>0, <1>1, <1>2, <1>8

LEMMA EndOfUrlIsUrl ==
  ASSUME NEW buf \in Seq(CellOf), NEW s \in 1 .. Len(buf), HasPrefixAt(buf, s), Hosted(buf, s),
         UrlEnd(buf, s) - s > 2
  PROVE  /\ UrlEnd(buf, s) - 1 \in 1 .. Len(buf)
         /\ IsUrl(buf, s, UrlEnd(buf, s) - 1)
<1> DEFINE r == RunEnd(buf, s + 2)
           e == UrlEnd(buf, s) - 1
<1>1. EndsRun(buf, s + 2, r) /\ r \in Nat /\ EndsText(buf, s, r, e + 1) /\ e + 1 \in s .. r
  <2>1. e + 1 = UrlEnd(buf, s)
    BY UrlEnds
  <2> QED BY <2>1, UrlEnds
<1>2. e \in Nat /\ s + 2 <= e /\ e + 1 <= r
  <2>1. UrlEnd(buf, s) \in Nat /\ s \in Nat
    BY UrlEnds
  <2>2. s + 2 <= e /\ e \in Nat
    BY <2>1
  <2> HIDE DEF r, e
  <2> QED BY <1>1, <2>1, <2>2
<1> HIDE DEF r, e
<1>3. r \in s + 2 .. Len(buf) + 1 /\ Len(buf) \in Nat
  BY <1>1 DEF EndsRun
<1>4. <<Tok(buf, s), Tok(buf, s + 1)>> \in {<<"https", "sep">>, <<"www", "dot">>}
  BY DEF HasPrefixAt
<1>5. s = 1 \/ Tok(buf, s - 1) \in {"quote", "blank"}
  <2>1. s > 1 => s - 1 \in 1 .. Len(buf)
    OBVIOUS
  <2>2. s > 1 => Tok(buf, s - 1) \in {"quote", "blank"}
    BY <2>1, UrlTokens, TokIsToken DEF HasPrefixAt
  <2> QED BY <2>2
<1>6. Tok(buf, s + 2) \in HostToken
  BY DEF Hosted, PrefixLen
<1>7. ASSUME NEW j \in s .. e PROVE Tok(buf, j) \notin {"quote", "blank"}
  <2>1. j \in 1 .. Len(buf)
    BY <1>2, <1>3
  <2>2. Tok(buf, j) \in UrlToken
    <3>1. CASE j \in {s, s + 1}
      BY <3>1, PrefixTokens
    <3>2. CASE j \in s + 2 .. (r - 1)
      BY <1>1, <3>2 DEF EndsRun
    <3> QED BY <1>2, <1>3, <3>1, <3>2
  <2> QED BY <2>1, <2>2, UrlTokens, TokIsToken
<1>8. ~Trailing(buf, s, e)
  <2>1. (e + 1) - 1 = e /\ e + 1 # s
    BY <1>2
  <2> QED BY <1>1, <2>1 DEF EndsText
<1>9. \E stop \in e .. Len(buf) :
       /\ \A j \in (e + 1) .. stop : Trailing(buf, s, j)
       /\ stop = Len(buf) \/ Tok(buf, stop + 1) \in {"quote", "blank"}
  <2>1. r - 1 \in e .. Len(buf) /\ (r - 1) + 1 = r
    BY <1>2, <1>3
  <2>2. \A j \in (e + 1) .. (r - 1) : Trailing(buf, s, j)
    BY <1>1 DEF EndsText
  <2>3. r - 1 = Len(buf) \/ Tok(buf, r) \in {"quote", "blank"}
    <3>1. CASE r <= Len(buf)
      <4>1. r \in 1 .. Len(buf)
        BY <1>3, <3>1
      <4>2. Tok(buf, r) \notin UrlToken
        BY <1>1, <3>1 DEF EndsRun
      <4> QED BY <4>1, <4>2, UrlTokens, TokIsToken
    <3> QED BY <1>3, <3>1
  <2> QED BY <2>1, <2>2, <2>3
<1>10. IsUrl(buf, s, e)
  BY <1>4, <1>5, <1>6, <1>7, <1>8, <1>9 DEF IsUrl
<1>11. e \in 1 .. Len(buf)
  BY <1>2, <1>3
<1> QED BY <1>10, <1>11 DEF e

\* The URLs that a reader sees are those that a scan of each place finds.
LEMMA SpansStart ==
  ASSUME NEW buf \in Seq(CellOf)
  PROVE  UrlSpans(buf) = {SpanAt(buf, i) : i \in {j \in 1 .. Len(buf) : Starts(buf, j)}}
<1>1. ASSUME NEW x \in UrlSpans(buf)
      PROVE  \E i \in {j \in 1 .. Len(buf) : Starts(buf, j)} : x = SpanAt(buf, i)
  <2>1. /\ x \in (1 .. Len(buf)) \X (1 .. Len(buf)) /\ x[1] + 2 <= x[2]
        /\ IsUrl(buf, x[1], x[2]) /\ Len(UrlText(buf, x[1], x[2] + 1)) <= MaxUrlLen
    BY DEF UrlSpans, PrefixLen
  <2>2. x[1] \in 1 .. Len(buf) /\ x[2] \in 1 .. Len(buf) /\ x = <<x[1], x[2]>>
    BY <2>1
  <2>3. HasPrefixAt(buf, x[1]) /\ Hosted(buf, x[1]) /\ x[2] = UrlEnd(buf, x[1]) - 1
    BY <2>1, <2>2, UrlAtItsEnd
  <2>4. UrlEnd(buf, x[1]) \in Int
    BY <2>2, <2>3, UrlEnds
  <2>5. UrlEnd(buf, x[1]) = x[2] + 1
    BY <2>2, <2>3, <2>4
  <2>6. Starts(buf, x[1])
    BY <2>1, <2>2, <2>3, <2>5 DEF Starts, PrefixLen
  <2> QED BY <2>2, <2>3, <2>6 DEF SpanAt
<1>2. ASSUME NEW i \in 1 .. Len(buf), Starts(buf, i)
      PROVE  SpanAt(buf, i) \in UrlSpans(buf)
  <2>1. HasPrefixAt(buf, i) /\ Hosted(buf, i) /\ UrlEnd(buf, i) - i > 2
    BY <1>2 DEF Starts, PrefixLen
  <2>2. UrlEnd(buf, i) - 1 \in 1 .. Len(buf) /\ IsUrl(buf, i, UrlEnd(buf, i) - 1)
    BY <2>1, EndOfUrlIsUrl
  <2>3. UrlEnd(buf, i) \in Int /\ i \in Int
    BY <2>1, UrlEnds
  <2>4. i + 2 <= UrlEnd(buf, i) - 1 /\ (UrlEnd(buf, i) - 1) + 1 = UrlEnd(buf, i)
    BY <2>1, <2>3
  <2> DEFINE e == UrlEnd(buf, i) - 1
  <2>5. <<i, e>> \in (1 .. Len(buf)) \X (1 .. Len(buf))
    BY <2>2
  <2>6. Len(UrlText(buf, i, e + 1)) <= MaxUrlLen
    BY <1>2, <2>4 DEF Starts
  <2> HIDE DEF e
  <2>7. i + PrefixLen <= e /\ IsUrl(buf, i, e)
    BY <2>2, <2>4 DEF e, PrefixLen
  <2>8. <<i, e>> \in UrlSpans(buf)
    BY <2>5, <2>6, <2>7 DEF UrlSpans
  <2> QED BY <2>8 DEF e, SpanAt
<1> QED BY <1>1, <1>2

\* Where the scan goes on, it has passed over no URL.
LEMMA StepPasses ==
  ASSUME NEW buf \in Seq(CellOf), NEW i \in 1 .. Len(buf)
  PROVE  /\ Step(buf, i).next \in i + 1 .. Len(buf) + 2
         /\ \A j \in i + 1 .. Step(buf, i).next - 1 : j <= Len(buf) => ~Starts(buf, j)
<1>0. Len(buf) \in Nat /\ i \in Nat
  OBVIOUS
<1>1. CASE ~HasPrefixAt(buf, i)
  <2>1. Step(buf, i).next = i + 1
    BY <1>1 DEF Step
  <2> QED BY <1>0, <2>1
<1>2. CASE HasPrefixAt(buf, i) /\ ~Hosted(buf, i)
  <2>1. Step(buf, i).next = i + 2
    BY <1>2 DEF Step, Hosted, PrefixLen
  <2>2. i + 1 <= Len(buf)
    BY <1>0, <1>2 DEF HasPrefixAt, PrefixLen
  <2>3. ~Starts(buf, i + 1)
    <3>1. Tok(buf, i) \in UrlToken
      BY <1>2, PrefixTokens
    <3>2. (i + 1) - 1 = i /\ i + 1 > 1
      BY <1>0
    <3> QED BY <3>1, <3>2 DEF Starts, HasPrefixAt
  <2>4. \A j \in i + 1 .. (i + 2) - 1 : j = i + 1
    BY <1>0
  <2> QED BY <1>0, <2>1, <2>2, <2>3, <2>4
<1>3. CASE HasPrefixAt(buf, i) /\ Hosted(buf, i)
  <2> DEFINE r == RunEnd(buf, i + 2)
  <2>1. Step(buf, i).next = r
    BY <1>3 DEF Step, Hosted, PrefixLen
  <2>2. EndsRun(buf, i + 2, r) /\ r \in Nat
    BY <1>3, UrlEnds
  <2> HIDE DEF r
  <2>3. r \in i + 2 .. Len(buf) + 1
    BY <2>2 DEF EndsRun
  <2>4. ASSUME NEW j \in i + 1 .. r - 1 PROVE ~Starts(buf, j)
    <3>1. Tok(buf, j - 1) \in UrlToken
      <4>1. CASE j - 1 \in {i, i + 1}
        BY <1>3, <4>1, PrefixTokens
      <4>2. CASE j - 1 \in i + 2 .. (r - 1)
        BY <2>2, <4>2 DEF EndsRun
      <4> QED BY <1>0, <2>3, <4>1, <4>2
    <3>2. j > 1
      BY <1>0, <2>3
    <3> QED BY <3>1, <3>2 DEF Starts, HasPrefixAt
  <2> QED BY <1>0, <2>1, <2>3, <2>4
<1> QED BY <1>1, <1>2, <1>3

LEMMA StepFinds ==
  ASSUME NEW buf \in Seq(CellOf), NEW i \in 1 .. Len(buf)
  PROVE  IF Starts(buf, i) THEN Step(buf, i).found = <<ShownAt(buf, SpanAt(buf, i))>>
                           ELSE Step(buf, i).found = <<>>
<1>1. CASE ~HasPrefixAt(buf, i) \/ ~Hosted(buf, i)
  BY <1>1 DEF Step, Hosted, Starts, PrefixLen
<1>2. CASE HasPrefixAt(buf, i) /\ Hosted(buf, i)
  <2>1. (UrlEnd(buf, i) - 1) + 1 = UrlEnd(buf, i)
    BY <1>2, UrlEnds
  <2>2. SpanAt(buf, i)[1] = i /\ SpanAt(buf, i)[2] + 1 = UrlEnd(buf, i)
    BY <2>1 DEF SpanAt
  <2>3. Step(buf, i).found =
          IF Starts(buf, i)
            THEN <<[url |-> UrlText(buf, i, UrlEnd(buf, i)), row |-> buf[i].row, col |-> buf[i].col]>>
            ELSE <<>>
    BY <1>2 DEF Step, Starts, Hosted, UrlEnd
  <2> QED BY <2>2, <2>3 DEF ShownAt
<1> QED BY <1>1, <1>2

-----------------------------------------------------------------------------
(***************************************************************************)
(* A loop that goes through 1..m by nx and adds fd at each place           *)
(***************************************************************************)

\* f[i] is what the loop adds from i on.
Unrolls(f, fd, nx, n, m) ==
  f = [i \in 1 .. m |-> IF i > n THEN <<>> ELSE fd[i] \o f[nx[i]]]

GoesForward(nx, n, m) == \A i \in 1 .. n : nx[i] \in i + 1 .. m

UnrollsFrom(f, fd, nx, n, m, k) ==
  \A i \in k .. m : f[i] = IF i > n THEN <<>> ELSE fd[i] \o f[nx[i]]

LEMMA UnrollsOneMore ==
  ASSUME NEW fd, NEW nx, NEW n \in Nat, NEW m \in Nat, n < m, GoesForward(nx, n, m),
         NEW k \in 1 .. m, NEW f, UnrollsFrom(f, fd, nx, n, m, k + 1)
  PROVE  \E g : UnrollsFrom(g, fd, nx, n, m, k)
<1> DEFINE at == IF k > n THEN <<>> ELSE fd[k] \o f[nx[k]]
           g  == [i \in 1 .. m |-> IF i = k THEN at ELSE f[i]]
<1>1. \A i \in k + 1 .. m : g[i] = f[i]
  OBVIOUS
<1>2. \A i \in k .. m : i <= n => nx[i] \in k + 1 .. m
  BY DEF GoesForward
<1>3. g[k] = at
  OBVIOUS
<1>4. \A i \in k .. m : i <= n => g[nx[i]] = f[nx[i]]
  BY <1>1, <1>2
<1> HIDE DEF g
<1>5. ASSUME NEW i \in k .. m PROVE g[i] = IF i > n THEN <<>> ELSE fd[i] \o g[nx[i]]
  <2>0. i \in Nat /\ k \in Nat
    OBVIOUS
  <2>1. CASE i = k
    <3>1. CASE k > n
      BY <1>3, <2>1, <3>1
    <3>2. CASE ~(k > n)
      <4>1. k <= n
        BY <2>0, <3>2
      <4>2. g[nx[k]] = f[nx[k]]
        BY <1>4, <2>1, <4>1
      <4> QED BY <1>3, <2>1, <3>2, <4>2
    <3> QED BY <3>1, <3>2
  <2>2. CASE i # k
    <3>1. i \in k + 1 .. m
      BY <2>0, <2>2
    <3> HIDE DEF at
    <3>2. g[i] = f[i] /\ f[i] = IF i > n THEN <<>> ELSE fd[i] \o f[nx[i]]
      BY <1>1, <3>1 DEF UnrollsFrom
    <3>3. CASE i > n
      BY <3>2, <3>3
    <3>4. CASE ~(i > n)
      <4>1. i <= n
        BY <2>0, <3>4
      <4>2. g[nx[i]] = f[nx[i]]
        BY <1>4, <4>1
      <4> QED BY <3>2, <3>4, <4>2
    <3> QED BY <3>3, <3>4
  <2> QED BY <2>1, <2>2
<1> QED BY <1>5 DEF UnrollsFrom

LEMMA UnrollExists ==
  ASSUME NEW fd, NEW nx, NEW n \in Nat, NEW m \in Nat, n < m, GoesForward(nx, n, m)
  PROVE  \E f : Unrolls(f, fd, nx, n, m)
<1> DEFINE Has(k) == \E f : UnrollsFrom(f, fd, nx, n, m, (m + 1) - k)
           S == {k \in Nat : k <= m => Has(k)}
<1>1. 0 \in S
  <2>1. UnrollsFrom(nx, fd, nx, n, m, (m + 1) - 0)
    BY DEF UnrollsFrom
  <2> QED BY <2>1
<1>2. ASSUME NEW k \in 0 .. (m - 1), k \in S PROVE k + 1 \in S
  <2>1. PICK f : UnrollsFrom(f, fd, nx, n, m, (m + 1) - k)
    BY <1>2
  <2>2. m - k \in 1 .. m /\ (m - k) + 1 = (m + 1) - k /\ (m + 1) - (k + 1) = m - k
    OBVIOUS
  <2>3. UnrollsFrom(f, fd, nx, n, m, (m - k) + 1)
    BY <2>1, <2>2
  <2>4. \E g : UnrollsFrom(g, fd, nx, n, m, m - k)
    <3> HIDE DEF S
    <3> QED BY <2>2, <2>3, UnrollsOneMore
  <2>5. Has(k + 1)
    BY <2>2, <2>4
  <2> QED BY <2>5
<1>3. m \in S
  <2> HIDE DEF S
  <2>1. \A i \in 0 .. m : i \in S
    BY <1>1, <1>2, Climb
  <2> QED BY <2>1
<1>4. (m + 1) - m = 1
  OBVIOUS
<1>5. PICK f : UnrollsFrom(f, fd, nx, n, m, 1)
  BY <1>3, <1>4
<1> DEFINE g == [i \in 1 .. m |-> f[i]]
<1>6. ASSUME NEW i \in 1 .. m PROVE g[i] = IF i > n THEN <<>> ELSE fd[i] \o g[nx[i]]
  <2>1. f[i] = IF i > n THEN <<>> ELSE fd[i] \o f[nx[i]]
    BY <1>5 DEF UnrollsFrom
  <2>2. CASE i > n
    BY <2>1, <2>2
  <2>3. CASE ~(i > n)
    <3>1. i \in 1 .. n
      BY <2>3
    <3>2. nx[i] \in 1 .. m
      BY <3>1 DEF GoesForward
    <3>3. g[nx[i]] = f[nx[i]] /\ g[i] = f[i]
      BY <3>2
    <3> HIDE DEF g
    <3> QED BY <2>1, <2>3, <3>3
  <2> QED BY <2>2, <2>3
<1>7. g = [i \in 1 .. m |-> g[i]]
  OBVIOUS
<1> HIDE DEF g
<1>8. Unrolls(g, fd, nx, n, m)
  BY <1>6, <1>7 DEF Unrolls
<1> QED BY <1>8

\* list is v of the places in G, in order; p[j] is where its j-th is from.
Lists(list, p, k, G, v, V) ==
  /\ k \in Nat /\ p \in [1 .. k -> G]
  /\ \A a, b \in 1 .. k : a < b => p[a] < p[b]
  /\ \A x \in G : \E a \in 1 .. k : p[a] = x
  /\ list \in Seq(V) /\ Len(list) = k
  /\ \A a \in 1 .. k : list[a] = v[p[a]]

HasList(list, G, v, V) == \E p, k : Lists(list, p, k, G, v, V)

LEMMA ListOfNone ==
  ASSUME NEW v, NEW V
  PROVE  HasList(<<>>, {}, v, V)
<1> DEFINE p == [a \in 1 .. 0 |-> a]
<1>1. p \in [1 .. 0 -> {}]
  OBVIOUS
<1>2. <<>> \in Seq(V) /\ Len(<<>>) = 0
  OBVIOUS
<1> HIDE DEF p
<1>3. Lists(<<>>, p, 0, {}, v, V)
  BY <1>1, <1>2 DEF Lists
<1> QED BY <1>3 DEF HasList

LEMMA ListOfOneMore ==
  ASSUME NEW G \in SUBSET Nat, NEW v, NEW V, NEW i \in Nat, \A x \in G : i < x, v[i] \in V,
         NEW list, HasList(list, G, v, V)
  PROVE  HasList(<<v[i]>> \o list, G \cup {i}, v, V)
<1>1. PICK p, k : Lists(list, p, k, G, v, V)
  BY DEF HasList
<1>2. k \in Nat /\ p \in [1 .. k -> G] /\ list \in Seq(V) /\ Len(list) = k
  BY <1>1 DEF Lists
<1> DEFINE q    == [a \in 1 .. k + 1 |-> IF a = 1 THEN i ELSE p[a - 1]]
           more == <<v[i]>> \o list
<1>3. \A a \in 1 .. k + 1 : a # 1 => a - 1 \in 1 .. k /\ p[a - 1] \in G
  BY <1>2
<1>4. q \in [1 .. k + 1 -> G \cup {i}]
  BY <1>3
<1>5. q[1] = i /\ \A a \in 1 .. k + 1 : a # 1 => q[a] = p[a - 1]
  BY <1>2
<1>6. <<v[i]>> \in Seq(V) /\ Len(<<v[i]>>) = 1
  OBVIOUS
<1>7. more \in Seq(V) /\ Len(more) = k + 1
  BY <1>2, <1>6, ConcatProperties
<1>8. more[1] = v[i] /\ \A a \in 1 .. k + 1 : a # 1 => more[a] = list[a - 1]
  BY <1>2, <1>6, ConcatProperties
<1> HIDE DEF q, more
<1>9. ASSUME NEW a \in 1 .. k + 1, NEW b \in 1 .. k + 1, a < b PROVE q[a] < q[b]
  <2>1. b # 1 /\ b - 1 \in 1 .. k /\ q[b] = p[b - 1] /\ p[b - 1] \in G
    BY <1>2, <1>3, <1>5, <1>9
  <2>2. CASE a = 1
    BY <1>5, <2>1, <2>2
  <2>3. CASE a # 1
    <3>1. a - 1 \in 1 .. k /\ q[a] = p[a - 1] /\ a - 1 < b - 1
      BY <1>2, <1>3, <1>5, <1>9, <2>3
    <3> QED BY <1>1, <2>1, <3>1 DEF Lists
  <2> QED BY <2>2, <2>3
<1>10. ASSUME NEW x \in G \cup {i} PROVE \E a \in 1 .. k + 1 : q[a] = x
  <2>1. CASE x = i
    <3>1. 1 \in 1 .. k + 1
      BY <1>2
    <3> QED BY <1>5, <2>1, <3>1
  <2>2. CASE x \in G
    <3>1. PICK a \in 1 .. k : p[a] = x
      BY <1>1, <2>2 DEF Lists
    <3>2. a + 1 \in 1 .. k + 1 /\ a + 1 # 1 /\ (a + 1) - 1 = a
      BY <1>2
    <3> QED BY <1>5, <3>1, <3>2
  <2> QED BY <2>1, <2>2
<1>11. ASSUME NEW a \in 1 .. k + 1 PROVE more[a] = v[q[a]]
  <2>1. CASE a = 1
    BY <1>5, <1>8, <2>1
  <2>2. CASE a # 1
    <3>1. a - 1 \in 1 .. k /\ q[a] = p[a - 1] /\ more[a] = list[a - 1]
      BY <1>3, <1>5, <1>8, <2>2
    <3> QED BY <1>1, <3>1 DEF Lists
  <2> QED BY <2>1, <2>2
<1>12. Lists(more, q, k + 1, G \cup {i}, v, V)
  BY <1>2, <1>4, <1>7, <1>9, <1>10, <1>11 DEF Lists
<1>13. HasList(more, G \cup {i}, v, V)
  BY <1>12 DEF HasList
<1> QED BY <1>13 DEF more

\* What is left of G from i on.
FromOn(G, i) == {x \in G : x >= i}

LEMMA NoneFromOn ==
  ASSUME NEW n \in Nat, NEW G \in SUBSET (1 .. n), NEW i \in Nat, i > n
  PROVE  FromOn(G, i) = {}
<1>1. \A x \in G : x \in 1 .. n
  OBVIOUS
<1>2. \A x \in G : ~(x >= i)
  BY <1>1
<1> QED BY <1>2 DEF FromOn

LEMMA AllFromOn ==
  ASSUME NEW n \in Nat, NEW G \in SUBSET (1 .. n)
  PROVE  FromOn(G, 1) = G
<1>1. \A x \in G : x \in 1 .. n
  OBVIOUS
<1>2. \A x \in G : x >= 1
  BY <1>1
<1> QED BY <1>2 DEF FromOn

LEMMA SkipsFromOn ==
  ASSUME NEW G \in SUBSET Nat, NEW i \in Nat, NEW j \in Nat, i < j,
         \A x \in i + 1 .. j - 1 : x \notin G
  PROVE  /\ i \in G => FromOn(G, i) = FromOn(G, j) \cup {i}
         /\ i \notin G => FromOn(G, i) = FromOn(G, j)
<1>1. \A x \in G : x >= i <=> (x = i \/ x >= j)
  OBVIOUS
<1>2. i >= i
  OBVIOUS
<1>3. CASE i \in G
  BY <1>1, <1>2, <1>3 DEF FromOn
<1>4. CASE i \notin G
  BY <1>1, <1>4 DEF FromOn
<1> QED BY <1>3, <1>4

LEMMA FromOnIsBeyond ==
  ASSUME NEW G \in SUBSET Nat, NEW i \in Nat, NEW j \in Nat, i < j
  PROVE  FromOn(G, j) \in SUBSET Nat /\ \A x \in FromOn(G, j) : i < x
<1>1. \A x \in G : x \in Nat
  OBVIOUS
<1>2. \A x \in G : x >= j => i < x
  BY <1>1
<1>3. \A x \in FromOn(G, j) : x \in G /\ x >= j
  BY DEF FromOn
<1> QED BY <1>1, <1>2, <1>3

\* A loop that adds v at the places in G and passes over none lists G.
FindsAt(fd, G, v, n) ==
  \A i \in 1 .. n : IF i \in G THEN fd[i] = <<v[i]>> ELSE fd[i] = <<>>
PassesOver(nx, G, n) ==
  \A i \in 1 .. n : \A j \in i + 1 .. nx[i] - 1 : j \notin G

LEMMA UnrollLists ==
  ASSUME NEW n \in Nat, NEW m \in Nat, n < m, NEW G \in SUBSET (1 .. n), NEW V, NEW v,
         \A i \in G : v[i] \in V,
         NEW fd, FindsAt(fd, G, v, n), NEW nx, GoesForward(nx, n, m), PassesOver(nx, G, n),
         NEW f, Unrolls(f, fd, nx, n, m)
  PROVE  HasList(f[1], G, v, V)
<1> DEFINE Has(i) == HasList(f[i], FromOn(G, i), v, V)
           S == {k \in Nat : \A i \in m - k .. m : i >= 1 => Has(i)}
<1>0. G \in SUBSET Nat
  OBVIOUS
<1>1. \A i \in 1 .. m : f[i] = IF i > n THEN <<>> ELSE fd[i] \o f[nx[i]]
  BY DEF Unrolls
<1>2. ASSUME NEW i \in 1 .. m, i > n PROVE Has(i)
  <2>1. FromOn(G, i) = {}
    BY <1>2, NoneFromOn
  <2>2. f[i] = <<>>
    BY <1>1, <1>2
  <2>3. HasList(<<>>, {}, v, V)
    BY ListOfNone
  <2> QED BY <2>1, <2>2, <2>3
<1>3. ASSUME NEW i \in 1 .. n, Has(nx[i]) PROVE Has(i)
  <2>1. nx[i] \in i + 1 .. m /\ nx[i] \in Nat /\ i < nx[i]
    BY DEF GoesForward
  <2>2. f[i] = fd[i] \o f[nx[i]]
    <3>1. i \in 1 .. m /\ ~(i > n)
      OBVIOUS
    <3> QED BY <1>1, <3>1
  <2>3. \A x \in i + 1 .. nx[i] - 1 : x \notin G
    BY DEF PassesOver
  <2> DEFINE j    == nx[i]
             A    == FromOn(G, j)
             rest == f[j]
  <2>9. i \in Nat /\ j \in Nat /\ i < j /\ \A x \in i + 1 .. j - 1 : x \notin G
    BY <2>1, <2>3
  <2>4. /\ i \in G => FromOn(G, i) = A \cup {i}
        /\ i \notin G => FromOn(G, i) = A
    <3> HIDE DEF Has, S, j
    <3> QED BY <1>0, <2>9, SkipsFromOn
  <2>8. A \in SUBSET Nat /\ (\A x \in A : i < x) /\ i \in Nat
    <3> HIDE DEF Has, S, j
    <3> QED BY <1>0, <2>9, FromOnIsBeyond
  <2>5. HasList(rest, A, v, V) /\ f[i] = fd[i] \o rest
    BY <1>3, <2>2
  <2> HIDE DEF A, rest, j
  <2>6. CASE i \in G
    <3>1. fd[i] = <<v[i]>> /\ v[i] \in V
      BY <2>6 DEF FindsAt
    <3>2. HasList(<<v[i]>> \o rest, A \cup {i}, v, V)
      BY <2>5, <2>8, <3>1, ListOfOneMore
    <3> QED BY <2>4, <2>5, <2>6, <3>1, <3>2
  <2>7. CASE i \notin G
    <3>1. fd[i] = <<>>
      BY <2>7 DEF FindsAt
    <3>2. rest \in Seq(V)
      BY <2>5 DEF HasList, Lists
    <3>3. f[i] = rest
      BY <2>5, <3>1, <3>2, ConcatEmptySeq
    <3> QED BY <2>4, <2>5, <2>7, <3>3
  <2> QED BY <2>6, <2>7
<1>4. 0 \in S
  <2>1. \A i \in m - 0 .. m : i = m /\ i > n
    OBVIOUS
  <2> HIDE DEF Has
  <2> QED BY <1>2, <2>1
<1>5. ASSUME NEW k \in 0 .. ((m - 1) - 1), k \in S PROVE k + 1 \in S
  <2> DEFINE i == m - (k + 1)
  <2>1. i \in 1 .. m /\ k + 1 \in Nat
    OBVIOUS
  <2>2. Has(i)
    <3>1. CASE i > n
      <4> HIDE DEF Has, i
      <4> QED BY <1>2, <2>1, <3>1
    <3>2. CASE i <= n
      <4>1. i \in 1 .. n
        BY <3>2
      <4>2. nx[i] \in i + 1 .. m
        BY <4>1 DEF GoesForward
      <4>3. nx[i] \in m - k .. m /\ nx[i] >= 1
        BY <4>2
      <4>4. Has(nx[i])
        <5> HIDE DEF Has, i
        <5> QED BY <1>5, <4>3
      <4> HIDE DEF Has, i
      <4> QED BY <1>3, <4>1, <4>4
    <3> QED BY <3>1, <3>2
  <2>3. \A j \in m - (k + 1) .. m : j = i \/ j \in m - k .. m
    OBVIOUS
  <2>4. ASSUME NEW j \in m - (k + 1) .. m, j >= 1 PROVE Has(j)
    <3> HIDE DEF Has, i
    <3> QED BY <1>5, <2>2, <2>3, <2>4
  <2> HIDE DEF Has, i
  <2> QED BY <2>1, <2>4
<1>6. m - 1 \in S
  <2> HIDE DEF S
  <2>1. \A i \in 0 .. (m - 1) : i \in S
    BY <1>4, <1>5, Climb
  <2> QED BY <2>1
<1>7. Has(1)
  <2>1. 1 \in m - (m - 1) .. m /\ 1 >= 1
    OBVIOUS
  <2> HIDE DEF Has
  <2> QED BY <1>6, <2>1
<1> QED BY <1>7, AllFromOn

\* What the loop adds is made of what it adds at each place.
LEMMA UnrollSeq ==
  ASSUME NEW n \in Nat, NEW m \in Nat, n < m, NEW V, NEW fd, \A i \in 1 .. n : fd[i] \in Seq(V),
         NEW nx, GoesForward(nx, n, m), NEW f, Unrolls(f, fd, nx, n, m)
  PROVE  f[1] \in Seq(V)
<1> DEFINE S == {i \in 1 .. m : f[i] \in Seq(V)}
<1>1. ASSUME NEW i \in 1 .. m, \A j \in i + 1 .. m : j \in S PROVE i \in S
  <2>1. f[i] = IF i > n THEN <<>> ELSE fd[i] \o f[nx[i]]
    BY DEF Unrolls
  <2>2. CASE i > n
    <3>1. <<>> \in Seq(V)
      OBVIOUS
    <3> QED BY <2>1, <2>2, <3>1
  <2>3. CASE ~(i > n)
    <3>1. i \in 1 .. n /\ nx[i] \in i + 1 .. m
      BY <2>3 DEF GoesForward
    <3>2. f[nx[i]] \in Seq(V) /\ fd[i] \in Seq(V)
      BY <1>1, <3>1
    <3>3. fd[i] \o f[nx[i]] \in Seq(V)
      BY <3>2, ConcatProperties
    <3> QED BY <2>1, <2>3, <3>3
  <2> QED BY <2>2, <2>3
<1>2. 1 <= m
  OBVIOUS
<1>3. 1 \in S
  <2> HIDE DEF S
  <2> QED BY <1>1, <1>2, Descend
<1> QED BY <1>3

-----------------------------------------------------------------------------
(***************************************************************************)
(* What is on the screen, and what the scan makes of it                    *)
(***************************************************************************)

LEMMA RowIsCells ==
  ASSUME NEW s \in Screen, NEW y \in 1 .. Rows
  PROVE  RowCells(s, y) \in Seq(CellOf)
<1>1. Rows \in Nat /\ Cols \in Nat /\ 1 <= Cols
      /\ s[y] \in [1 .. Cols -> Token] \cup {Unread}
  BY PickerAssumption
<1>2. CASE s[y] = Unread
  BY <1>2 DEF RowCells
<1>3. CASE s[y] # Unread
  <2> DEFINE cells == [x \in 1 .. Cols |-> Cell(s, y, x)]
             sep == [tok |-> "blank", row |-> y, col |-> Cols + 1]
  <2>1. \A x \in 1 .. Cols : s[y][x] \in Token
    BY <1>1, <1>3
  <2>2. \A x \in 1 .. Cols : Cell(s, y, x) \in CellOf
    BY <1>1, <2>1 DEF Cell, CellOf
  <2>3. cells \in Seq(CellOf)
    <3>1. cells \in [1 .. Cols -> CellOf]
      BY <2>2
    <3> HIDE DEF cells
    <3> QED BY <1>1, <3>1
  <2>4. sep \in CellOf
    BY <1>1 DEF CellOf, Token
  <2>5. Append(cells, sep) \in Seq(CellOf)
    <3> HIDE DEF cells, sep
    <3> QED BY <2>3, <2>4
  <2> QED BY <1>3, <2>3, <2>5 DEF RowCells
<1> QED BY <1>2, <1>3

LEMMA FlatIsCells ==
  ASSUME NEW s \in Screen
  PROVE  Flat(s) \in Seq(CellOf)
<1>0. Rows \in Nat /\ Rows + 1 \in Nat /\ Rows < Rows + 1
  BY PickerAssumption
<1> DEFINE fd == [y \in 1 .. Rows |-> RowCells(s, y)]
           nx == [y \in 1 .. Rows |-> y + 1]
           from[y \in 1 .. (Rows + 1)] == IF y > Rows THEN <<>> ELSE RowCells(s, y) \o from[y + 1]
<1>1. GoesForward(nx, Rows, Rows + 1)
  BY <1>0 DEF GoesForward
<1>2. \A y \in 1 .. Rows : fd[y] \in Seq(CellOf)
  BY RowIsCells
<1>3. ASSUME NEW f, Unrolls(f, fd, nx, Rows, Rows + 1)
      PROVE  f = [y \in 1 .. (Rows + 1) |-> IF y > Rows THEN <<>> ELSE RowCells(s, y) \o f[y + 1]]
  <2>1. \A y \in 1 .. (Rows + 1) : y > Rows \/ y \in 1 .. Rows
    BY <1>0
  <2>2. \A y \in 1 .. Rows : fd[y] = RowCells(s, y) /\ nx[y] = y + 1
    OBVIOUS
  <2> HIDE DEF fd, nx
  <2> QED BY <1>3, <2>1, <2>2 DEF Unrolls
<1>4. \E f : Unrolls(f, fd, nx, Rows, Rows + 1)
  <2> HIDE DEF fd, nx
  <2> QED BY <1>0, <1>1, UnrollExists
<1>5. \E f : f = [y \in 1 .. (Rows + 1) |-> IF y > Rows THEN <<>> ELSE RowCells(s, y) \o f[y + 1]]
  <2> HIDE DEF fd, nx
  <2>1. PICK f : Unrolls(f, fd, nx, Rows, Rows + 1)
    BY <1>4
  <2> QED BY <1>3, <2>1
<1>6. from = [y \in 1 .. (Rows + 1) |-> IF y > Rows THEN <<>> ELSE RowCells(s, y) \o from[y + 1]]
  BY <1>5
<1>7. Flat(s) = from[1]
  BY DEF Flat
<1> HIDE DEF from
<1>8. Unrolls(from, fd, nx, Rows, Rows + 1)
  <2>1. \A y \in 1 .. (Rows + 1) : y > Rows \/ y \in 1 .. Rows
    BY <1>0
  <2>2. \A y \in 1 .. Rows : fd[y] = RowCells(s, y) /\ nx[y] = y + 1
    OBVIOUS
  <2> HIDE DEF fd, nx
  <2> QED BY <1>6, <2>1, <2>2 DEF Unrolls
<1>9. from[1] \in Seq(CellOf)
  <2> HIDE DEF fd, nx
  <2> QED BY <1>0, <1>1, <1>2, <1>8, UnrollSeq
<1> QED BY <1>7, <1>9

StartsOf(buf) == {j \in 1 .. Len(buf) : Starts(buf, j)}
ShownOf(buf)  == [i \in 1 .. Len(buf) |-> ShownAt(buf, SpanAt(buf, i))]
Shape(buf)    == {ShownOf(buf)[i] : i \in 1 .. Len(buf)}

\* scan_buffer lists what is shown where a URL starts, up to the cap.
LEMMA ScanLists ==
  ASSUME NEW buf \in Seq(CellOf)
  PROVE  \E all : /\ HasList(all, StartsOf(buf), ShownOf(buf), Shape(buf))
                  /\ ScanBuffer(buf) = SubSeq(all, 1, IF Len(all) < MaxMatches THEN Len(all) ELSE MaxMatches)
<1> DEFINE n == Len(buf)
           m == Len(buf) + PrefixLen
           fd == [i \in 1 .. n |-> Step(buf, i).found]
           nx == [i \in 1 .. n |-> Step(buf, i).next]
           from[i \in 1 .. (Len(buf) + PrefixLen)] ==
              IF i > Len(buf) THEN <<>> ELSE Step(buf, i).found \o from[Step(buf, i).next]
<1>0. n \in Nat /\ m \in Nat /\ n < m
  BY DEF PrefixLen
<1>1. GoesForward(nx, n, m)
  BY StepPasses DEF GoesForward, PrefixLen
<1>2. PassesOver(nx, StartsOf(buf), n)
  BY StepPasses DEF PassesOver, StartsOf
<1>3. FindsAt(fd, StartsOf(buf), ShownOf(buf), n)
  <2>1. ASSUME NEW i \in 1 .. n
        PROVE  IF i \in StartsOf(buf) THEN fd[i] = <<ShownOf(buf)[i]>> ELSE fd[i] = <<>>
    <3>1. fd[i] = Step(buf, i).found /\ ShownOf(buf)[i] = ShownAt(buf, SpanAt(buf, i))
      BY DEF ShownOf
    <3>2. i \in StartsOf(buf) <=> Starts(buf, i)
      BY DEF StartsOf
    <3>3. i \in 1 .. Len(buf)
      OBVIOUS
    <3> HIDE DEF fd, n
    <3> QED BY <3>1, <3>2, <3>3, StepFinds
  <2> HIDE DEF fd, n
  <2> QED BY <2>1 DEF FindsAt
<1>4. \E f : Unrolls(f, fd, nx, n, m)
  <2> HIDE DEF fd, nx, n, m
  <2> QED BY <1>0, <1>1, UnrollExists
<1>5. \A i \in 1 .. m : i > n \/ i \in 1 .. n
  BY <1>0
<1>6. \A i \in 1 .. n : fd[i] = Step(buf, i).found /\ nx[i] = Step(buf, i).next
  OBVIOUS
<1>7. \E f : f = [i \in 1 .. (Len(buf) + PrefixLen) |->
                    IF i > Len(buf) THEN <<>> ELSE Step(buf, i).found \o f[Step(buf, i).next]]
  <2>1. PICK f : Unrolls(f, fd, nx, n, m)
    BY <1>4
  <2>2. f = [i \in 1 .. m |-> IF i > n THEN <<>> ELSE Step(buf, i).found \o f[Step(buf, i).next]]
    <3> HIDE DEF fd, nx, n, m
    <3> QED BY <1>5, <1>6, <2>1 DEF Unrolls
  <2> QED BY <2>2
<1>8. from = [i \in 1 .. (Len(buf) + PrefixLen) |->
                IF i > Len(buf) THEN <<>> ELSE Step(buf, i).found \o from[Step(buf, i).next]]
  BY <1>7
<1>9. ScanBuffer(buf) = SubSeq(from[1], 1, IF Len(from[1]) < MaxMatches THEN Len(from[1]) ELSE MaxMatches)
  BY DEF ScanBuffer
<1> HIDE DEF from
<1>10. Unrolls(from, fd, nx, n, m)
  <2>1. from = [i \in 1 .. m |-> IF i > n THEN <<>> ELSE Step(buf, i).found \o from[Step(buf, i).next]]
    BY <1>8
  <2> HIDE DEF fd, nx, n, m
  <2> QED BY <1>5, <1>6, <2>1 DEF Unrolls
<1>11. StartsOf(buf) \in SUBSET (1 .. n) /\ \A i \in StartsOf(buf) : ShownOf(buf)[i] \in Shape(buf)
  BY DEF StartsOf, Shape
<1>12. HasList(from[1], StartsOf(buf), ShownOf(buf), Shape(buf))
  <2> HIDE DEF fd, nx, n, m
  <2> QED BY <1>0, <1>1, <1>2, <1>3, <1>10, <1>11, UnrollLists
<1> QED BY <1>9, <1>12

\* q goes through the URLs that buf shows, in the order they start.
InOrder(buf, q, k) ==
  /\ k \in Nat /\ q \in [1 .. k -> UrlSpans(buf)]
  /\ \A a, b \in 1 .. k : a < b => q[a][1] < q[b][1]
  /\ \A x \in UrlSpans(buf) : \E a \in 1 .. k : q[a] = x

\* found has the first of them, as many as the table holds.
Finds(buf, found, q, k) ==
  /\ found \in Seq(Shape(buf))
  /\ Len(found) = IF k < MaxMatches THEN k ELSE MaxMatches
  /\ \A a \in 1 .. Len(found) : found[a] = ShownAt(buf, q[a])

LEMMA ScanFinds ==
  ASSUME NEW buf \in Seq(CellOf)
  PROVE  \E q, k : InOrder(buf, q, k) /\ Finds(buf, ScanBuffer(buf), q, k)
<1>1. PICK all : /\ HasList(all, StartsOf(buf), ShownOf(buf), Shape(buf))
                 /\ ScanBuffer(buf) = SubSeq(all, 1, IF Len(all) < MaxMatches THEN Len(all) ELSE MaxMatches)
  BY ScanLists
<1>2. PICK p, k : Lists(all, p, k, StartsOf(buf), ShownOf(buf), Shape(buf))
  BY <1>1 DEF HasList
<1>3. k \in Nat /\ p \in [1 .. k -> StartsOf(buf)] /\ all \in Seq(Shape(buf)) /\ Len(all) = k
      /\ MaxMatches \in Nat
  BY <1>2, PickerAssumption DEF Lists
<1> DEFINE q == [a \in 1 .. k |-> SpanAt(buf, p[a])]
           n == IF k < MaxMatches THEN k ELSE MaxMatches
           found == SubSeq(all, 1, n)
<1>4. UrlSpans(buf) = {SpanAt(buf, i) : i \in StartsOf(buf)}
  BY SpansStart DEF StartsOf
<1>5. \A a \in 1 .. k : q[a] = SpanAt(buf, p[a]) /\ q[a][1] = p[a] /\ p[a] \in StartsOf(buf)
  BY <1>3 DEF SpanAt
<1>6. q \in [1 .. k -> UrlSpans(buf)]
  BY <1>4, <1>5
<1> HIDE DEF q
<1>7. ASSUME NEW a \in 1 .. k, NEW b \in 1 .. k, a < b PROVE q[a][1] < q[b][1]
  BY <1>2, <1>5, <1>7 DEF Lists
<1>8. ASSUME NEW x \in UrlSpans(buf) PROVE \E a \in 1 .. k : q[a] = x
  <2>1. PICK i \in StartsOf(buf) : x = SpanAt(buf, i)
    BY <1>4
  <2>2. PICK a \in 1 .. k : p[a] = i
    BY <1>2 DEF Lists
  <2> QED BY <1>5, <2>1, <2>2
<1>9. InOrder(buf, q, k)
  BY <1>3, <1>6, <1>7, <1>8 DEF InOrder
<1>10. n \in Nat /\ n <= k
  BY <1>3
<1> HIDE DEF n
<1>11. \A a \in 1 .. n : a \in 1 .. k /\ all[a] \in Shape(buf)
  BY <1>3, <1>10
<1>12. found \in Seq(Shape(buf)) /\ Len(found) = n /\ \A a \in 1 .. n : found[a] = all[a]
  <2>1. 1 \in Int /\ n \in Int
    BY <1>10
  <2>2. /\ found \in Seq(Shape(buf))
        /\ Len(found) = IF 1 <= n THEN n - 1 + 1 ELSE 0
        /\ \A a \in 1 .. n - 1 + 1 : found[a] = all[1 + a - 1]
    BY <1>11, <2>1, SubSeqProperties
  <2>3. n - 1 + 1 = n /\ (1 <= n \/ n = 0)
    BY <1>10
  <2>4. \A a \in 1 .. n : 1 + a - 1 = a
    OBVIOUS
  <2> HIDE DEF found
  <2> QED BY <2>2, <2>3, <2>4
<1>13. ASSUME NEW a \in 1 .. n PROVE found[a] = ShownAt(buf, q[a])
  <2>1. all[a] = ShownOf(buf)[p[a]] /\ p[a] \in 1 .. Len(buf)
    BY <1>2, <1>5, <1>11 DEF Lists, StartsOf
  <2>2. all[a] = ShownAt(buf, SpanAt(buf, p[a]))
    BY <2>1 DEF ShownOf
  <2> QED BY <1>5, <1>11, <1>12, <2>2
<1>14. ScanBuffer(buf) = found
  BY <1>1, <1>3 DEF n
<1> HIDE DEF found
<1>15. Finds(buf, found, q, k)
  BY <1>12, <1>13 DEF Finds, n
<1> QED BY <1>9, <1>14, <1>15

LEMMA CountsOf ==
  ASSUME NEW S, NEW n \in Nat, NEW q \in [1 .. n -> S],
         \A a, b \in 1 .. n : q[a] = q[b] => a = b, \A x \in S : \E a \in 1 .. n : q[a] = x
  PROVE  Cardinality(S) = n
<1>1. q \in Injection(1 .. n, S)
  BY Fun_IsInj
<1>2. q \in Surjection(1 .. n, S)
  BY Fun_IsSurj
<1>3. ExistsBijection(1 .. n, S)
  BY <1>1, <1>2 DEF ExistsBijection, Bijection
<1> QED BY <1>3, FS_CountingElements

LEMMA SpansAreCounted ==
  ASSUME NEW buf, NEW q, NEW k, InOrder(buf, q, k)
  PROVE  /\ Cardinality(UrlSpans(buf)) = k
         /\ \A a \in 1 .. k : Cardinality({y \in UrlSpans(buf) : y[1] < q[a][1]}) = a - 1
<1>1. k \in Nat /\ q \in [1 .. k -> UrlSpans(buf)] /\ \A a \in 1 .. k : q[a] \in UrlSpans(buf)
  BY DEF InOrder
<1>2. \A x \in UrlSpans(buf) : x[1] \in Int
  BY DEF UrlSpans
<1>3. \A a, b \in 1 .. k : q[a][1] < q[b][1] <=> a < b
  <2> TAKE a, b \in 1 .. k
  <2>1. a < b => q[a][1] < q[b][1]
    BY DEF InOrder
  <2>2. b < a => q[b][1] < q[a][1]
    BY DEF InOrder
  <2>3. q[a][1] \in Int /\ q[b][1] \in Int /\ a \in Int /\ b \in Int
    BY <1>1, <1>2
  <2>4. a < b \/ b < a \/ a = b
    BY <2>3
  <2> QED BY <2>1, <2>2, <2>3, <2>4
<1>4. \A a, b \in 1 .. k : q[a] = q[b] => a = b
  <2> TAKE a, b \in 1 .. k
  <2>1. q[a] = q[b] => ~(q[a][1] < q[b][1]) /\ ~(q[b][1] < q[a][1])
    BY <1>1, <1>2
  <2> QED BY <1>3, <2>1
<1>5. Cardinality(UrlSpans(buf)) = k
  BY <1>1, <1>4, CountsOf DEF InOrder
<1>6. ASSUME NEW a \in 1 .. k
      PROVE  Cardinality({y \in UrlSpans(buf) : y[1] < q[a][1]}) = a - 1
  <2> DEFINE below == {y \in UrlSpans(buf) : y[1] < q[a][1]}
             r     == [b \in 1 .. a - 1 |-> q[b]]
             n     == a - 1
  <2>1. n \in Nat /\ \A b \in 1 .. n : b \in 1 .. k /\ b < a
    BY <1>1
  <2>2. \A b \in 1 .. n : r[b] = q[b] /\ r[b] \in below
    BY <1>1, <1>3, <2>1
  <2>3. r \in [1 .. n -> below]
    BY <2>2
  <2>4. \A x \in below : \E b \in 1 .. n : r[b] = x
    <3> TAKE x \in below
    <3>1. PICK b \in 1 .. k : q[b] = x
      BY DEF InOrder
    <3>2. b < a
      BY <1>3, <3>1
    <3>3. b \in 1 .. n
      BY <1>1, <3>2
    <3> QED BY <2>2, <3>1, <3>3
  <2> HIDE DEF r, n, below
  <2>5. \A b, c \in 1 .. n : r[b] = r[c] => b = c
    BY <1>4, <2>1, <2>2
  <2>6. Cardinality(below) = n
    BY <2>1, <2>3, <2>4, <2>5, CountsOf
  <2> QED BY <2>6 DEF n, below
<1> QED BY <1>5, <1>6

-----------------------------------------------------------------------------
(***************************************************************************)
(* Labels                                                                  *)
(***************************************************************************)

LEMMA DigitsOf ==
  ASSUME NEW b \in Nat, 1 <= b, NEW x \in Nat, x < b * b
  PROVE  /\ (x \div b) \in 0 .. b - 1 /\ (x % b) \in 0 .. b - 1
         /\ x = b * (x \div b) + (x % b)
<1> DEFINE q == x \div b
           r == x % b
<1>1. q \in Nat /\ r \in 0 .. b - 1 /\ x = b * q + r
  OBVIOUS
<1> HIDE DEF q, r
<1>2. q < b
  <2>1. ASSUME b <= q PROVE FALSE
    <3>1. b * b <= b * q
      BY <1>1, <2>1
    <3> QED BY <1>1, <3>1
  <2> QED BY <1>1, <2>1
<1>3. q \in 0 .. b - 1
  BY <1>1, <1>2
<1> QED BY <1>1, <1>3 DEF q, r

LEMMA LettersDiffer ==
  ASSUME NEW i \in 1 .. Len(Alphabet), NEW j \in 1 .. Len(Alphabet), Alphabet[i] = Alphabet[j]
  PROVE  i = j
  BY PickerAssumption

\* No two of total labels are the same, and all are as long.
LEMMA LabelsDiffer ==
  ASSUME NEW total \in 0 .. MaxMatches, NEW i \in 1 .. total, NEW j \in 1 .. total
  PROVE  /\ Len(LabelFromIndex(i, total)) = IF total > Len(Alphabet) THEN 2 ELSE 1
         /\ LabelFromIndex(i, total) = LabelFromIndex(j, total) => i = j
<1> DEFINE b == Len(Alphabet)
<1>0. b \in Nat /\ 1 <= b /\ MaxMatches \in Nat /\ MaxMatches <= b * b
  BY PickerAssumption
<1>1. CASE total <= b
  <2>1. LabelFromIndex(i, total) = <<Alphabet[i]>> /\ LabelFromIndex(j, total) = <<Alphabet[j]>>
    BY <1>1 DEF LabelFromIndex
  <2>2. i \in 1 .. Len(Alphabet) /\ j \in 1 .. Len(Alphabet) /\ ~(total > Len(Alphabet))
    BY <1>0, <1>1
  <2>3. Len(<<Alphabet[i]>>) = 1 /\ (<<Alphabet[i]>> = <<Alphabet[j]>> => Alphabet[i] = Alphabet[j])
    OBVIOUS
  <2> QED BY <2>1, <2>2, <2>3, LettersDiffer
<1>2. CASE ~(total <= b)
  <2> DEFINE hi(n) == ((n - 1) \div b) + 1
             lo(n) == ((n - 1) % b) + 1
  <2>1. LabelFromIndex(i, total) = <<Alphabet[hi(i)], Alphabet[lo(i)]>>
        /\ LabelFromIndex(j, total) = <<Alphabet[hi(j)], Alphabet[lo(j)]>>
    BY <1>2 DEF LabelFromIndex
  <2>2. ASSUME NEW n \in 1 .. total
        PROVE  hi(n) \in 1 .. b /\ lo(n) \in 1 .. b /\ n - 1 = b * (hi(n) - 1) + (lo(n) - 1)
    <3> DEFINE x == n - 1
    <3>1. x \in Nat /\ x < b * b
      <4>1. b * b \in Nat
        BY <1>0
      <4> QED BY <1>0, <4>1
    <3>2. /\ (x \div b) \in 0 .. b - 1 /\ (x % b) \in 0 .. b - 1
          /\ x = b * (x \div b) + (x % b)
      <4> HIDE DEF x, b
      <4> QED BY <1>0, <3>1, DigitsOf
    <3> DEFINE q == x \div b
               r == x % b
    <3>3. q \in 0 .. b - 1 /\ r \in 0 .. b - 1 /\ x = b * q + r
      BY <3>2
    <3>4. hi(n) = q + 1 /\ lo(n) = r + 1
      OBVIOUS
    <3> HIDE DEF q, r, b, hi, lo
    <3>5. (q + 1) - 1 = q /\ (r + 1) - 1 = r
      BY <3>3
    <3>6. q + 1 \in 1 .. b /\ r + 1 \in 1 .. b
      BY <1>0, <3>3
    <3> QED BY <3>3, <3>4, <3>5, <3>6
  <2> HIDE DEF hi, lo
  <2>3. Len(<<Alphabet[hi(i)], Alphabet[lo(i)]>>) = 2 /\ total > Len(Alphabet)
    BY <1>0, <1>2
  <2>4. ASSUME Alphabet[hi(i)] = Alphabet[hi(j)], Alphabet[lo(i)] = Alphabet[lo(j)] PROVE i = j
    <3>1. hi(i) = hi(j) /\ lo(i) = lo(j)
      BY <2>2, <2>4, LettersDiffer
    <3>2. i - 1 = j - 1
      BY <2>2, <3>1
    <3> QED BY <3>2
  <2>5. <<Alphabet[hi(i)], Alphabet[lo(i)]>> = <<Alphabet[hi(j)], Alphabet[lo(j)]>>
          => Alphabet[hi(i)] = Alphabet[hi(j)] /\ Alphabet[lo(i)] = Alphabet[lo(j)]
    OBVIOUS
  <2> HIDE DEF b
  <2> QED BY <2>1, <2>3, <2>4, <2>5
<1> QED BY <1>1, <1>2

-----------------------------------------------------------------------------
(***************************************************************************)
(* What a scan's labels are worth                                          *)
(***************************************************************************)

LEMMA LabelledIs ==
  ASSUME NEW found, Len(found) \in Nat
  PROVE  /\ DOMAIN Labelled(found) = 1 .. Len(found) /\ Len(Labelled(found)) = Len(found)
         /\ (Labelled(found) = <<>> <=> Len(found) = 0)
         /\ \A i \in 1 .. Len(found) :
              Labelled(found)[i] = [url |-> found[i].url, row |-> found[i].row, col |-> found[i].col,
                                    label |-> LabelFromIndex(i, Len(found))]
<1> DEFINE m == Labelled(found)
           n == Len(found)
<1>1. m = [i \in 1 .. n |-> m[i]]
      /\ \A i \in 1 .. n : m[i] = [url |-> found[i].url, row |-> found[i].row, col |-> found[i].col,
                                  label |-> LabelFromIndex(i, n)]
  BY DEF Labelled
<1> HIDE DEF m
<1>2. DOMAIN m = 1 .. n
  BY <1>1
<1>3. Len(m) = n
  BY <1>1
<1>4. m = <<>> => n = 0
  <2>1. DOMAIN <<>> = {} /\ (n # 0 => 1 \in 1 .. n)
    OBVIOUS
  <2> QED BY <1>2, <2>1
<1>5. n = 0 => m = <<>>
  <2>1. n = 0 => 1 .. n = {}
    OBVIOUS
  <2> HIDE DEF n
  <2> QED BY <1>1, <2>1
<1> QED BY <1>1, <1>2, <1>3, <1>4, <1>5 DEF m

\* The picker has what the scan of the screen it was entered on found.
HasFound == matches = Labelled(ScanBuffer(Flat(scanned)))

IsMatch(m, shown, i, total) ==
  m = [url |-> shown.url, row |-> shown.row, col |-> shown.col, label |-> LabelFromIndex(i, total)]

LEMMA MatchFields ==
  ASSUME NEW m, NEW shown, NEW i, NEW total, IsMatch(m, shown, i, total)
  PROVE  /\ m.url = shown.url /\ m.row = shown.row /\ m.col = shown.col
         /\ m.label = LabelFromIndex(i, total)
  BY DEF IsMatch

\* The matches are the first URLs of q, which has all k on the screen in order.
AreUrls(q, k) ==
  /\ InOrder(Flat(scanned), q, k)
  /\ Len(matches) = IF k < MaxMatches THEN k ELSE MaxMatches
  /\ DOMAIN matches = 1 .. Len(matches) /\ Len(matches) \in 0 .. MaxMatches
  /\ \A i \in 1 .. Len(matches) :
       IsMatch(matches[i], ShownAt(Flat(scanned), q[i]), i, Len(matches))

LEMMA MatchesAreUrls ==
  ASSUME scanned \in Screen, HasFound
  PROVE  \E q, k : AreUrls(q, k)
<1> DEFINE buf   == Flat(scanned)
           found == ScanBuffer(buf)
<1>1. buf \in Seq(CellOf)
  BY FlatIsCells
<1>2. PICK q, k : InOrder(buf, q, k) /\ Finds(buf, found, q, k)
  <2> HIDE DEF buf
  <2> QED BY <1>1, ScanFinds
<1>3. k \in Nat /\ MaxMatches \in Nat
  BY <1>2, PickerAssumption DEF InOrder
<1>4. Len(found) = IF k < MaxMatches THEN k ELSE MaxMatches
  BY <1>2 DEF Finds
<1>5. matches = Labelled(found)
  BY DEF HasFound
<1> HIDE DEF found, buf
<1>6. Len(found) \in Nat /\ Len(found) \in 0 .. MaxMatches
  BY <1>3, <1>4
<1>7. /\ DOMAIN matches = 1 .. Len(found) /\ Len(matches) = Len(found)
      /\ \A i \in 1 .. Len(found) :
           matches[i] = [url |-> found[i].url, row |-> found[i].row, col |-> found[i].col,
                         label |-> LabelFromIndex(i, Len(found))]
  BY <1>5, <1>6, LabelledIs
<1>8. \A i \in 1 .. Len(found) : found[i] = ShownAt(buf, q[i])
  BY <1>2 DEF Finds
<1>9. \A i \in 1 .. Len(matches) : IsMatch(matches[i], ShownAt(buf, q[i]), i, Len(matches))
  BY <1>7, <1>8 DEF IsMatch
<1>10. AreUrls(q, k)
  BY <1>2, <1>4, <1>6, <1>7, <1>9 DEF buf, AreUrls
<1> QED BY <1>10

\* Where a match is selected, its URL is on the screen.
LEMMA SelectedIsShown ==
  ASSUME scanned \in Screen, HasFound, selected \in 1 .. Len(matches)
  PROVE  /\ SelectedUrl \in UrlsOn(scanned)
         /\ Needed = IF Cardinality(UrlSpans(Flat(scanned))) > Len(Alphabet) THEN 2 ELSE 1
<1> DEFINE buf == Flat(scanned)
<1>0. PICK q, k : AreUrls(q, k)
  BY MatchesAreUrls
<1>1. /\ InOrder(buf, q, k)
      /\ Len(matches) = IF k < MaxMatches THEN k ELSE MaxMatches
  BY <1>0 DEF AreUrls
<1>2. SelectedUrl = ShownAt(buf, q[selected]).url
  <2>1. IsMatch(matches[selected], ShownAt(buf, q[selected]), selected, Len(matches))
    BY <1>0 DEF AreUrls
  <2> QED BY <2>1 DEF IsMatch, SelectedUrl
<1>3. k \in Nat /\ MaxMatches \in Nat /\ Len(Alphabet) \in Nat /\ Len(Alphabet) < MaxMatches
  BY <1>1, PickerAssumption DEF InOrder
<1>4. selected \in 1 .. k
  BY <1>1, <1>3
<1>5. q[selected] \in UrlSpans(buf)
  BY <1>1, <1>4 DEF InOrder
<1>6. SelectedUrl \in UrlsOn(scanned)
  BY <1>2, <1>5 DEF ShownAt, UrlsOn
<1>7. Cardinality(UrlSpans(buf)) = k
  <2> HIDE DEF buf
  <2> QED BY <1>1, SpansAreCounted
<1>8. Len(matches) > Len(Alphabet) <=> k > Len(Alphabet)
  BY <1>1, <1>3
<1> QED BY <1>6, <1>7, <1>8 DEF Needed

LEMMA AllSelectable ==
  ASSUME scanned \in Screen, HasFound
  PROVE  EveryUrlSelectable
<1> DEFINE buf      == Flat(scanned)
           spans    == UrlSpans(buf)
           First(n) == {x \in spans : Cardinality({y \in spans : y[1] < x[1]}) < n}
           Shown(x) == [url |-> UrlText(buf, x[1], x[2] + 1),
                        row |-> buf[x[1]].row, col |-> buf[x[1]].col]
           Plain(m) == [url |-> m.url, row |-> m.row, col |-> m.col]
<1>0. PICK q, k : AreUrls(q, k)
  BY MatchesAreUrls
<1>1. /\ InOrder(buf, q, k)
      /\ Len(matches) = IF k < MaxMatches THEN k ELSE MaxMatches
      /\ DOMAIN matches = 1 .. Len(matches) /\ Len(matches) \in 0 .. MaxMatches
      /\ \A i \in 1 .. Len(matches) : IsMatch(matches[i], ShownAt(buf, q[i]), i, Len(matches))
  BY <1>0 DEF AreUrls
<1>2. k \in Nat /\ MaxMatches \in Nat
  BY <1>1, PickerAssumption DEF InOrder
<1>3. \A i \in 1 .. Len(matches) : i \in 1 .. k /\ q[i] \in spans /\ i - 1 < MaxMatches
  BY <1>1, <1>2 DEF InOrder
<1>4. \A i \in 1 .. Len(matches) : Plain(matches[i]) = Shown(q[i])
  <2> TAKE i \in 1 .. Len(matches)
  <2> DEFINE m == matches[i]
             x == ShownAt(buf, q[i])
  <2>1. m.url = x.url /\ m.row = x.row /\ m.col = x.col
    <3>1. IsMatch(m, x, i, Len(matches))
      BY <1>1
    <3> HIDE DEF m, x
    <3> QED BY <3>1, MatchFields
  <2>2. x = Shown(q[i])
    BY DEF ShownAt
  <2>3. Plain(m) = Plain(x)
    <3> HIDE DEF m, x
    <3> QED BY <2>1
  <2> DEFINE y == q[i]
  <2>4. Plain(Shown(y)) = Shown(y)
    OBVIOUS
  <2> QED BY <2>2, <2>3, <2>4
<1>5. \A i \in 1 .. k : Cardinality({y \in spans : y[1] < q[i][1]}) = i - 1
  <2> HIDE DEF buf
  <2> QED BY <1>1, SpansAreCounted
<1>6. \A i \in 1 .. Len(matches) : q[i] \in First(MaxMatches)
  <2> HIDE DEF spans
  <2> QED BY <1>3, <1>5
<1>7. \A x \in First(MaxMatches) : \E i \in 1 .. Len(matches) : q[i] = x
  <2> TAKE x \in First(MaxMatches)
  <2>1. PICK i \in 1 .. k : q[i] = x
    BY <1>1 DEF InOrder
  <2>2. i - 1 < MaxMatches
    <3> HIDE DEF spans
    <3> QED BY <1>5, <2>1
  <2>3. i \in 1 .. Len(matches)
    BY <1>1, <1>2, <2>2
  <2> QED BY <2>1, <2>3
<1>8. \A i \in 1 .. Len(matches) : matches[i].label = LabelFromIndex(i, Len(matches))
  BY <1>1, MatchFields
<1>9. \A i \in 1 .. Len(matches) :
        /\ Len(matches[i].label) = Needed
        /\ \A j \in (1 .. Len(matches)) \ {i} : matches[i].label # matches[j].label
  <2>1. ASSUME NEW i \in 1 .. Len(matches)
        PROVE  Len(matches[i].label) = Needed
    BY <1>1, <1>8, LabelsDiffer DEF Needed
  <2>2. ASSUME NEW i \in 1 .. Len(matches), NEW j \in (1 .. Len(matches)) \ {i}
        PROVE  matches[i].label # matches[j].label
    BY <1>1, <1>8, LabelsDiffer
  <2> QED BY <2>1, <2>2
<1> HIDE DEF Plain, Shown, First, spans, buf
<1>10. {Plain(matches[i]) : i \in DOMAIN matches} = {Shown(x) : x \in First(MaxMatches)}
  <2>1. \A i \in DOMAIN matches : q[i] \in First(MaxMatches) /\ Plain(matches[i]) = Shown(q[i])
    BY <1>1, <1>4, <1>6
  <2>2. \A x \in First(MaxMatches) : \E i \in DOMAIN matches : q[i] = x /\ Plain(matches[i]) = Shown(x)
    BY <1>1, <1>4, <1>7
  <2> QED BY <2>1, <2>2
<1>11. \A i \in DOMAIN matches :
         /\ Len(matches[i].label) = Needed
         /\ \A j \in DOMAIN matches \ {i} : matches[i].label # matches[j].label
  BY <1>1, <1>9
<1> QED BY <1>10, <1>11 DEF EveryUrlSelectable, Plain, Shown, First, spans, buf

-----------------------------------------------------------------------------
(***************************************************************************)
(* The picker                                                              *)
(***************************************************************************)

\* What the picker holds, whatever came before.
Holds ==
  /\ mode \in {"inactive", "hint", "action", "qr"}
  /\ DOMAIN matches \subseteq 1 .. MaxMatches
  /\ selected \in 0 .. Len(matches)
  /\ typed \in Seq(LetterSet)
  /\ scanned \in Screen
  /\ PickerForgets
  /\ mode # "inactive" => HasFound

\* presses counts at least what the label has cost so far.
IsPaid ==
  /\ presses \in 0 .. MaxPresses
  /\ Len(typed) <= presses
  /\ mode = "action" => Needed <= presses

PickInv ==
  /\ Holds /\ IsPaid /\ ActsOnShownUrl
  /\ down \in PickKey \cup {NoneDown}

LEMMA NeededIs ==
  Needed \in {1, 2}
  BY DEF Needed

LEMMA ExitHolds ==
  ASSUME Exit, scanned' \in Screen
  PROVE  Holds' /\ typed' = <<>> /\ mode' = "inactive"
<1>1. matches' = <<>> /\ Len(<<>>) = 0 /\ DOMAIN <<>> = {} /\ <<>> \in Seq(LetterSet)
  BY DEF Exit
<1>2. PickerForgets'
  BY <1>1, NeededIs DEF Exit, PickerForgets, NoUrl, Needed
<1> QED BY <1>1, <1>2 DEF Exit, Holds

LEMMA EnterHolds ==
  ASSUME NEW s \in Screen, Enter(s), scanned' = s
  PROVE  Holds' /\ typed' = <<>> /\ mode' \in {"inactive", "hint"}
<1> DEFINE found == ScanBuffer(Flat(s))
<1>1. CASE found = <<>>
  <2>1. Exit /\ scanned' \in Screen
    BY <1>1 DEF Enter
  <2> QED BY <2>1, ExitHolds
<1>2. CASE found # <<>>
  <2>1. /\ mode' = "hint" /\ matches' = Labelled(found)
        /\ selected' = 0 /\ typed' = <<>> /\ qr' = NoUrl /\ bitmap' = NoUrl
    BY <1>2 DEF Enter
  <2>2. Flat(s) \in Seq(CellOf)
    BY FlatIsCells
  <2>3. PICK q, k : InOrder(Flat(s), q, k) /\ Finds(Flat(s), found, q, k)
    BY <2>2, ScanFinds
  <2>4. /\ found \in Seq(Shape(Flat(s))) /\ Len(found) \in Nat /\ Len(found) <= MaxMatches
        /\ MaxMatches \in Nat
    BY <2>3, PickerAssumption DEF InOrder, Finds
  <2> HIDE DEF found
  <2>5. Len(found) # 0
    <3>1. \A T : \A z \in Seq(T) : Len(z) = 0 => z = <<>>
      BY EmptySeq
    <3> QED BY <1>2, <2>4, <3>1
  <2>6. DOMAIN Labelled(found) = 1 .. Len(found) /\ Len(Labelled(found)) = Len(found)
        /\ Labelled(found) # <<>>
    BY <2>4, <2>5, LabelledIs
  <2>7. <<>> \in Seq(LetterSet) /\ Len(<<>>) = 0
    OBVIOUS
  <2>8. PickerForgets'
    BY <2>1, <2>6, <2>7, NeededIs DEF PickerForgets, NoUrl, Needed
  <2>9. HasFound'
    BY <2>1 DEF HasFound, found
  <2> QED BY <2>1, <2>4, <2>6, <2>7, <2>8, <2>9 DEF Holds
<1> QED BY <1>1, <1>2

LEMMA HintKeyHolds ==
  ASSUME Holds, mode = "hint", NEW k \in LetterSet, HintKey(k), UNCHANGED scanned
  PROVE  /\ Holds' /\ Needed' = Needed
         /\ Len(typed') <= Len(typed) + 1
         /\ mode' \in {"hint", "action"}
         /\ mode' = "action" => Needed <= Len(typed) + 1
<1> DEFINE full == Append(typed, k)
           hits == {i \in 1 .. Len(matches) : matches[i].label = full}
<1>0. typed \in Seq(LetterSet) /\ Len(typed) < Needed /\ Len(typed) \in Nat
  BY DEF Holds, PickerForgets
<1>1. full \in Seq(LetterSet) /\ Len(full) = Len(typed) + 1
  BY <1>0
<1>2. /\ IF Len(full) < Needed
           THEN typed' = full /\ UNCHANGED <<mode, selected>>
           ELSE /\ typed' = <<>>
                /\ IF hits = {} THEN UNCHANGED <<mode, selected>>
                   ELSE /\ selected' = CHOOSE i \in hits : \A j \in hits : i <= j
                        /\ mode' = "action"
      /\ UNCHANGED <<matches, qr, bitmap>>
  <2>1. ~(Len(typed) >= Needed)
    BY <1>0, NeededIs
  <2> QED BY <2>1 DEF HintKey
<1>3. Needed' = Needed /\ HasFound /\ HasFound' /\ matches # <<>> /\ selected = 0
      /\ qr = NoUrl /\ bitmap = NoUrl
  BY <1>2 DEF Holds, HasFound, PickerForgets, Needed
<1>4. <<>> \in Seq(LetterSet) /\ Len(<<>>) = 0
  OBVIOUS
<1>5. CASE Len(full) < Needed
  <2>1. typed' = full /\ mode' = mode /\ selected' = selected /\ UNCHANGED <<matches, qr, bitmap>>
    BY <1>2, <1>5
  <2> HIDE DEF full
  <2>2. PickerForgets'
    BY <1>3, <1>5, <2>1 DEF PickerForgets
  <2> QED BY <1>0, <1>1, <1>3, <1>5, <2>1, <2>2 DEF Holds
<1>6. CASE ~(Len(full) < Needed) /\ hits = {}
  <2>1. typed' = <<>> /\ mode' = mode /\ selected' = selected /\ UNCHANGED <<matches, qr, bitmap>>
    BY <1>2, <1>6
  <2>2. PickerForgets'
    BY <1>3, <1>4, <2>1, NeededIs DEF PickerForgets
  <2> QED BY <1>0, <1>3, <1>4, <2>1, <2>2 DEF Holds
<1>7. CASE ~(Len(full) < Needed) /\ hits # {}
  <2>1. typed' = <<>> /\ mode' = "action" /\ UNCHANGED <<matches, qr, bitmap>>
        /\ selected' = CHOOSE i \in hits : \A j \in hits : i <= j
    BY <1>2, <1>7
  <2>2. hits \in SUBSET Nat
    OBVIOUS
  <2>3. \E i \in hits : \A j \in hits : i <= j
    <3> HIDE DEF hits
    <3> QED BY <1>7, <2>2, LeastExists
  <2>4. selected' \in hits
    <3> HIDE DEF hits
    <3> QED BY <2>1, <2>3
  <2>5. selected' \in 1 .. Len(matches) /\ Len(matches) \in Nat
    <3>1. Len(matches) \in Nat
      BY <1>3, MatchesAreUrls DEF Holds, AreUrls
    <3> QED BY <2>4, <3>1
  <2> HIDE DEF hits
  <2>6. PickerForgets'
    <3>0. selected' # 0
      BY <2>5
    <3>3. mode' = "action" /\ typed' = <<>> /\ UNCHANGED <<matches, qr, bitmap>>
      BY <2>1
    <3>1. matches' = matches /\ bitmap' = NoUrl /\ qr' = NoUrl
      BY <1>3, <3>3
    <3>2. Len(typed') < Needed'
      BY <1>3, <1>4, <2>1, NeededIs
    <3> QED BY <1>3, <3>0, <3>1, <3>2, <3>3 DEF PickerForgets
  <2>7. Needed <= Len(typed) + 1
    BY <1>0, <1>1, <1>7, NeededIs
  <2> QED BY <1>0, <1>3, <1>4, <2>1, <2>5, <2>6, <2>7 DEF Holds
<1> QED BY <1>5, <1>6, <1>7

LEMMA ActionKeyHolds ==
  ASSUME Holds, mode = "action", NEW k, ActionKey(k), UNCHANGED scanned
  PROVE  /\ Holds' /\ typed' = <<>> /\ mode' \in {"inactive", "action", "qr"}
         /\ mode' = "action" => Needed' = Needed
<1>0. typed = <<>> /\ qr = NoUrl /\ bitmap = NoUrl /\ HasFound /\ matches # <<>> /\ selected # 0
      /\ scanned \in Screen /\ Len(typed) < Needed
  BY DEF Holds, PickerForgets
<1>1. CASE Exit
  BY <1>0, <1>1, ExitHolds
<1>2. CASE UNCHANGED pickVars
  BY <1>0, <1>2 DEF pickVars, Holds, PickerForgets, HasFound, Needed, SelectedUrl
<1>3. CASE /\ qr' = SelectedUrl /\ bitmap' = NoUrl /\ mode' = "qr"
           /\ UNCHANGED <<matches, selected, typed>>
  <2>1. PickerForgets' /\ Needed' = Needed /\ HasFound'
    BY <1>0, <1>3 DEF PickerForgets, SelectedUrl, Needed, HasFound
  <2> QED BY <1>0, <1>3, <2>1 DEF Holds
<1> QED BY <1>1, <1>2, <1>3 DEF ActionKey, ShowQr

\* A key, pressed or repeated, keeps what the picker holds; a label costs a
\* press for each letter.
LEMMA KeyHolds ==
  ASSUME Holds, NEW k \in PickKey, NEW repeat \in BOOLEAN, PickHandleKey(k, repeat), UNCHANGED scanned
  PROVE  /\ Holds'
         /\ \/ UNCHANGED pickVars
            \/ /\ mode # "inactive" /\ ~repeat
               /\ Len(typed') <= Len(typed) + 1
               /\ mode' = "action" /\ mode = "hint"   => Needed' <= Len(typed) + 1
               /\ mode' = "action" /\ mode = "action" => Needed' = Needed
               /\ mode' = "action" => mode \in {"hint", "action"}
<1>0. Len(typed) \in Nat /\ scanned \in Screen /\ mode \in {"inactive", "hint", "action", "qr"}
      /\ Len(<<>>) = 0
  BY DEF Holds
<1>1. CASE UNCHANGED pickVars
  BY <1>1 DEF pickVars, Holds, PickerForgets, HasFound, Needed, SelectedUrl
<1>2. CASE mode # "inactive" /\ ~repeat /\ Exit
  BY <1>0, <1>2, ExitHolds
<1>3. CASE mode = "hint" /\ ~repeat /\ k \in LetterSet /\ HintKey(k)
  BY <1>0, <1>3, HintKeyHolds
<1>4. CASE mode = "action" /\ ~repeat /\ k \in LetterSet /\ ActionKey(k)
  BY <1>0, <1>4, ActionKeyHolds
<1> QED BY <1>0, <1>1, <1>2, <1>3, <1>4 DEF PickHandleKey

LEMMA KeyPays ==
  ASSUME Holds, IsPaid, ActsOnShownUrl, NEW k \in PickKey, NEW repeat \in BOOLEAN,
         PickHandleKey(k, repeat), Recorded(k, repeat)
  PROVE  Holds' /\ IsPaid' /\ ActsOnShownUrl'
<1>0. /\ presses \in 0 .. MaxPresses /\ MaxPresses \in Nat /\ 3 <= MaxPresses
      /\ Needed \in {1, 2} /\ scanned' = scanned
      /\ Len(typed) \in Nat /\ Len(typed) <= presses /\ Len(typed) < Needed
  <2>1. presses \in 0 .. MaxPresses /\ Len(typed) <= presses /\ scanned' = scanned
    BY DEF IsPaid, Recorded
  <2>2. MaxPresses \in Nat /\ 3 <= MaxPresses
    BY PickerAssumption
  <2>3. typed \in Seq(LetterSet) /\ Len(typed) < Needed
    BY DEF Holds, PickerForgets
  <2>4. Len(typed) \in Nat
    BY <2>3
  <2> QED BY <2>1, <2>2, <2>3, <2>4, NeededIs
<1>1. /\ Holds'
      /\ \/ UNCHANGED pickVars
         \/ /\ mode # "inactive" /\ ~repeat
            /\ Len(typed') <= Len(typed) + 1
            /\ mode' = "action" /\ mode = "hint"   => Needed' <= Len(typed) + 1
            /\ mode' = "action" /\ mode = "action" => Needed' = Needed
            /\ mode' = "action" => mode \in {"hint", "action"}
  BY <1>0, KeyHolds
<1>2. presses' = IF repeat \/ mode = "inactive" \/ presses = MaxPresses THEN presses ELSE presses + 1
  BY DEF Recorded
<1>3. presses' \in 0 .. MaxPresses /\ presses <= presses'
  BY <1>0, <1>2
<1>4. Len(typed') \in Nat /\ Len(typed') < Needed' /\ Needed' \in {1, 2}
  <2>1. Needed' \in {1, 2}
    BY DEF Needed
  <2> QED BY <1>1, <2>1 DEF Holds, PickerForgets
<1>5. IsPaid'
  <2>1. CASE UNCHANGED pickVars
    <3>1. typed' = typed /\ mode' = mode /\ Needed' = Needed
      BY <2>1 DEF pickVars, Needed
    <3> QED BY <1>0, <1>3, <3>1 DEF IsPaid
  <2>2. CASE /\ mode # "inactive" /\ ~repeat
             /\ Len(typed') <= Len(typed) + 1
             /\ mode' = "action" /\ mode = "hint"   => Needed' <= Len(typed) + 1
             /\ mode' = "action" /\ mode = "action" => Needed' = Needed
             /\ mode' = "action" => mode \in {"hint", "action"}
    <3>1. presses' = presses + 1 \/ (presses' = presses /\ presses >= 3)
      BY <1>0, <1>2, <2>2
    <3>2. Len(typed') <= presses'
      BY <1>0, <1>3, <1>4, <2>2, <3>1
    <3>3. mode' = "action" => Needed' <= presses'
      <4>1. CASE mode = "hint"
        BY <1>0, <1>3, <1>4, <2>2, <3>1, <4>1
      <4>2. CASE mode = "action"
        BY <1>0, <1>3, <1>4, <2>2, <4>2 DEF IsPaid
      <4> QED BY <2>2, <4>1, <4>2
    <3> QED BY <1>3, <3>2, <3>3 DEF IsPaid
  <2> QED BY <1>1, <2>1, <2>2
<1>6. ActsOnShownUrl'
  <2>1. CASE acted' = acted
    BY <1>0, <2>1 DEF ActsOnShownUrl
  <2>2. CASE /\ mode = "action" /\ mode' = "inactive"
             /\ acted' = [key |-> k, url |-> SelectedUrl, presses |-> presses']
    <3>1. HasFound /\ scanned \in Screen /\ selected \in 1 .. Len(matches)
      BY <2>2 DEF Holds, PickerForgets
    <3>2. /\ SelectedUrl \in UrlsOn(scanned)
          /\ Needed = IF Cardinality(UrlSpans(Flat(scanned))) > Len(Alphabet) THEN 2 ELSE 1
      BY <3>1, SelectedIsShown
    <3>3. acted'.url = SelectedUrl /\ acted'.presses = presses'
      BY <2>2
    <3>4. Needed < presses'
      <4>1. ~(UNCHANGED pickVars)
        BY <2>2 DEF pickVars
      <4>2. ~repeat
        BY <1>1, <4>1
      <4>3. Needed <= presses
        BY <2>2 DEF IsPaid
      <4> QED BY <1>0, <1>2, <2>2, <4>2, <4>3
    <3>5. presses' > Needed
      BY <1>0, <1>3, <3>4
    <3>6. acted'.url \in UrlsOn(scanned')
      BY <1>0, <3>2, <3>3
    <3>7. acted'.presses > (IF Cardinality(UrlSpans(Flat(scanned'))) > Len(Alphabet) THEN 2 ELSE 1)
      BY <1>0, <3>2, <3>3, <3>5
    <3> QED BY <3>6, <3>7 DEF ActsOnShownUrl
  <2> QED BY <2>1, <2>2 DEF Recorded
<1> QED BY <1>1, <1>5, <1>6

LEMMA PickInvInit ==
  PickInit => PickInv
<1> SUFFICES ASSUME PickInit PROVE PickInv
  OBVIOUS
<1>1. Len(<<>>) = 0 /\ DOMAIN <<>> = {} /\ <<>> \in Seq(LetterSet)
  OBVIOUS
<1>2. PickerForgets
  BY <1>1, NeededIs DEF PickInit, PickerForgets, NoUrl
<1>3. Holds
  BY <1>1, <1>2 DEF PickInit, Holds
<1>4. IsPaid /\ ActsOnShownUrl
  BY <1>1, PickerAssumption DEF PickInit, IsPaid, ActsOnShownUrl
<1> QED BY <1>3, <1>4 DEF PickInit, PickInv

LEMMA PickInvStep ==
  PickInv /\ [PickNext]_urlPickVars => PickInv'
<1> SUFFICES ASSUME PickInv, [PickNext]_urlPickVars PROVE PickInv'
  OBVIOUS
<1>0. Holds /\ IsPaid /\ ActsOnShownUrl /\ down \in PickKey \cup {NoneDown}
  BY DEF PickInv
<1>1. ASSUME NEW k \in PickKey, PickPress(k) PROVE PickInv'
  <2>1. /\ down' = k /\ (\E rep \in BOOLEAN : rep = FALSE /\ PickHandleKey(k, rep) /\ Recorded(k, rep))
    BY <1>1 DEF PickPress
  <2> QED BY <1>0, <2>1, KeyPays DEF PickInv
<1>2. ASSUME PickRepeat PROVE PickInv'
  <2>1. /\ down' = down /\ down \in PickKey
        /\ (\E rep \in BOOLEAN : rep = TRUE /\ PickHandleKey(down, rep) /\ Recorded(down, rep))
    BY <1>0, <1>2 DEF PickRepeat
  <2> QED BY <1>0, <2>1, KeyPays DEF PickInv
<1>3. ASSUME PickRelease PROVE PickInv'
  BY <1>0, <1>3 DEF PickRelease, pickVars, PickInv, Holds, IsPaid, ActsOnShownUrl, PickerForgets,
                    HasFound, Needed, SelectedUrl
<1>4. ASSUME NEW s \in Screen, Invoke(s) PROVE PickInv'
  <2>1. Enter(s) /\ scanned' = s /\ presses' = 0 /\ acted' = NoUrl /\ down' = down
    BY <1>4 DEF Invoke
  <2>2. Holds' /\ typed' = <<>> /\ mode' \in {"inactive", "hint"}
    BY <2>1, EnterHolds
  <2>3. Len(<<>>) = 0 /\ MaxPresses \in Nat
    BY PickerAssumption
  <2>4. IsPaid' /\ ActsOnShownUrl'
    BY <2>1, <2>2, <2>3 DEF IsPaid, ActsOnShownUrl
  <2> QED BY <1>0, <2>1, <2>2, <2>4 DEF PickInv
<1>5. ASSUME Tap PROVE PickInv'
  <2>1. Exit /\ UNCHANGED <<down, scanned, presses, acted>>
    BY <1>5 DEF Tap
  <2>2. Holds' /\ typed' = <<>> /\ mode' = "inactive"
    BY <1>0, <2>1, ExitHolds DEF Holds
  <2>3. Len(<<>>) = 0
    OBVIOUS
  <2>4. IsPaid'
    BY <1>0, <2>1, <2>2, <2>3 DEF IsPaid
  <2>5. ActsOnShownUrl'
    BY <1>0, <2>1 DEF ActsOnShownUrl
  <2> QED BY <1>0, <2>1, <2>2, <2>4, <2>5 DEF PickInv
<1>6. ASSUME RenderQr PROVE PickInv'
  <2>1. /\ mode = "qr" /\ bitmap' \in {qr, NoUrl}
        /\ UNCHANGED <<mode, matches, selected, typed, qr, down, scanned, presses, acted>>
    BY <1>6 DEF RenderQr
  <2>2. PickerForgets'
    BY <1>0, <2>1 DEF Holds, PickerForgets, SelectedUrl, Needed
  <2> QED BY <1>0, <2>1, <2>2 DEF PickInv, Holds, IsPaid, ActsOnShownUrl, HasFound, Needed
<1>7. ASSUME UNCHANGED urlPickVars PROVE PickInv'
  BY <1>0, <1>7 DEF urlPickVars, pickVars, PickInv, Holds, IsPaid, ActsOnShownUrl, PickerForgets,
                    HasFound, Needed, SelectedUrl
<1> QED BY <1>1, <1>2, <1>3, <1>4, <1>5, <1>6, <1>7 DEF PickNext

LEMMA PickInvariant ==
  PickSpec => []PickInv
<1> QED BY PickInvInit, PickInvStep, PTL DEF PickSpec

\* Every variable of the picker has its type, whatever is on the screen.
THEOREM PickTypeCorrect == PickSpec => []PickTypeOK
<1>1. PickInv => PickTypeOK
  <2> SUFFICES ASSUME PickInv PROVE PickTypeOK
    OBVIOUS
  <2>1. Holds /\ IsPaid /\ down \in PickKey \cup {NoneDown}
    BY DEF PickInv
  <2>2. typed \in Seq(LetterSet) /\ Len(typed) < Needed /\ Needed \in {1, 2}
    BY <2>1, NeededIs DEF Holds, PickerForgets
  <2>3. Len(typed) <= 2 /\ \A i \in 1 .. Len(typed) : typed[i] \in LetterSet
    BY <2>2
  <2> QED BY <2>1, <2>3 DEF Holds, IsPaid, PickTypeOK
<1> QED BY <1>1, PickInvariant, PTL

\* While labels are up, each URL on the scanned screen has one of its own:
\* the first of them up to the cap, and nothing that is no URL.
THEOREM UrlsAreSelectable == PickSpec => []EveryUrlSelectable
<1>1. PickInv => EveryUrlSelectable
  <2>1. CASE mode = "inactive"
    BY <2>1 DEF EveryUrlSelectable
  <2>2. CASE mode # "inactive"
    BY <2>2, AllSelectable DEF PickInv, Holds
  <2> QED BY <2>1, <2>2
<1> QED BY <1>1, PickInvariant, PTL

\* What is opened or copied is a URL of the scanned screen, and was chosen by
\* as many presses as its label has letters and one more.
THEOREM ShownUrlsAreActedOn == PickSpec => []ActsOnShownUrl
<1>1. PickInv => ActsOnShownUrl
  BY DEF PickInv
<1> QED BY <1>1, PickInvariant, PTL

\* No part of a pick outlives it.
THEOREM PicksAreForgotten == PickSpec => []PickerForgets
<1>1. PickInv => PickerForgets
  BY DEF PickInv, Holds
<1> QED BY <1>1, PickInvariant, PTL

\* Typing a label picks its match and no other: the last letter selects it,
\* and a letter before that waits for the next.
LabelsPick ==
  [][ \A k \in LetterSet, i \in DOMAIN matches :
        mode = "hint" /\ PickPress(k) =>
          /\ Append(typed, k) = matches[i].label => mode' = "action" /\ selected' = i
          /\ Len(typed) + 1 < Len(matches[i].label) => mode' = "hint" /\ typed' = Append(typed, k) ]_urlPickVars

LEMMA LetterPicks ==
  ASSUME PickInv, mode = "hint", NEW k \in LetterSet, PickPress(k), NEW i \in DOMAIN matches
  PROVE  /\ Append(typed, k) = matches[i].label => mode' = "action" /\ selected' = i
         /\ Len(typed) + 1 < Len(matches[i].label) => mode' = "hint" /\ typed' = Append(typed, k)
<1> DEFINE full == Append(typed, k)
           hits == {j \in 1 .. Len(matches) : matches[j].label = full}
<1>1. HintKey(k)
  <2>1. PICK rep \in BOOLEAN : rep = FALSE /\ PickHandleKey(k, rep)
    BY DEF PickPress
  <2>2. k # Escape
    BY PickerAssumption
  <2> QED BY <2>1, <2>2 DEF PickHandleKey
<1>2. Holds /\ HasFound /\ scanned \in Screen /\ typed \in Seq(LetterSet)
      /\ Len(typed) < Needed /\ Needed \in {1, 2}
  BY NeededIs DEF PickInv, Holds, PickerForgets
<1>3. Len(typed) \in Nat /\ Len(full) = Len(typed) + 1
  BY <1>2
<1>4. IF Len(full) < Needed
        THEN typed' = full /\ UNCHANGED <<mode, selected>>
        ELSE /\ typed' = <<>>
             /\ IF hits = {} THEN UNCHANGED <<mode, selected>>
                ELSE /\ selected' = CHOOSE j \in hits : \A l \in hits : j <= l
                     /\ mode' = "action"
  <2>1. ~(Len(typed) >= Needed)
    BY <1>2, <1>3
  <2> QED BY <1>1, <2>1 DEF HintKey
<1>5. DOMAIN matches = 1 .. Len(matches)
  <2>1. PICK q, n : AreUrls(q, n)
    BY <1>2, MatchesAreUrls
  <2> QED BY <2>1 DEF AreUrls
<1>6. Len(matches[i].label) = Needed
      /\ \A j \in DOMAIN matches \ {i} : matches[i].label # matches[j].label
  <2>1. EveryUrlSelectable
    BY <1>2, AllSelectable
  <2> QED BY <2>1 DEF EveryUrlSelectable
<1>7. ASSUME full = matches[i].label PROVE mode' = "action" /\ selected' = i
  <2>1. ~(Len(full) < Needed)
    BY <1>2, <1>6, <1>7
  <2>2. i \in hits /\ \A j \in hits : j = i
    BY <1>5, <1>6, <1>7
  <2>3. i \in Int
    BY <1>5
  <2> HIDE DEF full, hits
  <2>4. (CHOOSE j \in hits : \A l \in hits : j <= l) = i
    BY <2>2, <2>3
  <2> QED BY <1>4, <2>1, <2>2, <2>4
<1>8. ASSUME Len(typed) + 1 < Len(matches[i].label) PROVE mode' = "hint" /\ typed' = full
  <2>1. Len(full) < Needed
    BY <1>3, <1>6, <1>8
  <2> QED BY <1>4, <2>1
<1> QED BY <1>7, <1>8

\* Every URL that has a label is reached by it: the letters of the label, one
\* press each, select that match, whatever the other labels are.
THEOREM LabelsPickTheirUrls == PickSpec => LabelsPick
<1>1. PickInv /\ [PickNext]_urlPickVars =>
        [ \A k \in LetterSet, i \in DOMAIN matches :
            mode = "hint" /\ PickPress(k) =>
              /\ Append(typed, k) = matches[i].label => mode' = "action" /\ selected' = i
              /\ Len(typed) + 1 < Len(matches[i].label) => mode' = "hint" /\ typed' = Append(typed, k)
        ]_urlPickVars
  BY LetterPicks
<1> QED BY <1>1, PickInvariant, PTL DEF PickSpec, LabelsPick
=============================================================================
