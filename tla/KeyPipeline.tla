---------------------------- MODULE KeyPipeline ----------------------------
(***************************************************************************)
(* The keyboard pipeline of main.c: what a key press or a repeat does to   *)
(* the modifiers, the layers and the shell of the active tab, and what     *)
(* io.c remembers of the last write for a key that is held down.           *)
(*                                                                         *)
(* A key event is handled to its end in one step.  Between two events of   *)
(* the same key anything else may run: touches, `action` commands and Lua, *)
(* the on-screen keyboard, a reload.  Times between events are a choice.   *)
(***************************************************************************)
EXTENDS Integers, Sequences, FiniteSets

CONSTANTS
  Key,              \* key codes
  SymKey, AltKey, LShift, RShift, \* KEYCODE_BB_SYM_KEY, ..., KEYCODE_RIGHT_SHIFT
  CtrlKey,          \* control, hyper and caps lock: latch Ctrl
  NoKey,            \* no key is down
  NoMenu,           \* NULL
  MainMenu,         \* prefs->main_symmenu
  Mod,              \* modifiers a key event may carry: sets of "ctrl", "alt", "shift"
  MetaTable,        \* prefs->metamode_keys: key or glyph -> [to, sticky]
  AltTable,         \* prefs->altsym_entries: key -> glyph
  MenuTable,        \* menu -> the keys it has entries for
  Letters,          \* keys with an upper case: get_keyhold_actions' menus
  Accented,         \* letters whose menu has more than the upper case
  Chords,           \* prefs->chord_bindings, in order: [key, mods, to]
  DoubletapKey, HoldKey, Exempt,             \* prefs
  StickySym, StickyShift, StickyAlt,         \* prefs
  ScriptedAction,   \* what `action` commands and Lua are seen to dispatch
  MayExit           \* tabs whose shell may exit

ASSUME KeyAssumption ==
  /\ {SymKey, AltKey, RShift, HoldKey, DoubletapKey} \subseteq Key
  /\ AltKey \notin {SymKey, LShift, RShift}
  /\ CtrlKey \subseteq Key /\ Exempt \subseteq Key /\ Accented \subseteq Letters
  /\ Letters \subseteq Key \ {MainMenu}
  /\ NoKey \notin Key /\ NoMenu \notin Letters \cup {MainMenu}
  /\ Mod \subseteq SUBSET {"ctrl", "alt", "shift"}
  /\ {StickySym, StickyShift, StickyAlt} \subseteq BOOLEAN
  /\ DOMAIN MenuTable = Letters \cup {MainMenu}
  /\ \A g \in DOMAIN MetaTable : MetaTable[g].sticky \in BOOLEAN
  /\ DOMAIN Chords \subseteq Nat
  /\ MayExit \subseteq {1, 2}

VARIABLES
  vmodifiers,       \* kbd.vmodifiers
  altsymLock,       \* kbd.altsym_lock
  metamode,         \* kbd.metamode
  currentSymmenu,   \* kbd.current_symmenu
  symmenuLock,      \* kbd.symmenu_lock
  keyRepeatDone,    \* kbd.key_repeat_done
  vkbVisible,       \* kbd.virtualkeyboard_visible
  helpOverlay,      \* current_help_overlay
  pickerUp,         \* url_pick_active()
  active,           \* the active tab
  exited,           \* tabs whose shell has exited: no master to write to
  writebuf,         \* whose bytes are in io.c's writebuf: the tab they went to
  held,             \* the key that is down and repeats
  hold              \* history: how far the hold of that key has come

kbdVars   == <<vmodifiers, altsymLock, metamode, currentSymmenu, symmenuLock, keyRepeatDone>>
modalVars == <<vkbVisible, helpOverlay, pickerUp>>
tabVars   == <<active, exited, writebuf>>
vars      == <<kbdVars, modalVars, tabVars, held, hold>>

Tab    == {1, 2}
NoTab  == 0
Latch  == {"ctrl", "alt", "shift"}
Menu   == DOMAIN MenuTable
Shifts == {LShift, RShift}

-----------------------------------------------------------------------------
(***************************************************************************)
(* The mutators of input_state                                             *)
(***************************************************************************)

\* toggle_vkeymod, on the bits vm
Toggled(vm, m) == IF m \in vm THEN vm \ {m} ELSE vm \cup {m}

\* symmenu_toggle: opens target when no menu is open, else closes the open one.
ToggleMenu(target) ==
  IF currentSymmenu # NoMenu
    THEN currentSymmenu' = NoMenu /\ symmenuLock' = FALSE
    ELSE /\ currentSymmenu' = target
         /\ symmenuLock' = (symmenuLock \/ (target # NoMenu /\ StickySym))

\* current_modmask
ModMask ==
  vmodifiers \cup (IF altsymLock THEN {"alt"} ELSE {})
             \cup (IF currentSymmenu # NoMenu \/ symmenuLock THEN {"sym"} ELSE {})

\* session_write_text of the active session: without a master nothing is
\* encoded, else io_write_master leaves the bytes in writebuf.
WriteToActive == writebuf' = IF active \in exited THEN writebuf ELSE active

(***************************************************************************)
(* app_dispatch_action, with the latched modifiers vm and metamode mm it   *)
(* is to leave behind but for its own effect.  Sequences and terminfo keys *)
(* go through writebuf, a paste does not; a reload only asks for one; what *)
(* touches no variable here is "other".                                    *)
(***************************************************************************)
Dispatch(a, vm, mm) ==
  /\ vmodifiers' = CASE a = "ctrl_down" -> Toggled(vm, "ctrl")
                     [] a = "alt_down"  -> Toggled(vm, "alt")
                     [] OTHER           -> vm
  /\ metamode' = IF a = "metamode_toggle" THEN ~mm ELSE mm
  /\ helpOverlay' = IF a = "help_overlay" THEN ~helpOverlay ELSE helpOverlay
  /\ IF a = "url_pick" THEN pickerUp' \in BOOLEAN ELSE UNCHANGED pickerUp
  /\ active' = IF a = "tab_next" THEN 3 - active ELSE active
  /\ IF a = "bytes" THEN WriteToActive ELSE UNCHANGED writebuf

\* Nothing is dispatched; vm and mm are left behind.
Quiet(vm, mm) ==
  vmodifiers' = vm /\ metamode' = mm /\ UNCHANGED <<helpOverlay, pickerUp, active, writebuf>>

-----------------------------------------------------------------------------
(***************************************************************************)
(* Chords                                                                  *)
(***************************************************************************)

\* Faulty variant: the mask has to match exactly, as at site B.
ExactPrefix(k, prefix) ==
  {i \in DOMAIN Chords : Chords[i].key = k /\ Chords[i].mods = prefix}

\* chord_lookup_subset: the chords whose modifiers are all stuck
WithinPrefix(k, prefix) ==
  {i \in DOMAIN Chords :
     Chords[i].key = k /\ Chords[i].mods # {} /\ Chords[i].mods \subseteq prefix}

\* ... of which the one with the most modifiers is taken, the first if several.
MostSpecific(S) ==
  {i \in S : \A j \in S \ {i} :
     \/ Cardinality(Chords[j].mods) < Cardinality(Chords[i].mods)
     \/ Cardinality(Chords[j].mods) = Cardinality(Chords[i].mods) /\ i < j}

\* chord_lookup: the first chord with exactly these modifiers
ExactChord(k, mods) ==
  {i \in DOMAIN Chords : /\ Chords[i].key = k /\ Chords[i].mods = mods
                         /\ \A j \in 1 .. i - 1 : Chords[j].key # k \/ Chords[j].mods # mods}

\* chord_clear_prefix consumes the modifiers of the chord and no other, then
\* the chord's action is dispatched.
FireSiteA(c, mm) ==
  /\ Dispatch(c.to, vmodifiers \ c.mods, mm)
  /\ altsymLock' = (altsymLock /\ "alt" \notin c.mods)
  /\ IF "sym" \in c.mods THEN currentSymmenu' = NoMenu /\ symmenuLock' = FALSE
                         ELSE UNCHANGED <<currentSymmenu, symmenuLock>>
  /\ UNCHANGED keyRepeatDone

-----------------------------------------------------------------------------
(***************************************************************************)
(* The layers above the hold step.  mm is metamode after doubletap_step,   *)
(* which may just have toggled it (quick).                                 *)
(***************************************************************************)

IsModKey(k) == k \in {SymKey, AltKey} \/ (k \in Shifts /\ ~vkbVisible)

\* layer_modkey: the trigger, its own bit, and whether its own toggle may run
Trigger(k) == IF k \in Shifts THEN LShift ELSE k
OwnBit(k)  == CASE k = SymKey -> "sym" [] k = AltKey -> "alt" [] OTHER -> "shift"
Gated(k)   == CASE k = SymKey -> TRUE [] k = AltKey -> StickyAlt [] OTHER -> StickyShift

SiteA(k, rep) ==
  IF IsModKey(k) /\ ~rep
    THEN MostSpecific(WithinPrefix(Trigger(k), ModMask \ {OwnBit(k)})) ELSE {}

ModKeyTakes(k, rep) == SiteA(k, rep) # {} \/ (IsModKey(k) /\ Gated(k))

\* Faulty variant: every modifier key latches its own bit.
ModKeyDefaultLatching(k, rep, mm) ==
  /\ Quiet(IF rep THEN vmodifiers ELSE Toggled(vmodifiers, OwnBit(k)), mm)
  /\ UNCHANGED <<altsymLock, currentSymmenu, symmenuLock, keyRepeatDone>>

\* modkey_sym_default, modkey_alt_default, modkey_shift_default
ModKeyDefault(k, rep, mm) ==
  /\ Quiet(IF OwnBit(k) = "shift" /\ ~rep THEN Toggled(vmodifiers, "shift") ELSE vmodifiers, mm)
  /\ altsymLock' = IF k = AltKey /\ ~rep THEN ~altsymLock ELSE altsymLock
  /\ CASE k = SymKey /\ ~rep -> ToggleMenu(MainMenu) \/ ToggleMenu(NoMenu)
       [] k = SymKey /\ rep  -> symmenuLock' = TRUE /\ UNCHANGED currentSymmenu
       [] OTHER              -> UNCHANGED <<currentSymmenu, symmenuLock>>
  /\ UNCHANGED keyRepeatDone

ModKey(k, rep, mm) ==
  \/ \E i \in SiteA(k, rep) : FireSiteA(Chords[i], mm)
  \/ SiteA(k, rep) = {} /\ ModKeyDefault(k, rep, mm)

\* metamode_lookup: the alt layer's glyph first, when that layer is armed.
ByGlyph(k)  == altsymLock /\ k \in DOMAIN AltTable /\ AltTable[k] \in DOMAIN MetaTable
MetaHit(k)  == ByGlyph(k) \/ k \in DOMAIN MetaTable
MetaEntry(k) == IF ByGlyph(k) THEN MetaTable[AltTable[k]] ELSE MetaTable[k]

MetaTakes(k, mm, quick) == mm /\ ~quick /\ MetaHit(k)

\* layer_meta: an entry that is not sticky lets metamode go after its action,
\* and a held key may then start over.
MetaMode(k, rep) ==
  /\ Dispatch(MetaEntry(k).to, vmodifiers, MetaEntry(k).sticky)
  /\ altsymLock' = (altsymLock /\ ~ByGlyph(k))
  /\ keyRepeatDone' = (keyRepeatDone /\ MetaEntry(k).sticky)
  /\ hold' = IF ~MetaEntry(k).sticky THEN "armed" ELSE IF rep THEN hold ELSE "above"
  /\ UNCHANGED <<currentSymmenu, symmenuLock>>

-----------------------------------------------------------------------------
(***************************************************************************)
(* keyhold_step, which takes every repeat of a key that is not exempt      *)
(***************************************************************************)

HoldTakes(k, rep) == rep /\ k \notin Exempt

HoldOver(mm) ==
  /\ keyRepeatDone
  /\ Quiet(vmodifiers, mm)
  /\ UNCHANGED <<altsymLock, currentSymmenu, symmenuLock, keyRepeatDone, hold>>

\* Faulty variant: the hold is not marked as done.
HoldMetamodeAgain(k, mm) ==
  /\ ~keyRepeatDone /\ k = HoldKey
  /\ WriteToActive
  /\ metamode' = ~mm
  /\ hold' = "fired"
  /\ UNCHANGED <<keyRepeatDone, vmodifiers, altsymLock, currentSymmenu, symmenuLock,
                 helpOverlay, pickerUp, active>>

\* The metamode key: one backspace, then metamode is toggled.
HoldMetamode(k, mm) ==
  /\ ~keyRepeatDone /\ k = HoldKey
  /\ WriteToActive
  /\ metamode' = ~mm
  /\ keyRepeatDone' = TRUE
  /\ hold' = "fired"
  /\ UNCHANGED <<vmodifiers, altsymLock, currentSymmenu, symmenuLock, helpOverlay,
                 pickerUp, active>>

\* No menu for this key: the repeat is swallowed, and so is the next.
HoldNothing(k, mm) ==
  /\ ~keyRepeatDone /\ k # HoldKey /\ k \notin Letters
  /\ Quiet(vmodifiers, mm)
  /\ UNCHANGED <<altsymLock, currentSymmenu, symmenuLock, keyRepeatDone, hold>>

\* io_upcase_last_write finds characters in writebuf, wherever they went.
SomethingToErase == writebuf # NoTab

\* A letter: as many backspaces as writebuf holds characters, to the active
\* tab, then the upper case or the menu of accents.
HoldReplace(k, mm) ==
  /\ ~keyRepeatDone /\ k # HoldKey /\ k \in Letters
  /\ IF k \in Letters \ Accented \/ SomethingToErase THEN WriteToActive ELSE UNCHANGED writebuf
  /\ IF k \in Accented
       THEN ToggleMenu(k) \/ ToggleMenu(NoMenu)
       ELSE UNCHANGED <<currentSymmenu, symmenuLock>>
  /\ metamode' = mm
  /\ keyRepeatDone' = TRUE
  /\ hold' = "fired"
  /\ UNCHANGED <<vmodifiers, altsymLock, helpOverlay, pickerUp, active>>

KeyHold(k, mm) ==
  HoldOver(mm) \/ HoldMetamode(k, mm) \/ HoldNothing(k, mm) \/ HoldReplace(k, mm)

-----------------------------------------------------------------------------
(***************************************************************************)
(* The layers below the hold step, which has reset key_repeat_done         *)
(***************************************************************************)

AltTakes(k)  == altsymLock /\ k \in DOMAIN AltTable
MenuTakes(k) == currentSymmenu # NoMenu /\ k \in MenuTable[currentSymmenu]

\* layer_altsym: the lock goes with the next key, hit or miss.
AltLayer(mm) ==
  Dispatch("bytes", vmodifiers, mm) /\ UNCHANGED <<currentSymmenu, symmenuLock>>

\* layer_symmenu closes the menu on a hit, locked or not.
MenuLayer(mm) == Dispatch("bytes", vmodifiers, mm) /\ ToggleMenu(NoMenu)

SiteB(k, pm, rep) ==
  IF rep THEN {} ELSE ExactChord(k, pm \cup vmodifiers)

\* The latched modifiers go into this key and are gone: an ordinary chord or
\* terminal_fallback uses them.
Ordinary(k, pm, rep, mm) ==
  /\ \/ \E i \in SiteB(k, pm, rep) : Dispatch(Chords[i].to, {}, mm)
     \/ /\ SiteB(k, pm, rep) = {}
        /\ CASE k \in CtrlKey -> Quiet({"ctrl"}, mm)
             [] k \in Shifts  -> Quiet({}, mm)
             [] OTHER         -> Dispatch("bytes", {}, mm)
  /\ UNCHANGED <<currentSymmenu, symmenuLock>>

BelowHold(k, pm, rep, mm) ==
  /\ keyRepeatDone' = FALSE
  /\ altsymLock' = FALSE
  /\ \/ AltTakes(k) /\ AltLayer(mm)
     \/ ~AltTakes(k) /\ MenuTakes(k) /\ MenuLayer(mm)
     \/ ~AltTakes(k) /\ ~MenuTakes(k) /\ Ordinary(k, pm, rep, mm)
  /\ hold' = IF rep THEN hold ELSE "armed"

-----------------------------------------------------------------------------
(***************************************************************************)
(* app_handle_key and the TERM_EVENT_KEY case of app_handle_event          *)
(***************************************************************************)

\* doubletap_step: whether this press is the second of a double tap
MayBeQuick(k, rep) == IF k = DoubletapKey /\ ~rep THEN BOOLEAN ELSE {FALSE}

\* run_layers and the imperative steps between them; a press that a layer
\* above the hold step takes leaves the hold of the key out of its hands.
Resolve(k, pm, rep, mm, quick) ==
  \/ /\ ModKeyTakes(k, rep)
     /\ ModKey(k, rep, mm)
     /\ hold' = IF rep THEN hold ELSE "above"
  \/ /\ ~ModKeyTakes(k, rep) /\ MetaTakes(k, mm, quick)
     /\ MetaMode(k, rep)
  \/ /\ ~ModKeyTakes(k, rep) /\ ~MetaTakes(k, mm, quick) /\ HoldTakes(k, rep)
     /\ KeyHold(k, mm)
  \/ /\ ~ModKeyTakes(k, rep) /\ ~MetaTakes(k, mm, quick) /\ ~HoldTakes(k, rep)
     /\ BelowHold(k, pm, rep, mm)

\* help_dismiss_step: the press that closes the overlay does nothing else.
DismissHelp ==
  /\ helpOverlay' = FALSE
  /\ hold' = "above"
  /\ UNCHANGED <<kbdVars, pickerUp, active, writebuf>>

\* Faulty variant: the metamode key's double tap is looked for first.
HandleKeyTapFirst(k, pm, rep) ==
  \E quick \in MayBeQuick(k, rep) :
    \/ helpOverlay /\ ~rep /\ ~quick /\ DismissHelp
    \/ (~helpOverlay \/ rep \/ quick) /\ Resolve(k, pm, rep, metamode # quick, quick)

HandleKey(k, pm, rep) ==
  \/ helpOverlay /\ ~rep /\ DismissHelp
  \/ /\ ~helpOverlay \/ rep
     /\ \E quick \in MayBeQuick(k, rep) : Resolve(k, pm, rep, metamode # quick, quick)

\* The picker takes every press; it may end with one, but a repeat leaves it.
PickerKey(rep) ==
  /\ IF rep THEN UNCHANGED pickerUp ELSE pickerUp' \in BOOLEAN
  /\ hold' = IF rep THEN hold ELSE "above"
  /\ UNCHANGED <<kbdVars, helpOverlay, active, writebuf>>

Event(k, pm, rep) ==
  /\ IF pickerUp THEN PickerKey(rep) ELSE HandleKey(k, pm, rep)
  /\ UNCHANGED <<vkbVisible, exited>>

Press(k, pm) == held' = k /\ Event(k, pm, FALSE)

Repeat(pm) == held # NoKey /\ Event(held, pm, TRUE) /\ UNCHANGED held

\* app_handle_key drops releases.
Release ==
  /\ held # NoKey
  /\ held' = NoKey /\ hold' = "none"
  /\ UNCHANGED <<kbdVars, modalVars, tabVars>>

-----------------------------------------------------------------------------
(***************************************************************************)
(* What else reaches this state                                            *)
(***************************************************************************)

\* A tap on the metamode hitbox
TapMetamode ==
  /\ ~pickerUp
  /\ metamode' = ~metamode
  /\ UNCHANGED <<vmodifiers, altsymLock, currentSymmenu, symmenuLock, keyRepeatDone,
                 modalVars, tabVars, held, hold>>

\* A tap on an entry of the open menu: closes it unless it is locked.
TapMenu ==
  /\ ~pickerUp /\ currentSymmenu # NoMenu
  /\ Dispatch("bytes", vmodifiers, metamode)
  /\ IF symmenuLock THEN UNCHANGED <<currentSymmenu, symmenuLock>> ELSE ToggleMenu(NoMenu)
  /\ UNCHANGED <<altsymLock, keyRepeatDone, vkbVisible, exited,
                 held, hold>>

TapOutsidePicker ==
  /\ pickerUp /\ pickerUp' = FALSE
  /\ UNCHANGED <<kbdVars, vkbVisible, helpOverlay, tabVars, held, hold>>

\* app_run_action_string: an `action` command, or Lua; also under the picker
Scripted(a) ==
  /\ Dispatch(a, vmodifiers, metamode)
  /\ UNCHANGED <<altsymLock, currentSymmenu, symmenuLock, keyRepeatDone, vkbVisible, exited,
                 held, hold>>

ShellExits ==
  /\ \E t \in MayExit \ exited : exited' = exited \cup {t}
  /\ UNCHANGED <<kbdVars, modalVars, active, writebuf, held, hold>>

KeyboardMoves ==
  /\ vkbVisible' = ~vkbVisible
  /\ UNCHANGED <<kbdVars, helpOverlay, pickerUp, tabVars, held, hold>>

\* app_reload_config, when the file is good: what points into or derives from
\* the old config goes, the latched modifiers stay.
Reload ==
  /\ currentSymmenu' = NoMenu /\ symmenuLock' = FALSE
  /\ metamode' = FALSE /\ altsymLock' = FALSE /\ helpOverlay' = FALSE
  /\ UNCHANGED <<vmodifiers, keyRepeatDone, vkbVisible, pickerUp, tabVars, held, hold>>

-----------------------------------------------------------------------------

Init ==
  /\ vmodifiers = {} /\ altsymLock = FALSE /\ metamode = FALSE
  /\ currentSymmenu = NoMenu /\ symmenuLock = FALSE /\ keyRepeatDone = FALSE
  /\ vkbVisible = FALSE /\ pickerUp = FALSE
  /\ helpOverlay \in BOOLEAN      \* set at start when the config is outdated
  /\ active = 1 /\ exited = {} /\ writebuf = NoTab
  /\ held = NoKey /\ hold = "none"

Next ==
  \/ \E k \in Key, pm \in Mod : Press(k, pm)
  \/ \E pm \in Mod : Repeat(pm)
  \/ Release
  \/ TapMetamode \/ TapMenu \/ TapOutsidePicker
  \/ \E a \in ScriptedAction : Scripted(a)
  \/ KeyboardMoves \/ ShellExits
  \/ Reload

Spec == Init /\ [][Next]_vars

-----------------------------------------------------------------------------
(***************************************************************************)
(* Properties                                                              *)
(***************************************************************************)

\* Every variable has its type.
TypeOK ==
  /\ vmodifiers \subseteq Latch
  /\ {altsymLock, metamode, symmenuLock, keyRepeatDone, vkbVisible, helpOverlay, pickerUp}
       \subseteq BOOLEAN
  /\ currentSymmenu \in Menu \cup {NoMenu}
  /\ active \in Tab /\ exited \subseteq Tab /\ writebuf \in Tab \cup {NoTab}
  /\ held \in Key \cup {NoKey}
  /\ hold \in {"none", "above", "armed", "fired"}

\* A held key acts once. When its press has come as far as the hold step (or
\* has let metamode go), key_repeat_done says just whether the hold has fired,
\* whatever the keys, taps and scripts before it have left in the flag: no hold
\* is lost to an older one, and none fires twice.
HoldFiresOnce ==
  /\ hold = "armed" => ~keyRepeatDone
  /\ hold = "fired" => keyRepeatDone

\* shift and then alt latches Ctrl, and the same two keys let it go again:
\* the chord is found whatever else is latched, spends the shift, and leaves
\* the rest of the latched modifiers alone (test_chord_match.c's scenario).
CtrlChordToggles ==
  [][ (Press(AltKey, {}) /\ "shift" \in vmodifiers /\ ~helpOverlay /\ ~pickerUp)
        => vmodifiers' = Toggled(vmodifiers \ {"shift"}, "ctrl") ]_vars

\* A modal screen takes the whole press: with the help overlay or the URL
\* picker up no press reaches a shell, changes a modifier, a layer or a tab.
PressesStayModal ==
  [][ (helpOverlay \/ pickerUp) /\ (\E k \in Key, pm \in Mod : Press(k, pm))
        => UNCHANGED <<kbdVars, active, writebuf>> ]_vars

\* io.c: "Implicitly scoped to the active session's keyboard write path --
\* only the active session can be receiving keystrokes." A held letter takes
\* back what was written last; that was to have gone to the same tab.
HoldErasesOwnTab ==
  [][ (\E k \in Letters : HoldReplace(k, metamode)) /\ active \notin exited
        => writebuf \in {NoTab, active} ]_vars
=============================================================================
