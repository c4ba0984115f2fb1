---------------------------- MODULE ConfigStore ----------------------------
(***************************************************************************)
(* What preferences.c makes of a .term.lua: the tables that are merged     *)
(* over the compiled defaults and the grid that replaces its own.          *)
(*                                                                         *)
(* A binding is [from, to]; from stands for the key of a keymap entry or   *)
(* the (keycode, mods) of a chord, to for an action, or for Unbind, the    *)
(* `false` that removes a default. Bad is a record of the wrong shape.     *)
(***************************************************************************)
EXTENDS Integers, Sequences, SequencesExt

CONSTANTS
  Trigger,          \* what a binding may be for
  DefaultKeys,      \* DEFAULT_METAMODE_KEYS, DEFAULT_ALTSYM_ENTRIES
  DefaultChords,    \* DEFAULT_CHORD_BINDINGS
  DefaultMenu,      \* DEFAULT_SYMMENU_ENTRIES
  DefaultExempt,    \* DEFAULT_KEYHOLD_ACTIONS_EXEMPT
  DefaultColor,     \* DEFAULT_TEXT_COLOR, DEFAULT_BACKGROUND_COLOR
  DefaultBox,       \* DEFAULT_METAMODE_HITBOX
  Unbind, Bad,      \* false, and what is no binding at all
  NaN,              \* an element that is no number
  Absent            \* a global the file does not set, or not to a table

EmptyMenu == <<>>

IsTable(t) == t \in Seq({t[i] : i \in DOMAIN t})
Distinct(t) == \A i, j \in DOMAIN t : t[i].from = t[j].from => i = j
Numbers(table) == \A i \in DOMAIN table : table[i] # NaN

ASSUME ConfigAssumption ==
  /\ \A d \in {DefaultKeys, DefaultChords} : IsTable(d) /\ Distinct(d)
  /\ \A d \in {DefaultExempt, DefaultColor, DefaultBox} : Numbers(d)
  /\ IsTable(DefaultBox)
  /\ DefaultMenu # EmptyMenu
  /\ Absent \notin {DefaultMenu, EmptyMenu}

-----------------------------------------------------------------------------

\* lua_pairs_valid, and its like for chords: one bad record rejects the table.
Valid(table) == \A i \in DOMAIN table : table[i] # Bad

Places(table, from) == {i \in DOMAIN table : table[i].from = from}
FirstPlace(table, from) ==
  CHOOSE i \in Places(table, from) : \A j \in Places(table, from) : i <= j

\* One user entry over what has been merged so far: it overrides in place,
\* removes, or is appended.
AppendEntry(table, e) ==        \* Faulty variant: appended behind what it is to override
  IF e.to = Unbind THEN SelectSeq(table, LAMBDA x : x.from # e.from) ELSE Append(table, e)
ApplyEntry(table, e) ==
  IF Places(table, e.from) = {}
    THEN IF e.to = Unbind THEN table ELSE Append(table, e)
  ELSE IF e.to = Unbind
    THEN RemoveAt(table, FirstPlace(table, e.from))
  ELSE [table EXCEPT ![FirstPlace(table, e.from)] = e]

\* lua_keymap_merge
KeymapMerge(def, table) == FoldLeft(ApplyEntry, def, table)

\* lua_create_keymap_array, lua_create_chord_array
KeymapArray(table, def) ==
  IF table = Absent THEN def ELSE IF Valid(table) THEN KeymapMerge(def, table) ELSE def
ChordArray(table) ==
  IF table = Absent THEN DefaultChords
  ELSE IF Valid(table) THEN FoldLeft(ApplyEntry, DefaultChords, table) ELSE DefaultChords

\* lua_create_symmenu: replaced as a whole, by a grid without rows, too.
Symmenu(menu) == IF menu = Absent THEN DefaultMenu ELSE menu

\* lua_create_int_array: all of it or none.
IntArray(table, def) ==
  IF table = Absent THEN def ELSE IF Numbers(table) THEN table ELSE def

\* lua_create_color: element by element, and never more or fewer.
Color(table, def) ==
  [i \in DOMAIN def |->
    IF table = Absent THEN def[i]
    ELSE IF i \in DOMAIN table /\ table[i] # NaN THEN table[i] ELSE def[i]]

\* lua_create_hitbox: the first four, if there are four and all are numbers.
Hitbox(table, def) ==
  IF table = Absent THEN def
  ELSE IF Len(table) >= Len(def) /\ Numbers(SubSeq(table, 1, Len(def)))
         THEN SubSeq(table, 1, Len(def)) ELSE def

(***************************************************************************)
(* A file sets keys, then chords, then the menu, and may end with an error *)
(* before it has set them all: a syntax error runs nothing, a runtime      *)
(* error comes after the first table.                                      *)
(***************************************************************************)
Unset == [keys |-> Absent, chords |-> Absent, menu |-> Absent, exempt |-> Absent,
          color |-> Absent, box |-> Absent]
Globals(file) ==
  CASE file.fault = "none"    -> file.sets
    [] file.fault = "runtime" -> [Unset EXCEPT !.keys = file.sets.keys]
    [] file.fault = "syntax"  -> Unset

\* prefs_build_from_lua, of the globals a state holds
Build(globals) ==
  [keys   |-> KeymapArray(globals.keys, DefaultKeys),
   chords |-> ChordArray(globals.chords),
   menu   |-> Symmenu(globals.menu),
   exempt |-> IntArray(globals.exempt, DefaultExempt),
   color  |-> Color(globals.color, DefaultColor),
   box    |-> Hitbox(globals.box, DefaultBox)]

Defaults == Build(Unset)

-----------------------------------------------------------------------------
(***************************************************************************)
(* What a table means, without a merge: the last word the user has on a    *)
(* trigger counts; on the others the defaults do.                          *)
(***************************************************************************)
LastWord(table, from) ==
  table[CHOOSE i \in Places(table, from) : \A j \in Places(table, from) : j <= i].to

Default(def, from) == IF Places(def, from) = {} THEN Unbind ELSE LastWord(def, from)

Meaning(def, table, from) ==
  IF table = Absent THEN Default(def, from)
  ELSE IF ~Valid(table) THEN Default(def, from)
  ELSE IF Places(table, from) = {} THEN Default(def, from)
  ELSE LastWord(table, from)

\* keymap_lookup, chord_lookup: the first entry counts.
Bound(table, from) ==
  IF Places(table, from) = {} THEN Unbind ELSE table[FirstPlace(table, from)].to

Means(built, def, table) == \A t \in Trigger : Bound(built, t) = Meaning(def, table, t)
=============================================================================
