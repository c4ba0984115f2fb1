\* The shipped preferences (sticky shift and alt, a menu that does not stick)
\* and bindings; two tabs, one of them active.
CONSTANTS
  Key <- MCKey
  SymKey = "sym"
  AltKey = "alt"
  LShift = "lshift"
  RShift = "rshift"
  CtrlKey <- MCCtrlKey
  NoKey = NoKey
  NoMenu = NoMenu
  MainMenu = "main"
  Mod <- MCMod
  MetaTable <- MCMetaTable
  AltTable <- MCAltTable
  MenuTable <- MCMenuTable
  Letters <- MCLetters
  Accented <- MCAccented
  Chords <- MCChords
  DoubletapKey = "rshift"
  HoldKey = "space"
  Exempt <- MCExempt
  StickySym = FALSE
  StickyShift = TRUE
  StickyAlt = TRUE
  ScriptedAction <- MCScripted
  MayExit = {2}
SPECIFICATION Spec
INVARIANTS
  TypeOK
  HoldFiresOnce
PROPERTIES
  CtrlChordToggles
  PressesStayModal
