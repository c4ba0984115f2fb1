\* The shipped preferences (sticky shift and alt, a menu that does not stick)
\* and bindings, and nothing but keys and taps.
CONSTANTS
  Key <- MCKey
  SymKey = "sym"
  AltKey = "alt"
  LShift = "lshift"
  RShift = "rshift"
  CtrlKey <- MCCtrlKey
  NoKey = NoKey
  NoMenu = NoMenu
  MainMenu = "main"
  Mod <- MCMod
  MetaTable <- MCMetaTable
  AltTable <- MCAltTable
  MenuTable <- MCMenuTable
  Letters <- MCLetters
  Accented <- MCAccented
  Chords <- MCChords
  DoubletapKey = "rshift"
  HoldKey = "space"
  Exempt <- MCExempt
  StickySym = FALSE
  StickyShift = TRUE
  StickyAlt = TRUE
  ScriptedAction = {}
  MayExit = {}
SPECIFICATION Spec
PROPERTY HoldErasesOwnTab
