----------------------------- MODULE Lifecycle -----------------------------
(***************************************************************************)
(* The program from main() to its end: the start-up that may stop at any   *)
(* of its steps, the loop with its deferred reload, and app_shutdown, with *)
(* what each of them has in hand and which pointers still lead to it.      *)
(*                                                                         *)
(* Everything runs on one thread. A step of this module is one call that   *)
(* takes, frees or follows something, so that the order of the calls is    *)
(* what is checked. A configuration in use is 1 or 2, the next one the     *)
(* other: a pointer into one is its number, 0 is NULL.                     *)
(***************************************************************************)
EXTENDS ConfigStore

CONSTANTS
  File,             \* what .term.lua may hold: [fault, sets]
  NoFile

ASSUME LifecycleAssumption ==
  /\ NoFile \notin File
  /\ \A f \in File :
       /\ f.fault \in {"none", "runtime", "syntax"}
       /\ \A t \in {f.sets.keys, f.sets.chords} : t = Absent \/ IsTable(t)

VARIABLES
  pc,               \* the call main is at
  held,             \* what has been taken and not yet given back
  flags,            \* the flags and pointers app_shutdown looks at
  misused,          \* history: what was given back without being held
  ran,              \* history: the loop has been reached
  loaded,           \* the file that prefs and the Lua state came from
  fresh,            \* the file a reload is at
  prefs,            \* *prefs
  cfg, luaGen,      \* which configuration is in *prefs, in g_lua_state
  labels,           \* the configuration whose labels are decoded
  cache,            \* the configuration the renderer's menus were drawn from
  fontPtr,          \* font: "null", "live", or "dangling" after font_close
  rendererFont,     \* the renderer's font: "null" or "live"
  menuPtr,          \* kbd.current_symmenu
  entry,            \* the entry of *prefs being dispatched
  luaRun,           \* the Lua states that are running a function or a chunk
  caller,           \* what runs the action: "event", "drain", "load" or "none"
  back,             \* where rescreen returns to
  pending,          \* g_reload_pending
  exiting           \* exit_application

cfgVars  == <<loaded, prefs, cfg, luaGen, labels>>
fontVars == <<cache, fontPtr, rendererFont>>
ptrVars  == <<menuPtr, entry, luaRun, caller, back>>
loopVars == <<fresh, pending, exiting>>
vars == <<pc, held, flags, misused, ran, cfgVars, fontVars, ptrVars, loopVars>>

\* What each thing in hand cannot do without.
Needs(r) ==
  CASE r = "window"      -> {"bps"}
    [] r = "pipeWatch"   -> {"bps", "pipe"}
    [] r = "listenWatch" -> {"bps", "listen"}
    [] r = "masterWatch" -> {"bps", "master"}
    [] r = "master"      -> {"session"}
    [] r = "session"     -> {"prefs", "converters"}
    [] r = "font"        -> {"library"}
    [] r = "symmenus"    -> {"renderer", "prefs"}
    [] r = "renderer"    -> {"window"}
    [] OTHER             -> {}

Resource == {"lua", "prefs", "bps", "window", "converters", "pipe", "pipeWatch", "listen",
             "listenWatch", "library", "font", "renderer", "symmenus", "session", "master",
             "masterWatch"}

-----------------------------------------------------------------------------
(***************************************************************************)
(* Start-up: main() and startup_init                                       *)
(***************************************************************************)

ShutDown == "unwatch_masters"

Acquire(from, to, got, flag) ==
  /\ pc = from /\ pc' = to
  /\ held' = held \cup got /\ flags' = flags \cup flag
  /\ UNCHANGED <<misused, ptrVars, loopVars>>

\* A step that fails; main calls app_shutdown and returns.
Fail(from) ==
  /\ pc = from /\ pc' = ShutDown
  /\ UNCHANGED <<held, flags, misused, ran, cfgVars, fontVars, ptrVars, loopVars>>

\* prefs_lua_load: a file that fails leaves what it has set, no memory exits.
StartPrefs ==
  \/ /\ Acquire("prefs", "platform", {"prefs", "lua"}, {})
     /\ \E f \in File : loaded' = f /\ prefs' = Build(Globals(f))
     /\ cfg' = 1 /\ luaGen' = 1 /\ labels' = 0
     /\ UNCHANGED <<ran, fontVars>>
  \/ /\ pc = "prefs" /\ pc' = "exited"
     /\ UNCHANGED <<held, flags, misused, ran, cfgVars, fontVars, ptrVars, loopVars>>

\* platform_screen_create; when it fails main returns without app_shutdown.
StartPlatform ==
  \/ /\ Acquire("platform", "io", {"bps", "window"}, {"platform"})
     /\ UNCHANGED <<ran, cfgVars, fontVars>>
  \/ /\ pc = "platform" /\ pc' = "exited"
     /\ UNCHANGED <<held, flags, misused, ran, cfgVars, fontVars, ptrVars, loopVars>>

\* io_init never fails; the labels are decoded with its converters.
StartIo ==
  /\ Acquire("io", "pipe", {"converters"}, {})
  /\ labels' = cfg
  /\ UNCHANGED <<ran, loaded, prefs, cfg, luaGen, fontVars>>

StartPipe ==
  \/ Acquire("pipe", "watch", {"pipe"}, {"pipe"}) /\ UNCHANGED <<ran, cfgVars, fontVars>>
  \/ Fail("pipe")

StartWatch ==
  \/ Acquire("watch", "domain", {"pipeWatch"}, {}) /\ UNCHANGED <<ran, cfgVars, fontVars>>
  \/ Fail("watch")

StartDomain ==
  \/ Acquire("domain", "control", {}, {}) /\ UNCHANGED <<ran, cfgVars, fontVars>>
  \/ Fail("domain")

\* control_init marks every slot free first, and may come to nothing.
StartControl ==
  /\ \E got \in {{}, {"listen", "listenWatch"}} : Acquire("control", "library", got, {"clients"})
  /\ UNCHANGED <<ran, cfgVars, fontVars>>

StartLibrary ==
  \/ Acquire("library", "font", {"library"}, {"library"}) /\ UNCHANGED <<ran, cfgVars, fontVars>>
  \/ Fail("library")

\* font_init may fail with the font open: the flag is set only after it.
StartFont ==
  \/ /\ Acquire("font", "renderer", {"font"}, {"font"})
     /\ fontPtr' = "live"
     /\ UNCHANGED <<ran, cfgVars, cache, rendererFont>>
  \/ /\ Acquire("font", ShutDown, {"font"}, {})
     /\ fontPtr' = "live"
     /\ UNCHANGED <<ran, cfgVars, cache, rendererFont>>
  \/ Fail("font")

StartRenderer ==
  \/ /\ Acquire("renderer", "size", {"renderer"}, {"renderer"})
     /\ rendererFont' = fontPtr
     /\ UNCHANGED <<ran, cfgVars, cache, fontPtr>>
  \/ Fail("renderer")

StartSize ==
  \/ Acquire("size", "symmenus", {}, {}) /\ UNCHANGED <<ran, cfgVars, fontVars>>
  \/ Fail("size")

\* renderer_init_symmenus: a main menu without rows cannot be drawn.
StartSymmenus ==
  \/ /\ prefs.menu # EmptyMenu
     /\ Acquire("symmenus", "app", {"symmenus"}, {})
     /\ cache' = cfg
     /\ UNCHANGED <<ran, cfgVars, fontPtr, rendererFont>>
  \/ Fail("symmenus")

StartApp ==
  \/ Acquire("app", "pty", {"session"}, {"app"}) /\ UNCHANGED <<ran, cfgVars, fontVars>>
  \/ Fail("app")

StartPty ==
  \/ Acquire("pty", "sigaction", {"master", "masterWatch"}, {})
     /\ UNCHANGED <<ran, cfgVars, fontVars>>
  \/ Fail("pty")

StartSigaction ==
  \/ /\ Acquire("sigaction", "event", {}, {})
     /\ ran' = TRUE
     /\ UNCHANGED <<cfgVars, fontVars>>
  \/ Fail("sigaction")

Start ==
  \/ StartPrefs \/ StartPlatform \/ StartIo \/ StartPipe \/ StartWatch \/ StartDomain
  \/ StartControl \/ StartLibrary \/ StartFont \/ StartRenderer \/ StartSize
  \/ StartSymmenus \/ StartApp \/ StartPty \/ StartSigaction

-----------------------------------------------------------------------------
(***************************************************************************)
(* The loop: an event, a reload if one is pending, the deferred evals, the *)
(* paint                                                                   *)
(***************************************************************************)

resVars == <<held, flags, misused, ran>>

\* app_handle_event, or a wake with nothing to handle. Only what the event
\* does to the configuration and to the end of the program is told apart.
HandleEvent ==
  /\ pc = "event"
  /\ \/ pc' = "reload" /\ exiting' \in BOOLEAN /\ menuPtr' \in {0, cfg}
        /\ UNCHANGED <<entry, caller>>
     \/ pc' = "dispatch" /\ entry' \in {0, cfg} /\ caller' = "event"
        /\ UNCHANGED <<menuPtr, exiting>>
  /\ UNCHANGED <<resVars, cfgVars, fontVars, luaRun, back, fresh, pending>>

\* app_dispatch_action. A Lua function may dispatch in its turn.
ReloadingAtOnce == "load"       \* Faulty variant: not left to the loop
Reloading == "dispatched"
Dispatch ==
  /\ pc = "dispatch"
  /\ \/ pc' = "dispatched" /\ exiting' \in {exiting, TRUE} /\ menuPtr' \in {menuPtr, 0, cfg}
        /\ UNCHANGED <<luaRun, back, pending>>
     \/ pc' = Reloading /\ pending' = TRUE
        /\ UNCHANGED <<menuPtr, luaRun, back, exiting>>
     \/ pc' = "unfont" /\ back' = "dispatched"
        /\ UNCHANGED <<menuPtr, luaRun, pending, exiting>>
     \/ pc' = "dispatch" /\ luaRun' = luaRun \cup {luaGen}
        /\ UNCHANGED <<menuPtr, back, pending, exiting>>
  /\ UNCHANGED <<resVars, cfgVars, fontVars, entry, caller, fresh>>

DispatchMore ==
  /\ pc = "dispatched" /\ luaRun # {} /\ pc' = "dispatch"
  /\ UNCHANGED <<resVars, cfgVars, fontVars, ptrVars, loopVars>>

Resume(c) == CASE c = "event" -> "reload" [] c = "drain" -> "drain" [] c = "load" -> "loaded"

DispatchEnds ==
  /\ pc = "dispatched" /\ pc' = Resume(caller)
  /\ entry' = 0 /\ luaRun' = {} /\ caller' = "none"
  /\ UNCHANGED <<resVars, cfgVars, fontVars, menuPtr, back, loopVars>>

CheckReloadMenuShut ==          \* Faulty variant: not while a menu is open
  /\ pc = "reload"
  /\ IF pending /\ menuPtr = 0 THEN pc' = "load" /\ pending' = FALSE
     ELSE pc' = "drain" /\ UNCHANGED pending
  /\ UNCHANGED <<resVars, cfgVars, fontVars, ptrVars, fresh, exiting>>
CheckReload ==
  /\ pc = "reload"
  /\ pc' = (IF pending THEN "load" ELSE "drain") /\ pending' = FALSE
  /\ UNCHANGED <<resVars, cfgVars, fontVars, ptrVars, fresh, exiting>>

NextGen == 3 - cfg

\* prefs_lua_reload runs the file in a state of its own; what it dispatches
\* meets the configuration that is still in use.
Load ==
  /\ pc = "load" /\ caller' = "load"
  /\ \E f \in File :
       /\ fresh' = f
       /\ IF f.fault = "syntax" THEN pc' = "loaded" /\ UNCHANGED luaRun
          ELSE pc' \in {"dispatch", "loaded"} /\ luaRun' = {NextGen}
  /\ UNCHANGED <<resVars, cfgVars, fontVars, menuPtr, entry, back, pending, exiting>>

\* A file that fails is refused, and so is any when memory is short.
Rejected ==
  /\ pc = "loaded" /\ pc' = "drain"
  /\ fresh' = NoFile /\ luaRun' = {} /\ caller' = "none"
  /\ UNCHANGED <<resVars, cfgVars, fontVars, menuPtr, entry, back, pending, exiting>>

MayCommit(f) == f.fault = "none"
Commit ==
  /\ pc = "loaded" /\ MayCommit(fresh)
  /\ pc' = "reset"
  /\ luaGen' = NextGen /\ luaRun' = {} /\ caller' = "none"
  /\ UNCHANGED <<resVars, loaded, prefs, cfg, labels, fontVars, menuPtr, entry, back, loopVars>>

ResetPointers ==
  /\ pc = "reset" /\ pc' = "move"
  /\ menuPtr' = 0
  /\ UNCHANGED <<resVars, cfgVars, fontVars, entry, luaRun, caller, back, loopVars>>

\* destroy_preferences_members, and the new members moved in.
MovePrefs ==
  /\ pc = "move" /\ pc' = "decode"
  /\ cfg' = luaGen /\ loaded' = fresh /\ prefs' = Build(Globals(fresh))
  /\ fresh' = NoFile
  /\ UNCHANGED <<resVars, luaGen, labels, fontVars, ptrVars, pending, exiting>>

DecodeLabels ==
  /\ pc = "decode" /\ pc' = "unfont"
  /\ labels' = cfg /\ back' = "drain"
  /\ UNCHANGED <<resVars, loaded, prefs, cfg, luaGen, fontVars, menuPtr, entry, luaRun, caller,
                 loopVars>>

\* control_drain_deferred: any number of evals.
DrainEval ==
  /\ pc = "drain" /\ pc' = "dispatch"
  /\ luaRun' = {luaGen} /\ caller' = "drain"
  /\ UNCHANGED <<resVars, cfgVars, fontVars, menuPtr, entry, back, loopVars>>

DrainEnds ==
  /\ pc = "drain" /\ pc' = "paint"
  /\ UNCHANGED <<resVars, cfgVars, fontVars, ptrVars, loopVars>>

Paint ==
  /\ pc = "paint" /\ pc' = (IF exiting THEN ShutDown ELSE "event")
  /\ UNCHANGED <<resVars, cfgVars, fontVars, ptrVars, loopVars>>

(***************************************************************************)
(* rescreen                                                                *)
(***************************************************************************)

\* font_uninit, in the loop and at the end: the renderer lets go first.
FontUninit ==
  /\ rendererFont' = "null"
  /\ fontPtr' = (IF fontPtr = "null" THEN "null" ELSE "dangling")
  /\ misused' = (IF fontPtr = "dangling" THEN misused \cup {"font"} ELSE misused)

Unfont ==
  /\ pc = "unfont" /\ pc' = "refont"
  /\ FontUninit /\ held' = held \ {"font"}
  /\ UNCHANGED <<flags, ran, cfgVars, cache, ptrVars, loopVars>>

\* font_init: no font at all, one that does not render its indicators, or done.
FontRefused == UNCHANGED <<held, fontPtr, rendererFont>>   \* Faulty variant: refused before it is opened
FontMissing == fontPtr' = "null" /\ UNCHANGED <<held, rendererFont>>
Refont ==
  /\ pc = "refont" /\ pc' = "recache"
  /\ \/ FontMissing /\ exiting' = TRUE
     \/ fontPtr' = "live" /\ held' = held \cup {"font"} /\ exiting' = TRUE
        /\ UNCHANGED rendererFont
     \/ fontPtr' = "live" /\ held' = held \cup {"font"} /\ rendererFont' = "live"
        /\ UNCHANGED exiting
  /\ UNCHANGED <<flags, misused, ran, cfgVars, cache, ptrVars, fresh, pending>>

\* renderer_init_symmenus: the old menus go before the new ones are made.
Recache ==
  /\ pc = "recache" /\ pc' = "repaint"
  /\ \/ cache' = cache /\ exiting' = TRUE           \* no framebuffer size
        /\ UNCHANGED held
     \/ cache' = 0 /\ exiting' = TRUE /\ held' = held \ {"symmenus"}
     \/ prefs.menu # EmptyMenu /\ cache' = cfg /\ held' = held \cup {"symmenus"}
        /\ UNCHANGED exiting
  /\ UNCHANGED <<flags, misused, ran, cfgVars, fontPtr, rendererFont, ptrVars, fresh, pending>>

\* setup_screen_size and the two paints
Repaint ==
  /\ pc = "repaint" /\ pc' = back
  /\ back' = "drain"
  /\ UNCHANGED <<resVars, cfgVars, fontVars, menuPtr, entry, luaRun, caller, loopVars>>

Loop ==
  \/ HandleEvent \/ Dispatch \/ DispatchMore \/ DispatchEnds \/ CheckReload \/ Load \/ Rejected
  \/ Commit \/ ResetPointers \/ MovePrefs \/ DecodeLabels \/ DrainEval \/ DrainEnds \/ Paint
  \/ Unfont \/ Refont \/ Recache \/ Repaint

-----------------------------------------------------------------------------
(***************************************************************************)
(* app_shutdown: each step gives back what its flag says was set up        *)
(***************************************************************************)

Step(at, flag, frees, next) == [at |-> at, flag |-> flag, frees |-> frees, next |-> next]

TeardownPlatformFirst ==        \* Faulty variant: the channel before what is watched on it
  {Step(ShutDown, "app", {"masterWatch"}, "app_shutdown_state"),
   Step("app_shutdown_state", "app", {"session", "master"}, "renderer_destroy"),
   Step("renderer_destroy", "renderer", {"symmenus", "renderer"}, "font_uninit"),
   Step("font_uninit", "font", {"font"}, "font_library_quit"),
   Step("font_library_quit", "library", {"library"}, "platform_destroy"),
   Step("platform_destroy", "platform", {"window", "bps"}, "unwatch_pipe"),
   Step("unwatch_pipe", "pipe", {"pipeWatch"}, "control_shutdown"),
   Step("control_shutdown", "main", {"listen", "listenWatch"}, "close_pipe"),
   Step("close_pipe", "pipe", {"pipe"}, "prefs_lua_destroy"),
   Step("prefs_lua_destroy", "main", {"prefs", "lua"}, "io_uninit"),
   Step("io_uninit", "main", {"converters"}, "exited")}
Teardown ==
  {Step(ShutDown, "app", {"masterWatch"}, "app_shutdown_state"),
   Step("app_shutdown_state", "app", {"session", "master"}, "renderer_destroy"),
   Step("renderer_destroy", "renderer", {"symmenus", "renderer"}, "font_uninit"),
   Step("font_uninit", "font", {"font"}, "font_library_quit"),
   Step("font_library_quit", "library", {"library"}, "unwatch_pipe"),
   Step("unwatch_pipe", "pipe", {"pipeWatch"}, "control_shutdown"),
   Step("control_shutdown", "main", {"listen", "listenWatch"}, "platform_destroy"),
   Step("platform_destroy", "platform", {"window", "bps"}, "close_pipe"),
   Step("close_pipe", "pipe", {"pipe"}, "prefs_lua_destroy"),
   Step("prefs_lua_destroy", "main", {"prefs", "lua"}, "io_uninit"),
   Step("io_uninit", "main", {"converters"}, "exited")}

\* control_shutdown closes every slot that is not marked free, and before
\* control_init none is: fd 0.
GiveBack ==
  \E s \in Teardown :
    /\ pc = s.at /\ pc' = s.next
    /\ held' = IF s.flag \in flags THEN held \ s.frees ELSE held
    /\ IF s.at = "font_uninit" /\ s.flag \in flags THEN FontUninit
       ELSE /\ misused' = IF s.at = "control_shutdown" /\ "clients" \notin flags
                            THEN misused \cup {"stdin"} ELSE misused
            /\ rendererFont' = IF s.at = "renderer_destroy" THEN "null" ELSE rendererFont
            /\ UNCHANGED fontPtr
    /\ UNCHANGED <<flags, ran, cfgVars, cache, ptrVars, loopVars>>

Exited ==
  /\ pc = "exited"
  /\ UNCHANGED vars

-----------------------------------------------------------------------------

Init ==
  /\ pc = "prefs" /\ held = {} /\ flags = {"main"} /\ misused = {} /\ ran = FALSE
  /\ loaded = NoFile /\ fresh = NoFile /\ prefs = Defaults
  /\ cfg = 0 /\ luaGen = 0 /\ labels = 0
  /\ cache = 0 /\ fontPtr = "null" /\ rendererFont = "null"
  /\ menuPtr = 0 /\ entry = 0 /\ luaRun = {} /\ caller = "none" /\ back = "drain"
  /\ pending = FALSE /\ exiting = FALSE

Next == Start \/ Loop \/ GiveBack \/ Exited

Spec == Init /\ [][Next]_vars

(***************************************************************************)
(* The thread goes on: the pump returns at its timeout at the latest. That *)
(* scripts return, and that evals do not arrive for ever, is assumed.      *)
(***************************************************************************)
FairSpec == Spec /\ WF_vars(Next) /\ SF_vars(DispatchEnds) /\ SF_vars(DrainEnds)

-----------------------------------------------------------------------------
(***************************************************************************)
(* Properties                                                              *)
(***************************************************************************)

Gen == 0 .. 2

\* The type invariant.
TypeOK ==
  /\ held \subseteq Resource /\ misused \subseteq {"stdin"}
  /\ flags \subseteq {"main", "platform", "pipe", "clients", "library", "font", "renderer", "app"}
  /\ ran \in BOOLEAN /\ pending \in BOOLEAN /\ exiting \in BOOLEAN
  /\ loaded \in File \cup {NoFile} /\ fresh \in File \cup {NoFile}
  /\ {cfg, luaGen, labels, cache, menuPtr, entry} \subseteq Gen /\ luaRun \subseteq Gen
  /\ fontPtr \in {"null", "live", "dangling"} /\ rendererFont \in {"null", "live"}
  /\ caller \in {"none", "event", "drain", "load"} /\ back \in {"drain", "dispatched"}

\* A font that font_init left open without its flag: never closed, the
\* library goes under it.
LeftOpen == IF "font" \in flags THEN {} ELSE {"font"}

\* Wherever start-up stops and whatever the loop did, nothing is given back
\* while something that needs it is still held, nothing is given back twice,
\* and after a run nothing is left: app_shutdown's order and flags. What a
\* failed start-up may do, and does, is close fd 0 and leave a font open.
TeardownOrder ==
  /\ \A r \in held \ LeftOpen : Needs(r) \subseteq held
  /\ ran => misused = {}
  /\ pc = "exited" => \/ held \subseteq LeftOpen
                      \/ held = {"prefs", "lua"} /\ "platform" \notin flags
  /\ pc = "exited" /\ ran => held = {}

\* The loop's safe point: no pointer into a configuration that a reload has
\* freed is left to be followed, no Lua state is closed while it runs, and the
\* menus that are painted were drawn from the configuration in use.
PointersLive ==
  /\ {menuPtr, entry} \subseteq {0, cfg}
  /\ luaRun \subseteq {luaGen} \cup (IF fresh = NoFile THEN {} ELSE {NextGen})
  /\ rendererFont = "live" => fontPtr = "live"
  /\ pc \in {"event", "dispatch", "paint", "repaint"} => cache \in {0, cfg} \/ exiting
  /\ pc \in {"event", "dispatch", "recache", "paint", "repaint"} => labels = cfg

Moving == {"reset", "move"}

\* Except inside the reload, the preferences and the Lua functions come from
\* one file, whatever was loaded before it, and a reload takes none that fails.
\* A file without an error means what its tables say over the defaults, one
\* with a syntax error means the defaults; in any case a list, a colour and a
\* box have all their numbers. It leaves out two cases in which the code does not
\* do what the documents promise: what a file means that has a runtime error
\* (StartFallsBack, below), and the chords of one with `chord_bindings = {}`,
\* which is to disable the defaults (share/README:284, preferences.c:458) and
\* keeps them.
ConfigIsWhole ==
  /\ pc \notin Moving => cfg = luaGen
  /\ fresh # NoFile /\ pc \in Moving => fresh.fault = "none"
  /\ loaded # NoFile =>
       /\ DOMAIN prefs.color = DOMAIN DefaultColor /\ DOMAIN prefs.box = DOMAIN DefaultBox
       /\ Numbers(prefs.color) /\ Numbers(prefs.box) /\ Numbers(prefs.exempt)
  /\ loaded # NoFile /\ loaded.fault # "runtime" =>
       LET g == Globals(loaded)
       IN /\ Means(prefs.keys, DefaultKeys, g.keys)
          /\ g.chords # <<>> => Means(prefs.chords, DefaultChords, g.chords)
          /\ prefs.menu = Symmenu(g.menu)

\* Promised: a file that does not parse or run leaves the start-up with the
\* compiled defaults (share/README:79-82, preferences.c:1098-1101). The globals
\* that it had set before a runtime error stay, and are built from.
StartFallsBack ==
  loaded # NoFile /\ loaded.fault # "none" => prefs = Defaults

\* A reload that was asked for, from wherever it was asked, is taken up while
\* the program lives; a program told to end gets to its end.
AsksAreHeard == (pending ~> pc \in {"load", "exited"}) /\ (exiting ~> pc = "exited")
=============================================================================
