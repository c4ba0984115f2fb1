-------------------------- MODULE LifecycleProofs --------------------------
(***************************************************************************)
(* What holds of Lifecycle for every set of files and every default: the   *)
(* types, the order in which things are given back, and the pointers that  *)
(* a reload leaves alone.                                                  *)
(*                                                                         *)
(* The invariant says three things of every moment: what is in hand and    *)
(* which flag stands for it, which font is behind the two font pointers,   *)
(* and who runs what of which configuration. The start-up and app_shutdown *)
(* are numbered, so that "since" and "not yet" are comparisons.            *)
(***************************************************************************)
EXTENDS Lifecycle, WellFoundedInduction, TLAPS

AllFlags == {"main", "platform", "pipe", "clients", "library", "font", "renderer", "app"}

\* The start-up's calls by number, the loop behind the last of them.
Turn(p) ==
  CASE p = "prefs" -> 1 [] p = "platform" -> 2 [] p = "io" -> 3 [] p = "pipe" -> 4
    [] p = "watch" -> 5 [] p = "domain" -> 6 [] p = "control" -> 7 [] p = "library" -> 8
    [] p = "font" -> 9 [] p = "renderer" -> 10 [] p = "size" -> 11 [] p = "symmenus" -> 12
    [] p = "app" -> 13 [] p = "pty" -> 14 [] p = "sigaction" -> 15
    [] p \in {"event", "dispatch", "dispatched", "reload", "load", "loaded", "reset", "move",
              "decode", "unfont", "refont", "recache", "repaint", "drain", "paint"} -> 16
    [] OTHER -> 0

\* app_shutdown's calls by number, the end behind the last of them.
Place(p) ==
  CASE p = "unwatch_masters" -> 1 [] p = "app_shutdown_state" -> 2 [] p = "renderer_destroy" -> 3
    [] p = "font_uninit" -> 4 [] p = "font_library_quit" -> 5 [] p = "unwatch_pipe" -> 6
    [] p = "control_shutdown" -> 7 [] p = "platform_destroy" -> 8 [] p = "close_pipe" -> 9
    [] p = "prefs_lua_destroy" -> 10 [] p = "io_uninit" -> 11 [] p = "exited" -> 12
    [] OTHER -> 0

\* The call that gives a thing back, and the flag it asks first.
FreedAt(r) ==
  CASE r = "masterWatch" -> 1 [] r \in {"session", "master"} -> 2
    [] r \in {"symmenus", "renderer"} -> 3 [] r = "font" -> 4 [] r = "library" -> 5
    [] r = "pipeWatch" -> 6 [] r \in {"listen", "listenWatch"} -> 7
    [] r \in {"window", "bps"} -> 8 [] r = "pipe" -> 9 [] r \in {"prefs", "lua"} -> 10
    [] OTHER -> 11
FlagOf(r) ==
  CASE r \in {"masterWatch", "session", "master"} -> "app"
    [] r \in {"symmenus", "renderer"} -> "renderer" [] r = "font" -> "font"
    [] r = "library" -> "library" [] r \in {"pipeWatch", "pipe"} -> "pipe"
    [] r \in {"window", "bps"} -> "platform" [] OTHER -> "main"

\* From the n-th call on, these are in hand and these flags are set.
Since(n, got, flag) == Turn(pc) >= n => got \subseteq held /\ flag \subseteq flags

\* The two of TeardownOrder and app_shutdown's flags: what is needed is in
\* hand, and what is in hand has its flag set.
NeedsMet == \A r \in held \ LeftOpen : Needs(r) \subseteq held
FlagsStand == \A r \in held \ LeftOpen : FlagOf(r) \in flags

StartInv ==
  /\ "main" \in flags
  /\ pc = "prefs" => held = {} /\ flags = {"main"}
  /\ pc = "platform" => held = {"prefs", "lua"} /\ flags = {"main"}
  /\ Since(2, {"prefs"}, {})
  /\ Since(3, {"bps", "window"}, {"platform"})
  /\ Since(4, {"converters"}, {})
  /\ Since(5, {"pipe"}, {"pipe"})
  /\ Since(8, {}, {"clients"})
  /\ Since(9, {"library"}, {"library"})
  /\ Since(10, {}, {"font"})
  /\ Since(11, {"renderer"}, {"renderer"})
  /\ Since(14, {"session"}, {"app"})

HeldInv ==
  /\ NeedsMet /\ FlagsStand /\ StartInv
  /\ ran => AllFlags \subseteq flags
  /\ misused # {} => ~ran /\ Place(pc) > 0

\* What app_shutdown has passed is gone.
PassedInv ==
  /\ Place(pc) \in 1 .. 11 => \A r \in held \ LeftOpen : Place(pc) <= FreedAt(r)
  /\ pc = "exited" => held \subseteq LeftOpen \/ (held = {"prefs", "lua"} /\ flags = {"main"})

FontInv ==
  /\ fontPtr = "dangling" => pc = "refont" \/ Place(pc) > 4
  /\ rendererFont = "live" => fontPtr = "live"
  /\ pc = "refont" => rendererFont = "null"
  /\ pc = "renderer" => fontPtr = "live"

Rescreening == {"unfont", "refont", "recache", "repaint"}

\* Who runs the action: only while one is dispatched is there one to return to.
CallInv ==
  /\ pc \in {"dispatch", "dispatched"} => caller # "none"
  /\ caller # "none" => pc \in {"dispatch", "dispatched", "loaded"} \cup Rescreening
  /\ pc = "loaded" => caller \in {"load", "none"}
  /\ back = "dispatched" => pc \in Rescreening
  /\ pc \in Rescreening => (back = "dispatched" <=> caller # "none")
  /\ entry # 0 => caller = "event"
  /\ Turn(pc) \in 1 .. 15 => luaRun = {}
  /\ Turn(pc) \in 1 .. 15 \/ pc = "event" => ~exiting

ConfigInv ==
  /\ pc = "prefs" => cfg = 0 /\ labels = 0 /\ cache = 0
  /\ pc \notin {"prefs", "exited"} => cfg \in {1, 2}
  /\ pc \notin Moving => luaGen = cfg
  /\ pc \in Moving => luaGen = NextGen /\ luaRun = {} /\ MayCommit(fresh)
  /\ {menuPtr, entry} \subseteq {0, cfg}
  /\ pc = "move" => menuPtr = 0
  /\ luaRun \subseteq {luaGen} \cup (IF fresh = NoFile THEN {} ELSE {NextGen})
  /\ \/ cache \in {0, cfg} \/ exiting \/ pc = "decode"
     \/ pc \in {"unfont", "refont", "recache"} /\ back = "drain"
  /\ pc \notin {"platform", "io", "decode", "exited"} => labels = cfg

LifecycleInv == TypeOK /\ HeldInv /\ PassedInv /\ FontInv /\ CallInv /\ ConfigInv

-----------------------------------------------------------------------------
(***************************************************************************)
(* The numbers                                                             *)
(***************************************************************************)

LEMMA StartTurns ==
  /\ Turn("prefs") = 1 /\ Turn("platform") = 2 /\ Turn("io") = 3 /\ Turn("pipe") = 4
  /\ Turn("watch") = 5 /\ Turn("domain") = 6 /\ Turn("control") = 7 /\ Turn("library") = 8
  /\ Turn("font") = 9 /\ Turn("renderer") = 10 /\ Turn("size") = 11 /\ Turn("symmenus") = 12
  /\ Turn("app") = 13 /\ Turn("pty") = 14 /\ Turn("sigaction") = 15 /\ Turn("event") = 16
  /\ Turn("exited") = 0 /\ Turn("unwatch_masters") = 0
BY DEF Turn

LoopCalls == {"event", "dispatch", "dispatched", "reload", "load", "loaded", "reset", "move",
              "decode", "unfont", "refont", "recache", "repaint", "drain", "paint"}

LEMMA LoopTurns == \A p : p \in LoopCalls <=> Turn(p) = 16
BY DEF Turn, LoopCalls

LEMMA TurnRange == \A p : Turn(p) \in 0 .. 16
BY DEF Turn

LEMMA PlaceRange == \A p : Place(p) \in 0 .. 12
BY DEF Place

\* Start-up and loop are not app_shutdown.
LEMMA OneOfTheTwo == \A p : Turn(p) > 0 => Place(p) = 0
BY DEF Turn, Place

LEMMA TeardownPlaces ==
  \A s \in Teardown :
    /\ Turn(s.at) = 0 /\ Turn(s.next) = 0
    /\ Place(s.at) \in 1 .. 11 /\ Place(s.next) = Place(s.at) + 1
    /\ \A r \in Resource : r \in s.frees <=> FreedAt(r) = Place(s.at)
    /\ \A r \in s.frees : FlagOf(r) = s.flag
<1> SUFFICES ASSUME NEW s \in Teardown
             PROVE /\ Turn(s.at) = 0 /\ Turn(s.next) = 0
                   /\ Place(s.at) \in 1 .. 11 /\ Place(s.next) = Place(s.at) + 1
                   /\ \A r \in Resource : r \in s.frees <=> FreedAt(r) = Place(s.at)
                   /\ \A r \in s.frees : FlagOf(r) = s.flag
  OBVIOUS
<1>1. Turn(s.at) = 0 /\ Turn(s.next) = 0
  BY DEF Teardown, Step, Turn, ShutDown
<1>2. Place(s.at) \in 1 .. 11 /\ Place(s.next) = Place(s.at) + 1
  BY DEF Teardown, Step, Place, ShutDown
<1>3. \A r \in Resource : r \in s.frees <=> FreedAt(r) = Place(s.at)
  BY DEF Teardown, Step, Place, ShutDown, FreedAt, Resource
<1>4. \A r \in s.frees : FlagOf(r) = s.flag
  BY DEF Teardown, Step, FlagOf, ShutDown
<1> QED BY <1>1, <1>2, <1>3, <1>4

\* app_shutdown gives a thing back no earlier than what needs it.
LEMMA TeardownFits ==
  \A r \in Resource : /\ FreedAt(r) \in 1 .. 11 /\ Needs(r) \subseteq Resource
                      /\ \A n \in Needs(r) : FreedAt(r) <= FreedAt(n)
BY DEF Resource, FreedAt, Needs

-----------------------------------------------------------------------------
(***************************************************************************)
(* Start-up                                                                *)
(***************************************************************************)

\* Taking a thing when what it needs is there, and its flag, keeps both.
Fits(got, flag) ==
  /\ \A r \in got : Needs(r) \subseteq held \cup got
  /\ \A r \in got \ {"font"} : FlagOf(r) \in flags \cup flag
  /\ "font" \in flag => "font" \in got

LEMMA TakenInOrder ==
  ASSUME NEW from, NEW to, NEW got, NEW flag,
         Acquire(from, to, got, flag), Fits(got, flag), NeedsMet, FlagsStand
  PROVE  NeedsMet' /\ FlagsStand'
<1>1. held' = held \cup got /\ flags' = flags \cup flag
  BY DEF Acquire
<1>2. \A r \in held' \ LeftOpen' : r \in got \/ r \in held \ LeftOpen
  BY <1>1 DEF LeftOpen, Fits
<1>3. NeedsMet'
  BY <1>1, <1>2 DEF NeedsMet, Fits
<1>4. FlagsStand'
  <2> SUFFICES ASSUME NEW r \in held' \ LeftOpen' PROVE FlagOf(r) \in flags'
    BY DEF FlagsStand
  <2>1. CASE r = "font"
    BY <2>1 DEF LeftOpen, FlagOf
  <2>2. CASE r # "font"
    BY <2>2, <1>1, <1>2 DEF FlagsStand, Fits
  <2> QED BY <2>1, <2>2
<1> QED BY <1>3, <1>4

\* A step of the start-up goes to the next, to app_shutdown or to the end.
LEMMA StartStep ==
  ASSUME Start
  PROVE  /\ Turn(pc) \in 1 .. 15
         /\ Turn(pc') = Turn(pc) + 1 \/ pc' \in {ShutDown, "exited"}
         /\ pc' = "exited" => pc \in {"prefs", "platform"} /\ UNCHANGED <<held, flags>>
         /\ flags \subseteq flags'
         /\ ran' = ran \/ pc = "sigaction"
         /\ UNCHANGED <<misused, ptrVars, loopVars>>
<1> USE StartTurns DEF Acquire, Fail, ShutDown
<1>1. CASE StartPrefs BY <1>1 DEF StartPrefs
<1>2. CASE StartPlatform BY <1>2 DEF StartPlatform
<1>3. CASE StartIo BY <1>3 DEF StartIo
<1>4. CASE StartPipe BY <1>4 DEF StartPipe
<1>5. CASE StartWatch BY <1>5 DEF StartWatch
<1>6. CASE StartDomain BY <1>6 DEF StartDomain
<1>7. CASE StartControl BY <1>7 DEF StartControl
<1>8. CASE StartLibrary BY <1>8 DEF StartLibrary
<1>9. CASE StartFont BY <1>9 DEF StartFont
<1>10. CASE StartRenderer BY <1>10 DEF StartRenderer
<1>11. CASE StartSize BY <1>11 DEF StartSize
<1>12. CASE StartSymmenus BY <1>12 DEF StartSymmenus
<1>13. CASE StartApp BY <1>13 DEF StartApp
<1>14. CASE StartPty BY <1>14 DEF StartPty
<1>15. CASE StartSigaction BY <1>15 DEF StartSigaction
<1> QED BY <1>1, <1>2, <1>3, <1>4, <1>5, <1>6, <1>7, <1>8, <1>9, <1>10, <1>11, <1>12,
           <1>13, <1>14, <1>15 DEF Start

\* Each call of the start-up finds what its things need, and leaves what the
\* calls behind it count on.
LEMMA StartKeepsHeld ==
  ASSUME HeldInv, Start
  PROVE  NeedsMet' /\ FlagsStand' /\ StartInv'
<1>0. ASSUME NEW from, NEW to, NEW got, NEW flag, Acquire(from, to, got, flag), Fits(got, flag)
      PROVE  NeedsMet' /\ FlagsStand'
  BY <1>0, TakenInOrder DEF HeldInv
<1>f. ASSUME NEW from, Fail(from) \/ (pc' \in {ShutDown, "exited"} /\ UNCHANGED <<held, flags>>)
      PROVE  NeedsMet' /\ FlagsStand' /\ StartInv'
  BY <1>f, StartTurns, TurnRange
     DEF HeldInv, NeedsMet, FlagsStand, StartInv, Since, LeftOpen, Fail, ShutDown
<1>1. CASE StartPrefs
  <2>1. ASSUME Acquire("prefs", "platform", {"prefs", "lua"}, {}) PROVE NeedsMet' /\ FlagsStand' /\ StartInv'
    <3>1. Fits({"prefs", "lua"}, {})
      BY <2>1, StartTurns DEF Fits, Needs, FlagOf, HeldInv, StartInv, Since, Acquire
    <3>2. StartInv'
      BY <2>1, StartTurns DEF HeldInv, StartInv, Since, Acquire, ShutDown
    <3> QED BY <2>1, <3>1, <3>2, <1>0
  <2> QED BY <1>1, <2>1, <1>f DEF StartPrefs
<1>2. CASE StartPlatform
  <2>1. ASSUME Acquire("platform", "io", {"bps", "window"}, {"platform"}) PROVE NeedsMet' /\ FlagsStand' /\ StartInv'
    <3>1. Fits({"bps", "window"}, {"platform"})
      BY <2>1, StartTurns DEF Fits, Needs, FlagOf, HeldInv, StartInv, Since, Acquire
    <3>2. StartInv'
      BY <2>1, StartTurns DEF HeldInv, StartInv, Since, Acquire, ShutDown
    <3> QED BY <2>1, <3>1, <3>2, <1>0
  <2> QED BY <1>2, <2>1, <1>f DEF StartPlatform
<1>3. CASE StartIo
  <2>1. ASSUME Acquire("io", "pipe", {"converters"}, {}) PROVE NeedsMet' /\ FlagsStand' /\ StartInv'
    <3>1. Fits({"converters"}, {})
      BY <2>1, StartTurns DEF Fits, Needs, FlagOf, HeldInv, StartInv, Since, Acquire
    <3>2. StartInv'
      BY <2>1, StartTurns DEF HeldInv, StartInv, Since, Acquire, ShutDown
    <3> QED BY <2>1, <3>1, <3>2, <1>0
  <2> QED BY <1>3, <2>1 DEF StartIo
<1>4. CASE StartPipe
  <2>1. ASSUME Acquire("pipe", "watch", {"pipe"}, {"pipe"}) PROVE NeedsMet' /\ FlagsStand' /\ StartInv'
    <3>1. Fits({"pipe"}, {"pipe"})
      BY <2>1, StartTurns DEF Fits, Needs, FlagOf, HeldInv, StartInv, Since, Acquire
    <3>2. StartInv'
      BY <2>1, StartTurns DEF HeldInv, StartInv, Since, Acquire, ShutDown
    <3> QED BY <2>1, <3>1, <3>2, <1>0
  <2> QED BY <1>4, <2>1, <1>f DEF StartPipe
<1>5. CASE StartWatch
  <2>1. ASSUME Acquire("watch", "domain", {"pipeWatch"}, {}) PROVE NeedsMet' /\ FlagsStand' /\ StartInv'
    <3>1. Fits({"pipeWatch"}, {})
      BY <2>1, StartTurns DEF Fits, Needs, FlagOf, HeldInv, StartInv, Since, Acquire
    <3>2. StartInv'
      BY <2>1, StartTurns DEF HeldInv, StartInv, Since, Acquire, ShutDown
    <3> QED BY <2>1, <3>1, <3>2, <1>0
  <2> QED BY <1>5, <2>1, <1>f DEF StartWatch
<1>6. CASE StartDomain
  <2>1. ASSUME Acquire("domain", "control", {}, {}) PROVE NeedsMet' /\ FlagsStand' /\ StartInv'
    <3>1. Fits({}, {})
      BY <2>1, StartTurns DEF Fits, Needs, FlagOf, HeldInv, StartInv, Since, Acquire
    <3>2. StartInv'
      BY <2>1, StartTurns DEF HeldInv, StartInv, Since, Acquire, ShutDown
    <3> QED BY <2>1, <3>1, <3>2, <1>0
  <2> QED BY <1>6, <2>1, <1>f DEF StartDomain
<1>7. CASE StartControl
  <2>1. ASSUME NEW got \in {{}, {"listen", "listenWatch"}},
               Acquire("control", "library", got, {"clients"})
        PROVE  NeedsMet' /\ FlagsStand' /\ StartInv'
    <3>1. Fits(got, {"clients"})
      BY <2>1, StartTurns DEF Fits, Needs, FlagOf, HeldInv, StartInv, Since, Acquire
    <3>2. StartInv'
      BY <2>1, StartTurns DEF HeldInv, StartInv, Since, Acquire
    <3> QED BY <2>1, <3>1, <3>2, <1>0
  <2> QED BY <1>7, <2>1 DEF StartControl
<1>8. CASE StartLibrary
  <2>1. ASSUME Acquire("library", "font", {"library"}, {"library"}) PROVE NeedsMet' /\ FlagsStand' /\ StartInv'
    <3>1. Fits({"library"}, {"library"})
      BY <2>1, StartTurns DEF Fits, Needs, FlagOf, HeldInv, StartInv, Since, Acquire
    <3>2. StartInv'
      BY <2>1, StartTurns DEF HeldInv, StartInv, Since, Acquire, ShutDown
    <3> QED BY <2>1, <3>1, <3>2, <1>0
  <2> QED BY <1>8, <2>1, <1>f DEF StartLibrary
<1>9. CASE StartFont
  <2>1. ASSUME Acquire("font", "renderer", {"font"}, {"font"})
        PROVE  NeedsMet' /\ FlagsStand' /\ StartInv'
    <3>1. Fits({"font"}, {"font"})
      BY <2>1, StartTurns DEF Fits, Needs, HeldInv, StartInv, Since, Acquire
    <3>2. StartInv'
      BY <2>1, StartTurns DEF HeldInv, StartInv, Since, Acquire
    <3> QED BY <2>1, <3>1, <3>2, <1>0
  <2>2. ASSUME Acquire("font", ShutDown, {"font"}, {})
        PROVE  NeedsMet' /\ FlagsStand' /\ StartInv'
    <3>1. Fits({"font"}, {})
      BY <2>2, StartTurns DEF Fits, Needs, HeldInv, StartInv, Since, Acquire
    <3>2. StartInv'
      BY <2>2, StartTurns DEF HeldInv, StartInv, Since, Acquire, ShutDown
    <3> QED BY <2>2, <3>1, <3>2, <1>0
  <2> QED BY <1>9, <2>1, <2>2, <1>f DEF StartFont
<1>10. CASE StartRenderer
  <2>1. ASSUME Acquire("renderer", "size", {"renderer"}, {"renderer"}) PROVE NeedsMet' /\ FlagsStand' /\ StartInv'
    <3>1. Fits({"renderer"}, {"renderer"})
      BY <2>1, StartTurns DEF Fits, Needs, FlagOf, HeldInv, StartInv, Since, Acquire
    <3>2. StartInv'
      BY <2>1, StartTurns DEF HeldInv, StartInv, Since, Acquire, ShutDown
    <3> QED BY <2>1, <3>1, <3>2, <1>0
  <2> QED BY <1>10, <2>1, <1>f DEF StartRenderer
<1>11. CASE StartSize
  <2>1. ASSUME Acquire("size", "symmenus", {}, {}) PROVE NeedsMet' /\ FlagsStand' /\ StartInv'
    <3>1. Fits({}, {})
      BY <2>1, StartTurns DEF Fits, Needs, FlagOf, HeldInv, StartInv, Since, Acquire
    <3>2. StartInv'
      BY <2>1, StartTurns DEF HeldInv, StartInv, Since, Acquire, ShutDown
    <3> QED BY <2>1, <3>1, <3>2, <1>0
  <2> QED BY <1>11, <2>1, <1>f DEF StartSize
<1>12. CASE StartSymmenus
  <2>1. ASSUME Acquire("symmenus", "app", {"symmenus"}, {}) PROVE NeedsMet' /\ FlagsStand' /\ StartInv'
    <3>1. Fits({"symmenus"}, {})
      BY <2>1, StartTurns DEF Fits, Needs, FlagOf, HeldInv, StartInv, Since, Acquire
    <3>2. StartInv'
      BY <2>1, StartTurns DEF HeldInv, StartInv, Since, Acquire, ShutDown
    <3> QED BY <2>1, <3>1, <3>2, <1>0
  <2> QED BY <1>12, <2>1, <1>f DEF StartSymmenus
<1>13. CASE StartApp
  <2>1. ASSUME Acquire("app", "pty", {"session"}, {"app"}) PROVE NeedsMet' /\ FlagsStand' /\ StartInv'
    <3>1. Fits({"session"}, {"app"})
      BY <2>1, StartTurns DEF Fits, Needs, FlagOf, HeldInv, StartInv, Since, Acquire
    <3>2. StartInv'
      BY <2>1, StartTurns DEF HeldInv, StartInv, Since, Acquire, ShutDown
    <3> QED BY <2>1, <3>1, <3>2, <1>0
  <2> QED BY <1>13, <2>1, <1>f DEF StartApp
<1>14. CASE StartPty
  <2>1. ASSUME Acquire("pty", "sigaction", {"master", "masterWatch"}, {}) PROVE NeedsMet' /\ FlagsStand' /\ StartInv'
    <3>1. Fits({"master", "masterWatch"}, {})
      BY <2>1, StartTurns DEF Fits, Needs, FlagOf, HeldInv, StartInv, Since, Acquire
    <3>2. StartInv'
      BY <2>1, StartTurns DEF HeldInv, StartInv, Since, Acquire, ShutDown
    <3> QED BY <2>1, <3>1, <3>2, <1>0
  <2> QED BY <1>14, <2>1, <1>f DEF StartPty
<1>15. CASE StartSigaction
  <2>1. ASSUME Acquire("sigaction", "event", {}, {}) PROVE NeedsMet' /\ FlagsStand' /\ StartInv'
    <3>1. Fits({}, {})
      BY <2>1, StartTurns DEF Fits, Needs, FlagOf, HeldInv, StartInv, Since, Acquire
    <3>2. StartInv'
      BY <2>1, StartTurns DEF HeldInv, StartInv, Since, Acquire, ShutDown
    <3> QED BY <2>1, <3>1, <3>2, <1>0
  <2> QED BY <1>15, <2>1, <1>f DEF StartSigaction
<1> QED BY <1>1, <1>2, <1>3, <1>4, <1>5, <1>6, <1>7, <1>8, <1>9, <1>10, <1>11, <1>12,
           <1>13, <1>14, <1>15 DEF Start

LEMMA StartKeepsTypes ==
  ASSUME LifecycleInv, Start
  PROVE  TypeOK'
<1> DEFINE Flag == {"main", "platform", "pipe", "clients", "library", "font", "renderer", "app"}
<1>0. TypeOK /\ held \subseteq Resource /\ flags \subseteq Flag
  BY DEF LifecycleInv, TypeOK
<1>a. ASSUME NEW from, NEW to, NEW got \in SUBSET Resource, NEW flag \in SUBSET Flag,
             Acquire(from, to, got, flag)
      PROVE  /\ held' \subseteq Resource /\ flags' \subseteq Flag
             /\ UNCHANGED <<misused, ptrVars, loopVars>>
  BY <1>0, <1>a DEF Acquire
<1>b. ASSUME held' \subseteq Resource, flags' \subseteq Flag,
             UNCHANGED <<misused, ran, cfgVars, fontVars, ptrVars, loopVars>>
      PROVE  TypeOK'
  BY <1>0, <1>b DEF TypeOK, cfgVars, fontVars, ptrVars, loopVars
<1>c. ASSUME NEW from, NEW to, NEW got \in SUBSET Resource, NEW flag \in SUBSET Flag,
             Acquire(from, to, got, flag), UNCHANGED <<ran, cfgVars, fontVars>>
      PROVE  TypeOK'
  BY <1>a, <1>b, <1>c
<1>d. ASSUME NEW from, Fail(from) PROVE TypeOK'
  BY <1>0, <1>b, <1>d DEF Fail
<1>e. ASSUME UNCHANGED <<held, flags, misused, ran, cfgVars, fontVars, ptrVars, loopVars>>
      PROVE  TypeOK'
  BY <1>0, <1>b, <1>e
<1>1. CASE StartPrefs
  <2>1. ASSUME NEW f \in File, loaded' = f, Acquire("prefs", "platform", {"prefs", "lua"}, {}),
               cfg' = 1, luaGen' = 1, labels' = 0, UNCHANGED <<ran, fontVars>>
        PROVE  TypeOK'
    <3>1. {"prefs", "lua"} \subseteq Resource
      BY DEF Resource
    <3>2. held' \subseteq Resource /\ flags' \subseteq Flag /\ UNCHANGED <<misused, ptrVars, loopVars>>
      BY <1>a, <2>1, <3>1
    <3> QED BY <1>0, <2>1, <3>2 DEF TypeOK, fontVars, ptrVars, loopVars, Gen
  <2> QED BY <1>1, <1>e, <2>1 DEF StartPrefs
<1>2. CASE StartPlatform
  <2>1. {"bps", "window"} \in SUBSET Resource
    BY DEF Resource
  <2> QED BY <1>2, <1>c, <1>e, <2>1 DEF StartPlatform
<1>3. CASE StartIo
  <2>1. {"converters"} \subseteq Resource
    BY DEF Resource
  <2>2. held' \subseteq Resource /\ flags' \subseteq Flag /\ UNCHANGED <<misused, ptrVars, loopVars>>
    BY <1>a, <1>3, <2>1 DEF StartIo
  <2> QED BY <1>0, <1>3, <2>2 DEF StartIo, TypeOK, fontVars, ptrVars, loopVars
<1>4. CASE StartPipe
  <2>1. {"pipe"} \in SUBSET Resource
    BY DEF Resource
  <2> QED BY <1>4, <1>c, <1>d, <2>1 DEF StartPipe
<1>5. CASE StartWatch
  <2>1. {"pipeWatch"} \in SUBSET Resource
    BY DEF Resource
  <2> QED BY <1>5, <1>c, <1>d, <2>1 DEF StartWatch
<1>6. CASE StartDomain
  <2>1. {} \in SUBSET Resource
    BY DEF Resource
  <2> QED BY <1>6, <1>c, <1>d, <2>1 DEF StartDomain
<1>7. CASE StartControl
  <2>1. \A got \in {{}, {"listen", "listenWatch"}} : got \in SUBSET Resource
    BY DEF Resource
  <2> QED BY <1>7, <1>c, <2>1 DEF StartControl
<1>8. CASE StartLibrary
  <2>1. {"library"} \in SUBSET Resource
    BY DEF Resource
  <2> QED BY <1>8, <1>c, <1>d, <2>1 DEF StartLibrary
<1>9. CASE StartFont
  <2>1. {"font"} \subseteq Resource
    BY DEF Resource
  <2>2. ASSUME held' \subseteq Resource, flags' \subseteq Flag, fontPtr' = "live",
               UNCHANGED <<misused, ptrVars, loopVars>>, UNCHANGED <<ran, cfgVars, cache, rendererFont>>
        PROVE  TypeOK'
    BY <1>0, <2>2 DEF TypeOK, cfgVars, ptrVars, loopVars
  <2> QED BY <1>9, <1>a, <1>d, <2>1, <2>2 DEF StartFont
<1>10. CASE StartRenderer
  <2>1. pc = "renderer" /\ {"renderer"} \subseteq Resource
    BY <1>10 DEF StartRenderer, Acquire, Fail, Resource
  <2>2. ASSUME Acquire("renderer", "size", {"renderer"}, {"renderer"}), rendererFont' = fontPtr,
               UNCHANGED <<ran, cfgVars, cache, fontPtr>>
        PROVE  TypeOK'
    <3>1. held' \subseteq Resource /\ flags' \subseteq Flag /\ UNCHANGED <<misused, ptrVars, loopVars>>
      BY <1>a, <2>1, <2>2
    <3>2. fontPtr \in {"null", "live"}
      BY <2>1 DEF LifecycleInv, FontInv, TypeOK
    <3> QED BY <1>0, <2>2, <3>1, <3>2 DEF TypeOK, cfgVars, ptrVars, loopVars
  <2> QED BY <1>10, <1>d, <2>2 DEF StartRenderer
<1>11. CASE StartSize
  <2>1. {} \in SUBSET Resource
    BY DEF Resource
  <2> QED BY <1>11, <1>c, <1>d, <2>1 DEF StartSize
<1>12. CASE StartSymmenus
  <2>1. {"symmenus"} \subseteq Resource
    BY DEF Resource
  <2>2. ASSUME Acquire("symmenus", "app", {"symmenus"}, {}), cache' = cfg,
               UNCHANGED <<ran, cfgVars, fontPtr, rendererFont>>
        PROVE  TypeOK'
    <3>1. held' \subseteq Resource /\ flags' \subseteq Flag /\ UNCHANGED <<misused, ptrVars, loopVars>>
      BY <1>a, <2>1, <2>2
    <3> QED BY <1>0, <2>2, <3>1 DEF TypeOK, cfgVars, ptrVars, loopVars
  <2> QED BY <1>12, <1>d, <2>2 DEF StartSymmenus
<1>13. CASE StartApp
  <2>1. {"session"} \in SUBSET Resource
    BY DEF Resource
  <2> QED BY <1>13, <1>c, <1>d, <2>1 DEF StartApp
<1>14. CASE StartPty
  <2>1. {"master", "masterWatch"} \in SUBSET Resource
    BY DEF Resource
  <2> QED BY <1>14, <1>c, <1>d, <2>1 DEF StartPty
<1>15. CASE StartSigaction
  <2>1. ASSUME Acquire("sigaction", "event", {}, {}), ran' = TRUE, UNCHANGED <<cfgVars, fontVars>>
        PROVE  TypeOK'
    <3>1. held' \subseteq Resource /\ flags' \subseteq Flag /\ UNCHANGED <<misused, ptrVars, loopVars>>
      BY <1>0, <2>1 DEF Acquire
    <3> QED BY <1>0, <2>1, <3>1 DEF TypeOK, cfgVars, fontVars, ptrVars, loopVars
  <2> QED BY <1>15, <1>d, <2>1 DEF StartSigaction
<1> QED BY <1>1, <1>2, <1>3, <1>4, <1>5, <1>6, <1>7, <1>8, <1>9, <1>10, <1>11, <1>12,
           <1>13, <1>14, <1>15 DEF Start

LEMMA StartKeepsPassed ==
  ASSUME LifecycleInv, Start
  PROVE  HeldInv' /\ PassedInv'
<1>1. NeedsMet' /\ FlagsStand' /\ StartInv'
  BY StartKeepsHeld DEF LifecycleInv
<1>2. misused' = {}
  BY StartStep, OneOfTheTwo DEF LifecycleInv, HeldInv
<1>3. (ran => AllFlags \subseteq flags)'
  <2>1. CASE pc = "sigaction"
    BY <2>1, StartStep, StartTurns DEF LifecycleInv, HeldInv, StartInv, Since, AllFlags
  <2>2. CASE pc # "sigaction"
    BY <2>2, StartStep DEF LifecycleInv, HeldInv
  <2> QED BY <2>1, <2>2
<1>4. PassedInv'
  <2>1. CASE Turn(pc') = Turn(pc) + 1
    <3>1. Turn(pc') > 0 /\ Place(pc') = 0
      BY <2>1, StartStep, TurnRange, OneOfTheTwo
    <3> QED BY <3>1, StartTurns DEF PassedInv
  <2>2. CASE pc' = ShutDown
    <3>1. held' \subseteq Resource
      BY StartKeepsTypes DEF TypeOK
    <3>2. Place(pc') = 1
      BY <2>2 DEF ShutDown, Place
    <3> QED BY <2>2, <3>1, <3>2, TeardownFits DEF PassedInv, ShutDown
  <2>3. CASE pc' = "exited"
    <3>1. Place(pc') = 12
      BY <2>3 DEF Place
    <3>2. held' = {} \/ (held' = {"prefs", "lua"} /\ flags' = {"main"})
      BY <2>3, StartStep DEF LifecycleInv, HeldInv, StartInv
    <3> QED BY <3>1, <3>2 DEF PassedInv
  <2> QED BY <2>1, <2>2, <2>3, StartStep
<1> QED BY <1>1, <1>2, <1>3, <1>4 DEF HeldInv

\* What the start-up does to the configuration and to the font.
LEMMA StartSets ==
  ASSUME Start
  PROVE  /\ \/ cfg' = 1 /\ luaGen' = 1 /\ labels' = 0 /\ cache' = cache /\ pc = "prefs"
            \/ pc' = "exited" /\ UNCHANGED <<cfg, luaGen, labels, cache>>
            \/ /\ pc # "prefs" /\ UNCHANGED <<cfg, luaGen>>
               /\ \/ labels' = labels /\ pc \notin {"platform", "io"}
                  \/ labels' = labels /\ pc' = "io"
                  \/ labels' = cfg
               /\ cache' \in {cache, cfg}
         /\ \/ fontPtr' = fontPtr /\ rendererFont' \in {rendererFont, fontPtr} /\ pc' # "renderer"
            \/ fontPtr' = "live" /\ rendererFont' = rendererFont
         /\ pc = "prefs" => pc' \in {"platform", "exited"}
         /\ pc' \notin {"prefs", "dispatch", "dispatched", "loaded", "decode"} \cup Moving
                         \cup Rescreening
<1> USE DEF Acquire, Fail, ShutDown, cfgVars, fontVars, Moving, Rescreening
<1>1. CASE StartPrefs BY <1>1 DEF StartPrefs
<1>2. CASE StartPlatform BY <1>2 DEF StartPlatform
<1>3. CASE StartIo BY <1>3 DEF StartIo
<1>4. CASE StartPipe BY <1>4 DEF StartPipe
<1>5. CASE StartWatch BY <1>5 DEF StartWatch
<1>6. CASE StartDomain BY <1>6 DEF StartDomain
<1>7. CASE StartControl BY <1>7 DEF StartControl
<1>8. CASE StartLibrary BY <1>8 DEF StartLibrary
<1>9. CASE StartFont BY <1>9 DEF StartFont
<1>10. CASE StartRenderer BY <1>10 DEF StartRenderer
<1>11. CASE StartSize BY <1>11 DEF StartSize
<1>12. CASE StartSymmenus BY <1>12 DEF StartSymmenus
<1>13. CASE StartApp BY <1>13 DEF StartApp
<1>14. CASE StartPty BY <1>14 DEF StartPty
<1>15. CASE StartSigaction BY <1>15 DEF StartSigaction
<1> QED BY <1>1, <1>2, <1>3, <1>4, <1>5, <1>6, <1>7, <1>8, <1>9, <1>10, <1>11, <1>12,
           <1>13, <1>14, <1>15 DEF Start

\* Nothing runs an action yet.
LEMMA StartKeepsCalls ==
  ASSUME LifecycleInv, Start
  PROVE  CallInv'
<1>1. caller = "none" /\ entry = 0 /\ luaRun = {} /\ ~exiting /\ back # "dispatched"
  BY StartStep DEF LifecycleInv, CallInv, Turn, Rescreening, TypeOK
<1>2. pc' \notin {"dispatch", "dispatched", "loaded"} \cup Rescreening
  BY StartSets
<1> QED BY <1>1, <1>2, StartStep DEF CallInv, ptrVars, loopVars

LEMMA StartKeepsPointers ==
  ASSUME LifecycleInv, Start
  PROVE  FontInv' /\ ConfigInv'
<1>1. fontPtr # "dangling" /\ fontPtr \in {"null", "live"}
  BY StartStep, OneOfTheTwo, PlaceRange DEF LifecycleInv, FontInv, TypeOK, Turn
<1>2. FontInv'
  BY <1>1, StartSets DEF LifecycleInv, FontInv, Rescreening
<1>3. pc \notin Moving /\ pc \notin {"exited", "decode"} \cup Rescreening
  BY StartStep DEF Turn, Moving, Rescreening
<1>4. /\ menuPtr \in {0, cfg} /\ entry = 0 /\ luaRun = {} /\ ~exiting
      /\ \/ pc = "prefs" /\ cfg = 0 /\ menuPtr = 0 /\ cache = 0
         \/ pc # "prefs" /\ cfg \in {1, 2}
  <2>1. caller = "none" /\ luaRun = {} /\ ~exiting
    BY StartStep DEF LifecycleInv, CallInv, Turn, Rescreening
  <2>2. entry = 0
    BY <2>1 DEF LifecycleInv, CallInv
  <2>3. menuPtr \in {0, cfg}
    BY DEF LifecycleInv, ConfigInv
  <2>4. pc = "prefs" => cfg = 0 /\ cache = 0
    BY DEF LifecycleInv, ConfigInv
  <2>5. pc # "prefs" => cfg \in {1, 2}
    BY <1>3 DEF LifecycleInv, ConfigInv
  <2> QED BY <2>1, <2>2, <2>3, <2>4, <2>5
<1>5. cache \in {0, cfg}
  BY <1>3, <1>4 DEF LifecycleInv, ConfigInv, Rescreening
<1>6. luaGen' = cfg' /\ cache' \in {0, cfg'} /\ {menuPtr', entry'} \subseteq {0, cfg'} /\ luaRun' = {}
  <2>1. luaGen = cfg
    BY <1>3 DEF LifecycleInv, ConfigInv
  <2>2. menuPtr' = menuPtr /\ entry' = 0 /\ luaRun' = {}
    BY <1>4, StartStep DEF ptrVars
  <2>3. cfg' = cfg \/ (cfg = 0 /\ menuPtr = 0 /\ cache = 0)
    BY <1>4, StartSets
  <2> QED BY <1>4, <1>5, <2>1, <2>2, <2>3, StartSets
<1>7. pc' # "exited" => cfg' \in {1, 2}
  BY <1>4, StartSets
<1>8. pc' \notin {"platform", "io", "decode", "exited"} => labels' = cfg'
  BY <1>3, StartSets DEF LifecycleInv, ConfigInv
<1> QED BY <1>2, <1>6, <1>7, <1>8, StartSets DEF ConfigInv, Moving

-----------------------------------------------------------------------------
(***************************************************************************)
(* The loop                                                                *)
(***************************************************************************)

\* The loop takes and gives back nothing but the font and the menus.
LEMMA LoopStep ==
  ASSUME TypeOK, CallInv, FontInv, Loop
  PROVE  /\ pc \in LoopCalls /\ pc' \in LoopCalls \cup {ShutDown}
         /\ UNCHANGED <<flags, misused, ran>>
         /\ held' \ {"font", "symmenus"} = held \ {"font", "symmenus"}
         /\ held' \subseteq held \cup {"font", "symmenus"}
<1> USE DEF TypeOK, LoopCalls, ShutDown, resVars
<1>1. CASE HandleEvent BY <1>1 DEF HandleEvent
<1>2. CASE Dispatch BY <1>2 DEF Dispatch, Reloading
<1>3. CASE DispatchMore BY <1>3 DEF DispatchMore
<1>4. CASE DispatchEnds BY <1>4 DEF DispatchEnds, CallInv, Resume
<1>5. CASE CheckReload BY <1>5 DEF CheckReload, Reloading
<1>6. CASE Load BY <1>6 DEF Load
<1>7. CASE Rejected BY <1>7 DEF Rejected
<1>8. CASE Commit BY <1>8 DEF Commit
<1>9. CASE ResetPointers BY <1>9 DEF ResetPointers
<1>10. CASE MovePrefs BY <1>10 DEF MovePrefs
<1>11. CASE DecodeLabels BY <1>11 DEF DecodeLabels
<1>12. CASE DrainEval BY <1>12 DEF DrainEval
<1>13. CASE DrainEnds BY <1>13 DEF DrainEnds
<1>14. CASE Paint BY <1>14 DEF Paint
<1>15. CASE Unfont BY <1>15 DEF Unfont, FontUninit, FontInv, Place
<1>16. CASE Refont BY <1>16 DEF Refont, FontMissing
<1>17. CASE Recache BY <1>17 DEF Recache
<1>18. CASE Repaint BY <1>18 DEF Repaint
<1> QED BY <1>1, <1>2, <1>3, <1>4, <1>5, <1>6, <1>7, <1>8, <1>9, <1>10, <1>11, <1>12,
           <1>13, <1>14, <1>15, <1>16, <1>17, <1>18 DEF Loop

LEMMA NobodyNeedsThem == \A r \in Resource : Needs(r) \cap {"font", "symmenus"} = {}
BY DEF Resource, Needs

LEMMA LoopKeepsHeld ==
  ASSUME LifecycleInv, Loop
  PROVE  HeldInv' /\ PassedInv'
<1>1. /\ Turn(pc) = 16 /\ Place(pc) = 0
      /\ \/ Turn(pc') = 16 /\ Place(pc') = 0
         \/ Turn(pc') = 0 /\ pc' = ShutDown /\ Place(pc') = 1
  <2>1. pc \in LoopCalls /\ pc' \in LoopCalls \cup {ShutDown}
    BY LoopStep DEF LifecycleInv
  <2>2. Turn("unwatch_masters") = 0 /\ Place("unwatch_masters") = 1
    BY DEF Turn, Place
  <2>3. \A p \in LoopCalls : Turn(p) = 16 /\ Place(p) = 0
    BY LoopTurns, OneOfTheTwo
  <2>4. CASE pc' \in LoopCalls
    BY <2>1, <2>3, <2>4
  <2>5. CASE pc' = ShutDown
    BY <2>1, <2>2, <2>3, <2>5 DEF ShutDown
  <2> QED BY <2>1, <2>4, <2>5
<1>2. /\ UNCHANGED <<flags, misused, ran>> /\ held' \subseteq held \cup {"font", "symmenus"}
      /\ held' \ {"font", "symmenus"} = held \ {"font", "symmenus"}
  BY LoopStep DEF LifecycleInv
<1>3. /\ {"library", "renderer", "prefs"} \subseteq held /\ {"font", "renderer"} \subseteq flags
      /\ LeftOpen = {} /\ LeftOpen' = {}
  BY <1>1, <1>2 DEF LifecycleInv, HeldInv, StartInv, Since, LeftOpen
<1>4. NeedsMet'
  <2> SUFFICES ASSUME NEW r \in held' PROVE Needs(r) \subseteq held'
    BY DEF NeedsMet
  <2>1. CASE r = "font"
    BY <2>1, <1>2, <1>3 DEF Needs
  <2>2. CASE r = "symmenus"
    BY <2>2, <1>2, <1>3 DEF Needs
  <2>3. CASE r \notin {"font", "symmenus"}
    <3>1. r \in held /\ r \in Resource
      BY <2>3, <1>2 DEF LifecycleInv, TypeOK
    <3>2. Needs(r) \subseteq held
      BY <3>1, <1>3 DEF LifecycleInv, HeldInv, NeedsMet
    <3> QED BY <3>1, <3>2, <1>2, NobodyNeedsThem
  <2> QED BY <2>1, <2>2, <2>3
<1>5. FlagsStand'
  <2> SUFFICES ASSUME NEW r \in held' PROVE FlagOf(r) \in flags
    BY <1>2 DEF FlagsStand
  <2>1. CASE r \in {"font", "symmenus"}
    BY <2>1, <1>3 DEF FlagOf
  <2>2. CASE r \notin {"font", "symmenus"}
    BY <2>2, <1>2, <1>3 DEF LifecycleInv, HeldInv, FlagsStand
  <2> QED BY <2>1, <2>2
<1>6. StartInv'
  <2>1. pc' \notin {"prefs", "platform"}
    BY <1>1, StartTurns
  <2> QED BY <1>1, <1>2, <2>1 DEF LifecycleInv, HeldInv, StartInv, Since
<1>7. HeldInv'
  BY <1>1, <1>2, <1>4, <1>5, <1>6 DEF LifecycleInv, HeldInv
<1>8. PassedInv'
  <2>1. held' \subseteq Resource
    BY <1>2 DEF LifecycleInv, TypeOK, Resource
  <2>2. pc' # "exited"
    BY <1>1, StartTurns DEF ShutDown
  <2> QED BY <1>1, <2>1, <2>2, TeardownFits DEF PassedInv
<1> QED BY <1>7, <1>8

LEMMA LoopKeepsFont ==
  ASSUME LifecycleInv, Loop
  PROVE  FontInv'
<1>0. pc \in LoopCalls /\ pc # "renderer" /\ Place(pc) = 0 /\ pc' # "renderer"
  BY LoopStep, LoopTurns, OneOfTheTwo DEF LifecycleInv, LoopCalls, ShutDown
<1> USE <1>0 DEF LifecycleInv, FontInv, fontVars, Reloading
<1>1. CASE HandleEvent BY <1>1 DEF HandleEvent
<1>2. CASE Dispatch
  <2>1. UNCHANGED fontVars
    BY <1>2 DEF Dispatch
  <2>2. pc = "dispatch" /\ pc' \in {"dispatched", "unfont", "dispatch"}
    BY <1>2 DEF Dispatch
  <2> QED BY <2>1, <2>2
<1>3. CASE DispatchMore BY <1>3 DEF DispatchMore
<1>4. CASE DispatchEnds BY <1>4 DEF DispatchEnds, Resume, CallInv, TypeOK
<1>5. CASE CheckReload BY <1>5 DEF CheckReload
<1>6. CASE Load BY <1>6 DEF Load
<1>7. CASE Rejected BY <1>7 DEF Rejected
<1>8. CASE Commit BY <1>8 DEF Commit
<1>9. CASE ResetPointers BY <1>9 DEF ResetPointers
<1>10. CASE MovePrefs BY <1>10 DEF MovePrefs
<1>11. CASE DecodeLabels BY <1>11 DEF DecodeLabels
<1>12. CASE DrainEval BY <1>12 DEF DrainEval
<1>13. CASE DrainEnds BY <1>13 DEF DrainEnds
<1>14. CASE Paint BY <1>14 DEF Paint, ShutDown
<1>15. CASE Unfont BY <1>15 DEF Unfont, FontUninit, TypeOK
<1>16. CASE Refont BY <1>16 DEF Refont, FontMissing, TypeOK
<1>17. CASE Recache BY <1>17 DEF Recache
<1>18. CASE Repaint BY <1>18 DEF Repaint, TypeOK
<1> QED BY <1>1, <1>2, <1>3, <1>4, <1>5, <1>6, <1>7, <1>8, <1>9, <1>10, <1>11, <1>12,
           <1>13, <1>14, <1>15, <1>16, <1>17, <1>18 DEF Loop

LEMMA LoopKeepsTypes ==
  ASSUME LifecycleInv, Loop
  PROVE  TypeOK'
<1>a. cfg \in {1, 2}
  BY LoopStep DEF LifecycleInv, ConfigInv, LoopCalls
<1>b. held' \subseteq Resource /\ misused' \subseteq {"stdin"} /\ UNCHANGED <<flags, ran>>
  BY LoopStep DEF LifecycleInv, TypeOK, Resource
<1>c. {0, 1, 2, cfg, luaGen, labels, cache, menuPtr, entry, NextGen} \subseteq Gen
  BY <1>a DEF LifecycleInv, TypeOK, Gen, NextGen
<1> USE <1>a, <1>b, <1>c DEF LifecycleInv, TypeOK, cfgVars, fontVars, ptrVars, loopVars, resVars
<1>1. CASE HandleEvent BY <1>1 DEF HandleEvent
<1>2. CASE Dispatch
  <2>0. luaRun' \in {luaRun, luaRun \cup {luaGen}} /\ menuPtr' \in {menuPtr, 0, cfg}
    BY <1>2 DEF Dispatch
  <2>1. menuPtr' \in Gen /\ luaRun' \subseteq Gen
    BY <2>0
  <2>4. back' \in {"drain", "dispatched"}
    BY <1>2 DEF Dispatch
  <2>2. exiting' \in BOOLEAN /\ pending' \in BOOLEAN
    BY <1>2 DEF Dispatch
  <2>3. UNCHANGED <<cfgVars, fontVars, entry, caller, fresh>>
    BY <1>2 DEF Dispatch
  <2> QED BY <2>1, <2>2, <2>3, <2>4
<1>3. CASE DispatchMore BY <1>3 DEF DispatchMore
<1>4. CASE DispatchEnds BY <1>4 DEF DispatchEnds
<1>5. CASE CheckReload BY <1>5 DEF CheckReload
<1>6. CASE Load
  <2>1. fresh' \in File
    BY <1>6 DEF Load
  <2>2. luaRun' = luaRun \/ luaRun' = {NextGen}
    BY <1>6 DEF Load
  <2>3. /\ caller' = "load"
        /\ UNCHANGED <<cfgVars, fontVars, menuPtr, entry, back, pending, exiting>>
    BY <1>6 DEF Load
  <2> QED BY <2>1, <2>2, <2>3
<1>7. CASE Rejected BY <1>7 DEF Rejected
<1>8. CASE Commit BY <1>8 DEF Commit
<1>9. CASE ResetPointers BY <1>9 DEF ResetPointers
<1>10. CASE MovePrefs BY <1>10 DEF MovePrefs
<1>11. CASE DecodeLabels BY <1>11 DEF DecodeLabels
<1>12. CASE DrainEval BY <1>12 DEF DrainEval
<1>13. CASE DrainEnds BY <1>13 DEF DrainEnds
<1>14. CASE Paint BY <1>14 DEF Paint
<1>15. CASE Unfont BY <1>15 DEF Unfont, FontUninit
<1>16. CASE Refont BY <1>16 DEF Refont, FontMissing
<1>17. CASE Recache
  <2>1. cache' \in {cache, 0, cfg} /\ exiting' \in BOOLEAN
    BY <1>17 DEF Recache
  <2>3. cache' \in Gen
    BY <2>1
  <2>2. UNCHANGED <<cfgVars, fontPtr, rendererFont, ptrVars, fresh, pending>>
    BY <1>17 DEF Recache
  <2> QED BY <2>1, <2>2, <2>3
<1>18. CASE Repaint BY <1>18 DEF Repaint
<1> QED BY <1>1, <1>2, <1>3, <1>4, <1>5, <1>6, <1>7, <1>8, <1>9, <1>10, <1>11, <1>12,
           <1>13, <1>14, <1>15, <1>16, <1>17, <1>18 DEF Loop

LEMMA LoopKeepsCalls ==
  ASSUME LifecycleInv, Loop
  PROVE  CallInv'
<1>0. Turn(pc) = 16 /\ Turn(pc') \notin 1 .. 15
  BY LoopStep, LoopTurns, StartTurns DEF LifecycleInv, LoopCalls, ShutDown
<1> USE <1>0 DEF LifecycleInv, TypeOK, CallInv, ptrVars, loopVars, Rescreening, ShutDown, Reloading
<1>1. CASE HandleEvent BY <1>1 DEF HandleEvent
<1>2. CASE Dispatch BY <1>2 DEF Dispatch
<1>3. CASE DispatchMore BY <1>3 DEF DispatchMore
<1>4. CASE DispatchEnds BY <1>4 DEF DispatchEnds, Resume
<1>5. CASE CheckReload BY <1>5 DEF CheckReload
<1>6. CASE Load BY <1>6 DEF Load
<1>7. CASE Rejected BY <1>7 DEF Rejected
<1>8. CASE Commit BY <1>8 DEF Commit
<1>9. CASE ResetPointers BY <1>9 DEF ResetPointers
<1>10. CASE MovePrefs BY <1>10 DEF MovePrefs
<1>11. CASE DecodeLabels BY <1>11 DEF DecodeLabels
<1>12. CASE DrainEval BY <1>12 DEF DrainEval
<1>13. CASE DrainEnds BY <1>13 DEF DrainEnds
<1>14. CASE Paint BY <1>14 DEF Paint
<1>15. CASE Unfont BY <1>15 DEF Unfont
<1>16. CASE Refont BY <1>16 DEF Refont
<1>17. CASE Recache BY <1>17 DEF Recache
<1>18. CASE Repaint BY <1>18 DEF Repaint
<1> QED BY <1>1, <1>2, <1>3, <1>4, <1>5, <1>6, <1>7, <1>8, <1>9, <1>10, <1>11, <1>12,
           <1>13, <1>14, <1>15, <1>16, <1>17, <1>18 DEF Loop

LEMMA LoopKeepsConfig ==
  ASSUME LifecycleInv, Loop
  PROVE  ConfigInv'
<1>0. cfg \in {1, 2} /\ pc' \notin {"prefs", "platform", "io", "exited"}
  BY LoopStep DEF LifecycleInv, ConfigInv, LoopCalls, ShutDown
<1> USE <1>0 DEF LifecycleInv, TypeOK, CallInv, ConfigInv, Moving, cfgVars, fontVars, ptrVars, loopVars,
                 Rescreening, Reloading, ShutDown, NextGen, LifecycleAssumption
<1>1. CASE HandleEvent BY <1>1 DEF HandleEvent
<1>2. CASE Dispatch BY <1>2 DEF Dispatch
<1>3. CASE DispatchMore BY <1>3 DEF DispatchMore
<1>4. CASE DispatchEnds BY <1>4 DEF DispatchEnds, Resume
<1>5. CASE CheckReload BY <1>5 DEF CheckReload
<1>6. CASE Load
  <2>1. /\ pc = "load" /\ pc' \in {"dispatch", "loaded"}
        /\ UNCHANGED <<cfgVars, fontVars, menuPtr, entry, exiting>>
    BY <1>6 DEF Load
  <2>2. fresh' # NoFile
    BY <1>6, LifecycleAssumption DEF Load
  <2>3. luaRun' = {NextGen} \/ luaRun' = luaRun
    BY <1>6 DEF Load
  <2> QED BY <2>1, <2>2, <2>3
<1>7. CASE Rejected BY <1>7 DEF Rejected
<1>8. CASE Commit BY <1>8 DEF Commit
<1>9. CASE ResetPointers BY <1>9 DEF ResetPointers
<1>10. CASE MovePrefs BY <1>10 DEF MovePrefs
<1>11. CASE DecodeLabels BY <1>11 DEF DecodeLabels
<1>12. CASE DrainEval BY <1>12 DEF DrainEval
<1>13. CASE DrainEnds BY <1>13 DEF DrainEnds
<1>14. CASE Paint BY <1>14 DEF Paint
<1>15. CASE Unfont BY <1>15 DEF Unfont
<1>16. CASE Refont BY <1>16 DEF Refont
<1>17. CASE Recache BY <1>17 DEF Recache
<1>18. CASE Repaint BY <1>18 DEF Repaint
<1> QED BY <1>1, <1>2, <1>3, <1>4, <1>5, <1>6, <1>7, <1>8, <1>9, <1>10, <1>11, <1>12,
           <1>13, <1>14, <1>15, <1>16, <1>17, <1>18 DEF Loop

-----------------------------------------------------------------------------
(***************************************************************************)
(* app_shutdown                                                            *)
(***************************************************************************)

GivesBack(s) ==
  /\ pc = s.at /\ pc' = s.next
  /\ held' = IF s.flag \in flags THEN held \ s.frees ELSE held
  /\ UNCHANGED <<flags, ran, cfgVars, cache, ptrVars, loopVars>>

LEMMA TeardownStep ==
  ASSUME GiveBack
  PROVE  /\ \E s \in Teardown : GivesBack(s)
         /\ \/ FontUninit /\ pc = "font_uninit"
            \/ /\ misused' = misused \/ (misused' = misused \cup {"stdin"} /\ "clients" \notin flags)
               /\ UNCHANGED fontPtr /\ rendererFont' \in {rendererFont, "null"}
BY DEF GiveBack, GivesBack

LEMMA TeardownKeepsHeld ==
  ASSUME LifecycleInv, NEW s \in Teardown, GivesBack(s)
  PROVE  NeedsMet' /\ FlagsStand' /\ StartInv' /\ PassedInv'
<1>1. /\ Place(s.at) \in 1 .. 11 /\ Place(pc) = Place(s.at) /\ Place(pc') = Place(s.at) + 1
      /\ Turn(pc) = 0 /\ Turn(pc') = 0
      /\ \A r \in Resource : r \in s.frees <=> FreedAt(r) = Place(s.at)
      /\ \A r \in s.frees : FlagOf(r) = s.flag
  BY TeardownPlaces DEF GivesBack
<1>2. /\ held \subseteq Resource /\ held' \subseteq held /\ flags' = flags /\ LeftOpen' = LeftOpen
      /\ \A r \in held : r \in held' \/ r \in s.frees
  BY DEF GivesBack, LifecycleInv, TypeOK, LeftOpen
<1>3. ASSUME NEW r \in held' \ LeftOpen PROVE FreedAt(r) >= Place(s.at) + 1
  <2>1. r \in Resource /\ r \in held \ LeftOpen /\ FlagOf(r) \in flags
    BY <1>2, <1>3 DEF LifecycleInv, HeldInv, FlagsStand
  <2>2. Place(s.at) <= FreedAt(r) /\ FreedAt(r) \in 1 .. 11
    BY <1>1, <2>1, TeardownFits DEF LifecycleInv, PassedInv
  <2>3. r \notin s.frees
    BY <1>1, <1>3, <2>1 DEF GivesBack
  <2> QED BY <1>1, <2>1, <2>2, <2>3
<1>4. NeedsMet'
  <2> SUFFICES ASSUME NEW r \in held' \ LeftOpen, NEW n \in Needs(r) PROVE n \in held'
    BY <1>2 DEF NeedsMet
  <2>1. r \in Resource /\ n \in held /\ n \in Resource
    BY <1>2 DEF LifecycleInv, HeldInv, NeedsMet
  <2>2. FreedAt(r) <= FreedAt(n) /\ FreedAt(r) \in 1 .. 11 /\ FreedAt(n) \in 1 .. 11
    BY <2>1, TeardownFits
  <2>3. n \notin s.frees
    BY <1>1, <1>3, <2>1, <2>2
  <2> QED BY <1>2, <2>1, <2>3
<1>5. FlagsStand'
  BY <1>2 DEF LifecycleInv, HeldInv, FlagsStand
<1>6. StartInv'
  <2>1. pc' \notin {"prefs", "platform"}
    BY <1>1, StartTurns
  <2> QED BY <1>1, <1>2, <2>1 DEF LifecycleInv, HeldInv, StartInv, Since
<1>7. PassedInv'
  <2>1. pc' = "exited" => held' \subseteq LeftOpen
    <3> SUFFICES ASSUME pc' = "exited", NEW r \in held' \ LeftOpen PROVE FALSE
      OBVIOUS
    <3>1. Place(pc') = 12
      BY DEF Place
    <3>2. FreedAt(r) \in 1 .. 11
      BY <1>2, TeardownFits
    <3> QED BY <1>1, <1>3, <3>1, <3>2
  <2> QED BY <1>1, <1>2, <1>3, <2>1 DEF PassedInv
<1> QED BY <1>4, <1>5, <1>6, <1>7

LEMMA TeardownKeepsFont ==
  ASSUME LifecycleInv, GiveBack
  PROVE  /\ FontInv' /\ misused' \subseteq {"stdin"}
         /\ fontPtr' \in {"null", "live", "dangling"} /\ rendererFont' \in {"null", "live"}
<1>1. PICK s \in Teardown : GivesBack(s)
  BY TeardownStep
<1>2. /\ Place(pc) \in 1 .. 11 /\ Place(pc') = Place(pc) + 1
      /\ Turn(pc) = 0 /\ Turn(pc') = 0
  BY <1>1, TeardownPlaces DEF GivesBack
<1>3. pc \notin {"refont", "renderer"} /\ pc' \notin {"refont", "renderer"}
  BY <1>2, StartTurns, LoopTurns DEF LoopCalls
<1>4. CASE FontUninit /\ pc = "font_uninit"
  <2>1. Place(pc) = 4
    BY <1>4 DEF Place
  <2> QED BY <1>2, <1>3, <1>4, <2>1 DEF FontUninit, LifecycleInv, FontInv, TypeOK
<1>5. CASE UNCHANGED fontPtr /\ rendererFont' \in {rendererFont, "null"}
  <2>1. FontInv'
    BY <1>2, <1>3, <1>5 DEF LifecycleInv, FontInv, TypeOK
  <2>2. misused' \subseteq {"stdin"}
    BY <1>2, <1>3, TeardownStep DEF FontUninit, LifecycleInv, FontInv, TypeOK, Place
  <2> QED BY <1>5, <2>1, <2>2 DEF LifecycleInv, TypeOK
<1> QED BY <1>4, <1>5, TeardownStep

LEMMA TeardownKeeps ==
  ASSUME LifecycleInv, GiveBack
  PROVE  LifecycleInv'
<1>1. PICK s \in Teardown : GivesBack(s)
  BY TeardownStep
<1>2. /\ Place(pc) \in 1 .. 11 /\ Place(pc') = Place(pc) + 1
      /\ Turn(pc) = 0 /\ Turn(pc') = 0
  BY <1>1, TeardownPlaces DEF GivesBack
<1>3. /\ pc \notin {"prefs", "platform", "io", "exited"} \cup LoopCalls
      /\ pc' \notin {"prefs", "platform", "io"} \cup LoopCalls
  <2>1. Place("exited") = 12 /\ Turn("io") = 3
    BY DEF Place, Turn
  <2> QED BY <1>2, <2>1, StartTurns, LoopTurns
<1>4. /\ NeedsMet' /\ FlagsStand' /\ StartInv' /\ PassedInv'
      /\ UNCHANGED <<flags, ran, cfgVars, cache, ptrVars, loopVars>> /\ held' \subseteq held
  BY <1>1, TeardownKeepsHeld DEF GivesBack
<1>5. TypeOK'
  BY <1>4, TeardownKeepsFont DEF LifecycleInv, TypeOK, cfgVars, ptrVars, loopVars
<1>6. HeldInv'
  <2>1. misused' # {} => ~ran
    BY <1>2, TeardownStep DEF LifecycleInv, HeldInv, AllFlags, FontUninit, FontInv, Place
  <2> QED BY <1>2, <1>4, <2>1 DEF HeldInv, LifecycleInv
<1>7. CallInv'
  <2>1. caller = "none" /\ back # "dispatched"
    BY <1>3 DEF LifecycleInv, CallInv, LoopCalls, Rescreening
  <2> QED BY <1>2, <1>3, <1>4, <2>1
          DEF LifecycleInv, CallInv, LoopCalls, Rescreening, ptrVars, loopVars
<1>8. ConfigInv'
  BY <1>3, <1>4 DEF LifecycleInv, ConfigInv, LoopCalls, Moving, NextGen, cfgVars, ptrVars, loopVars
<1> QED BY <1>4, <1>5, <1>6, <1>7, <1>8, TeardownKeepsFont DEF LifecycleInv

-----------------------------------------------------------------------------
(***************************************************************************)
(* The theorems                                                            *)
(***************************************************************************)

LEMMA InitLifecycle == Init => LifecycleInv
<1> SUFFICES ASSUME Init PROVE LifecycleInv
  OBVIOUS
<1>1. Turn(pc) = 1 /\ Place(pc) = 0
  BY DEF Init, Turn, Place
<1>2. TypeOK
  <2>1. {cfg, luaGen, labels, cache, menuPtr, entry} = {0} /\ luaRun = {}
    BY DEF Init
  <2>2. {cfg, luaGen, labels, cache, menuPtr, entry} \subseteq Gen /\ luaRun \subseteq Gen
    BY <2>1 DEF Gen
  <2> QED BY <2>2 DEF Init, TypeOK
<1>3. HeldInv /\ PassedInv
  BY <1>1 DEF Init, HeldInv, NeedsMet, FlagsStand, StartInv, Since, PassedInv
<1>4. FontInv /\ CallInv /\ ConfigInv
  BY <1>1 DEF Init, FontInv, CallInv, ConfigInv, Rescreening, Moving
<1> QED BY <1>2, <1>3, <1>4 DEF LifecycleInv

LEMMA NextLifecycle == LifecycleInv /\ [Next]_vars => LifecycleInv'
<1> SUFFICES ASSUME LifecycleInv, [Next]_vars PROVE LifecycleInv'
  OBVIOUS
<1>1. CASE Start
  BY <1>1, StartKeepsTypes, StartKeepsPassed, StartKeepsCalls, StartKeepsPointers
     DEF LifecycleInv
<1>2. CASE Loop
  BY <1>2, LoopKeepsTypes, LoopKeepsHeld, LoopKeepsFont, LoopKeepsCalls, LoopKeepsConfig
     DEF LifecycleInv
<1>3. CASE GiveBack
  BY <1>3, TeardownKeeps
<1>4. CASE UNCHANGED vars
  BY <1>4 DEF vars, cfgVars, fontVars, ptrVars, loopVars, LifecycleInv, TypeOK, HeldInv, NeedsMet,
     FlagsStand, LeftOpen, StartInv, Since, PassedInv, FontInv, CallInv, ConfigInv, NextGen
<1> QED BY <1>1, <1>2, <1>3, <1>4 DEF Next, Exited

\* The invariant holds of every start-up, loop and shutdown.
THEOREM LifecycleHolds == Spec => []LifecycleInv
BY InitLifecycle, NextLifecycle, PTL DEF Spec

\* Every variable of the program's life keeps its type: in particular a pointer
\* into a configuration is one of the two configurations', or NULL.
THEOREM TypeCorrect == Spec => []TypeOK
<1>1. LifecycleInv => TypeOK
  BY DEF LifecycleInv
<1> QED BY LifecycleHolds, <1>1, PTL

\* app_shutdown gives back in order, once and everything, wherever start-up
\* stopped and whatever the loop did.
THEOREM TeardownInOrder == Spec => []TeardownOrder
<1>1. LifecycleInv => TeardownOrder
  <2> SUFFICES ASSUME LifecycleInv PROVE TeardownOrder
    OBVIOUS
  <2>1. \A r \in held \ LeftOpen : Needs(r) \subseteq held
    BY DEF LifecycleInv, HeldInv, NeedsMet
  <2>2. ran => misused = {} /\ AllFlags \subseteq flags
    BY DEF LifecycleInv, HeldInv
  <2>3. pc = "exited" => \/ held \subseteq LeftOpen
                         \/ held = {"prefs", "lua"} /\ flags = {"main"}
    BY DEF LifecycleInv, PassedInv
  <2>4. pc = "exited" /\ ran => held = {}
    BY <2>2, <2>3 DEF AllFlags, LeftOpen
  <2> QED BY <2>1, <2>2, <2>3, <2>4 DEF TeardownOrder
<1> QED BY LifecycleHolds, <1>1, PTL

\* The reload is at a safe point: nothing is left that leads into what it frees.
THEOREM PointersStayLive == Spec => []PointersLive
<1>1. LifecycleInv => PointersLive
  BY DEF LifecycleInv, ConfigInv, FontInv, PointersLive
<1> QED BY LifecycleHolds, <1>1, PTL

-----------------------------------------------------------------------------
(***************************************************************************)
(* Merging                                                                 *)
(***************************************************************************)

LEMMA LeastExists ==
  ASSUME NEW S \in SUBSET Nat, S # {}
  PROVE  \E m \in S : \A n \in S : m <= n
<1> DEFINE R == {ss \in Nat \X Nat : ss[1] < ss[2]}
<1>1. IsWellFoundedOn(R, Nat)
  BY NatLessThanWellFounded DEF OpToRel
<1>2. \E m \in S : \A n \in S : ~(<<n, m>> \in R)
  <2> HIDE DEF R
  <2> QED
    BY <1>1, WFMin
<1>3. PICK m \in S : \A n \in S : ~(<<n, m>> \in R)
  BY <1>2
<1>4. ASSUME NEW n \in S PROVE m <= n
  <2>1. m \in Nat /\ n \in Nat /\ <<n, m>> \in Nat \X Nat
    OBVIOUS
  <2>2. ~(n < m)
    BY <1>3, <2>1
  <2> QED
    BY <2>1, <2>2
<1> QED
  BY <1>4

LEMMA GreatestOfRange ==
  ASSUME NEW n \in Nat, NEW s \in SUBSET (1 .. n), n \in s
  PROVE  Max(s) = n
<1>1. \A y \in s : n >= y
  OBVIOUS
<1>2. \A x \in s : (\A y \in s : x >= y) => x = n
  OBVIOUS
<1>3. (CHOOSE x \in s : \A y \in s : x >= y) = n
  BY <1>1, <1>2
<1> QED BY <1>3 DEF Max

\* it[s] is def with the entries of the table at the places of s merged in.
Merges(it, def, table, n) ==
  \A s \in SUBSET (1 .. n) :
    it[s] = IF s = {} THEN def ELSE ApplyEntry(it[s \ {Max(s)}], table[Max(s)])

LEMMA MergeGoesOn ==
  ASSUME NEW def, NEW table, NEW n \in Nat, NEW it, Merges(it, def, table, n)
  PROVE  \E more : more = [s \in SUBSET (1 .. n + 1) |-> more[s]] /\ Merges(more, def, table, n + 1)
<1> DEFINE more == [s \in SUBSET (1 .. n + 1) |->
                      IF n + 1 \in s THEN ApplyEntry(it[s \ {n + 1}], table[n + 1]) ELSE it[s]]
<1>1. ASSUME NEW s \in SUBSET (1 .. n + 1)
      PROVE  more[s] = IF s = {} THEN def ELSE ApplyEntry(more[s \ {Max(s)}], table[Max(s)])
  <2>1. CASE n + 1 \in s
    <3>1. Max(s) = n + 1
      BY <2>1, GreatestOfRange
    <3>2. s \ {n + 1} \in SUBSET (1 .. n + 1) /\ n + 1 \notin s \ {n + 1}
      OBVIOUS
    <3>3. more[s \ {n + 1}] = it[s \ {n + 1}]
      BY <3>2
    <3>4. more[s] = ApplyEntry(it[s \ {n + 1}], table[n + 1])
      BY <2>1
    <3> HIDE DEF more
    <3> QED BY <2>1, <3>1, <3>3, <3>4
  <2>2. CASE n + 1 \notin s
    <3>0. \A x \in s : x \in 1 .. n
      BY <2>2
    <3>1. s \in SUBSET (1 .. n) /\ s \ {Max(s)} \in SUBSET (1 .. n + 1) /\ n + 1 \notin s \ {Max(s)}
      BY <2>2, <3>0
    <3>2. more[s] = it[s] /\ more[s \ {Max(s)}] = it[s \ {Max(s)}]
      BY <2>2, <3>1
    <3>3. it[s] = IF s = {} THEN def ELSE ApplyEntry(it[s \ {Max(s)}], table[Max(s)])
      BY <3>1 DEF Merges
    <3> HIDE DEF more
    <3> QED BY <3>2, <3>3
  <2> QED BY <2>1, <2>2
<1>2. more = [s \in SUBSET (1 .. n + 1) |-> more[s]]
  OBVIOUS
<1> HIDE DEF more
<1> QED BY <1>1, <1>2 DEF Merges

LEMMA MergeExists ==
  ASSUME NEW def, NEW table, NEW n \in Nat
  PROVE  \E it : it = [s \in SUBSET (1 .. n) |-> it[s]] /\ Merges(it, def, table, n)
<1> DEFINE Has(k) == \E it : it = [s \in SUBSET (1 .. k) |-> it[s]] /\ Merges(it, def, table, k)
           Missing == {k \in Nat : ~Has(k)}
<1>1. Has(0)
  <2> DEFINE it == [s \in SUBSET (1 .. 0) |-> def]
  <2>1. Merges(it, def, table, 0)
    BY DEF Merges
  <2> QED BY <2>1
<1>2. ASSUME NEW k \in Nat, Has(k) PROVE Has(k + 1)
  BY <1>2, MergeGoesOn
<1>3. ASSUME Missing # {} PROVE FALSE
  <2>1. PICK m \in Missing : \A k \in Missing : m <= k
    <3> HIDE DEF Has
    <3> QED BY <1>3, LeastExists
  <2>2. m \in Nat /\ ~Has(m) /\ m # 0
    BY <1>1
  <2>3. m - 1 \in Nat /\ Has(m - 1)
    <3> HIDE DEF Has
    <3>1. m - 1 \in Nat /\ m - 1 \notin Missing
      BY <2>1, <2>2
    <3> QED BY <3>1
  <2>4. Has((m - 1) + 1)
    BY <1>2, <2>3
  <2>5. (m - 1) + 1 = m
    BY <2>2
  <2> HIDE DEF Has
  <2> QED BY <2>2, <2>4, <2>5
<1> QED BY <1>3

LEMMA MergeUnfolds ==
  ASSUME NEW def, NEW table, NEW n \in Nat, DOMAIN table = 1 .. n
  PROVE  \E it : Merges(it, def, table, n) /\ FoldLeft(ApplyEntry, def, table) = it[1 .. n]
<1> DEFINE Def(it, s) ==
             IF s = {} THEN def ELSE ApplyEntry(it[s \ {Max(s)}], table[Max(s)])
           iter == CHOOSE it : it = [s \in SUBSET (1 .. n) |-> IF s = {} THEN def ELSE ApplyEntry(it[s \ {Max(s)}], table[Max(s)])]
<1>1. FoldLeft(ApplyEntry, def, table) = iter[1 .. n]
  BY DEF FoldLeft, MapThenFoldSet
<1>2. PICK it : it = [s \in SUBSET (1 .. n) |-> it[s]] /\ Merges(it, def, table, n)
  BY MergeExists
<1>3. it = [s \in SUBSET (1 .. n) |-> IF s = {} THEN def ELSE ApplyEntry(it[s \ {Max(s)}], table[Max(s)])]
  BY <1>2, Zenon DEF Merges
<1>4. iter = [s \in SUBSET (1 .. n) |-> IF s = {} THEN def ELSE ApplyEntry(iter[s \ {Max(s)}], table[Max(s)])]
  BY <1>3
<1> QED BY <1>1, <1>4 DEF Merges

\* What a table without a second entry for anything binds: the same as Bound.
Binds(t, from, to) ==
  \/ \E i \in DOMAIN t : t[i].from = from /\ t[i].to = to
  \/ to = Unbind /\ \A i \in DOMAIN t : t[i].from # from

LEMMA TablePlaces ==
  ASSUME NEW t, IsTable(t)
  PROVE  Len(t) \in Nat /\ DOMAIN t = 1 .. Len(t)
BY DEF IsTable

LEMMA JoinedLen ==
  ASSUME NEW S, NEW q \in Seq(S), NEW r \in Seq(S)
  PROVE  q \o r \in Seq(S) /\ Len(q \o r) = Len(q) + Len(r)
OBVIOUS

LEMMA TableByPlaces ==
  ASSUME NEW t, NEW n \in Nat, DOMAIN t = 1 .. n, t = [i \in DOMAIN t |-> t[i]]
  PROVE  IsTable(t)
<1> DEFINE S == {t[i] : i \in DOMAIN t}
<1>1. \A i \in 1 .. n : t[i] \in S
  OBVIOUS
<1> HIDE DEF S
<1>2. t \in [1 .. n -> S]
  BY <1>1
<1>3. t \in Seq(S)
  BY <1>2
<1> QED BY <1>3 DEF IsTable, S

LEMMA SeqIsTable ==
  ASSUME NEW S, NEW q \in Seq(S)
  PROVE  IsTable(q) /\ Len(q) \in Nat /\ DOMAIN q = 1 .. Len(q)
<1>1. Len(q) \in Nat /\ DOMAIN q = 1 .. Len(q) /\ q = [i \in DOMAIN q |-> q[i]]
  OBVIOUS
<1> QED BY <1>1, TableByPlaces

LEMMA OnlyPlace ==
  ASSUME NEW t, NEW from, NEW i \in Int, Places(t, from) = {i}
  PROVE  FirstPlace(t, from) = i
<1>1. \A j \in {i} : i <= j
  OBVIOUS
<1>2. \A k \in {i} : k = i
  OBVIOUS
<1> QED BY <1>1, <1>2 DEF FirstPlace

LEMMA BoundBinds ==
  ASSUME NEW t, IsTable(t), Distinct(t), NEW from, NEW to, Binds(t, from, to)
  PROVE  Bound(t, from) = to
<1>1. CASE \E i \in DOMAIN t : t[i].from = from /\ t[i].to = to
  <2>1. PICK i \in DOMAIN t : t[i].from = from /\ t[i].to = to
    BY <1>1
  <2>2. Places(t, from) = {i}
    BY <2>1 DEF Places, Distinct
  <2>3. FirstPlace(t, from) = i
    BY <2>2, OnlyPlace, TablePlaces
  <2>4. Places(t, from) # {}
    BY <2>2
  <2> QED BY <2>1, <2>3, <2>4 DEF Bound
<1>2. CASE to = Unbind /\ \A i \in DOMAIN t : t[i].from # from
  <2>1. Places(t, from) = {}
    BY <1>2 DEF Places
  <2> QED BY <1>2, <2>1 DEF Bound
<1> QED BY <1>1, <1>2 DEF Binds

\* An entry is overridden where it is.
LEMMA OverridesInPlace ==
  ASSUME NEW t, IsTable(t), Distinct(t), NEW e, NEW p \in DOMAIN t, t[p].from = e.from,
         NEW new, new = [t EXCEPT ![p] = e]
  PROVE  /\ IsTable(new) /\ Distinct(new) /\ Binds(new, e.from, e.to)
         /\ \A f, to : f # e.from /\ Binds(t, f, to) => Binds(new, f, to)
<1>1. DOMAIN new = DOMAIN t /\ new[p] = e /\ \A i \in DOMAIN t \ {p} : new[i] = t[i]
  OBVIOUS
<1>2. IsTable(new)
  <2>1. Len(t) \in Nat /\ DOMAIN t = 1 .. Len(t)
    BY TablePlaces
  <2> QED BY <1>1, <2>1, TableByPlaces
<1>3. Distinct(new)
  BY <1>1 DEF Distinct
<1>4. Binds(new, e.from, e.to)
  BY <1>1 DEF Binds
<1>5. ASSUME NEW f, NEW to, f # e.from, Binds(t, f, to) PROVE Binds(new, f, to)
  BY <1>1, <1>5 DEF Binds
<1> QED BY <1>2, <1>3, <1>4, <1>5

\* A new one comes last.
LEMMA AppendsAtEnd ==
  ASSUME NEW t, IsTable(t), Distinct(t), NEW e, \A i \in DOMAIN t : t[i].from # e.from,
         NEW new, new = Append(t, e)
  PROVE  /\ IsTable(new) /\ Distinct(new) /\ Binds(new, e.from, e.to)
         /\ \A f, to : f # e.from /\ Binds(t, f, to) => Binds(new, f, to)
<1>0. Len(t) \in Nat /\ DOMAIN t = 1 .. Len(t)
  BY TablePlaces
<1>1. /\ DOMAIN new = 1 .. Len(t) + 1 /\ new[Len(t) + 1] = e
      /\ \A i \in DOMAIN t : new[i] = t[i]
      /\ IsTable(new)
  <2> DEFINE S == {t[i] : i \in DOMAIN t}
  <2>1. t \in Seq(S \cup {e})
    <3>1. t \in Seq(S)
      BY DEF IsTable
    <3> HIDE DEF S
    <3> QED BY <3>1
  <2> HIDE DEF S
  <2>2. new \in Seq(S \cup {e}) /\ Len(new) = Len(t) + 1
    BY <2>1
  <2>3. IsTable(new) /\ DOMAIN new = 1 .. Len(new)
    BY <2>2, SeqIsTable
  <2>4. new[Len(t) + 1] = e /\ \A i \in 1 .. Len(t) : new[i] = t[i]
    BY <1>0, <2>1
  <2> QED BY <1>0, <2>2, <2>3, <2>4
<1>2. Distinct(new)
  BY <1>0, <1>1 DEF Distinct
<1>3. Binds(new, e.from, e.to)
  BY <1>0, <1>1 DEF Binds
<1>4. ASSUME NEW f, NEW to, f # e.from, Binds(t, f, to) PROVE Binds(new, f, to)
  BY <1>0, <1>1, <1>4 DEF Binds
<1> QED BY <1>1, <1>2, <1>3, <1>4

\* And one goes as if it had not been.
LEMMA RemovesOnly ==
  ASSUME NEW t, IsTable(t), Distinct(t), NEW e, NEW p \in DOMAIN t, t[p].from = e.from,
         e.to = Unbind, NEW new, new = RemoveAt(t, p)
  PROVE  /\ IsTable(new) /\ Distinct(new) /\ Binds(new, e.from, e.to)
         /\ \A f, to : f # e.from /\ Binds(t, f, to) => Binds(new, f, to)
<1> DEFINE n == Len(t) - 1
           Old(i) == IF i < p THEN i ELSE i + 1
<1>0. Len(t) \in Nat /\ DOMAIN t = 1 .. Len(t) /\ p \in 1 .. Len(t) /\ n \in Nat
  BY TablePlaces
<1>1. /\ DOMAIN new = 1 .. n /\ IsTable(new)
      /\ \A i \in 1 .. n : new[i] = t[Old(i)]
  <2> DEFINE S == {t[i] : i \in DOMAIN t}
  <2>1. t \in Seq(S)
    BY DEF IsTable
  <2> HIDE DEF S
  <2> DEFINE fst == SubSeq(t, 1, p - 1)
             snd == SubSeq(t, p + 1, Len(t))
  <2>2. fst \in Seq(S) /\ Len(fst) = p - 1 /\ \A i \in 1 .. p - 1 : fst[i] = t[i]
    BY <1>0, <2>1
  <2>3. /\ snd \in Seq(S) /\ Len(snd) = Len(t) - p
        /\ \A i \in 1 .. Len(t) - p : snd[i] = t[i + p]
    BY <1>0, <2>1
  <2>4. new = fst \o snd
    BY DEF RemoveAt
  <2> HIDE DEF fst, snd
  <2>5. new \in Seq(S) /\ Len(new) = n
    <3>1. new \in Seq(S) /\ Len(new) = Len(fst) + Len(snd)
      BY <2>2, <2>3, <2>4, JoinedLen
    <3> QED BY <1>0, <2>2, <2>3, <3>1
  <2>6. \A i \in 1 .. n : new[i] = IF i < p THEN fst[i] ELSE snd[i - (p - 1)]
    BY <1>0, <2>2, <2>3, <2>4
  <2>7. ASSUME NEW i \in 1 .. n PROVE new[i] = t[Old(i)]
    <3>1. CASE i < p
      BY <1>0, <2>2, <2>6, <3>1
    <3>2. CASE i >= p
      <4>1. i - (p - 1) \in 1 .. Len(t) - p /\ (i - (p - 1)) + p = i + 1
        BY <1>0, <3>2
      <4>2. snd[i - (p - 1)] = t[i + 1]
        BY <2>3, <4>1
      <4>3. new[i] = snd[i - (p - 1)]
        BY <1>0, <2>6, <3>2
      <4> QED BY <1>0, <3>2, <4>2, <4>3
    <3> QED BY <1>0, <3>1, <3>2
  <2>8. IsTable(new) /\ DOMAIN new = 1 .. Len(new)
    BY <2>5, SeqIsTable
  <2> QED BY <2>5, <2>7, <2>8
<1>2. \A i \in 1 .. n : Old(i) \in DOMAIN t /\ Old(i) # p
  BY <1>0
<1>3. \A j \in DOMAIN t \ {p} : \E i \in 1 .. n : Old(i) = j
  <2> SUFFICES ASSUME NEW j \in DOMAIN t \ {p} PROVE \E i \in 1 .. n : Old(i) = j
    OBVIOUS
  <2>1. CASE j < p
    BY <1>0, <2>1
  <2>2. CASE j > p
    <3>1. j - 1 \in 1 .. n /\ Old(j - 1) = j
      BY <1>0, <2>2
    <3> QED BY <3>1
  <2> QED BY <1>0, <2>1, <2>2
<1>4. \A i, j \in 1 .. n : Old(i) = Old(j) => i = j
  BY <1>0
<1> HIDE DEF Old, n
<1>6. Distinct(new)
  BY <1>1, <1>2, <1>4 DEF Distinct
<1>7. \A i \in DOMAIN new : new[i].from # e.from
  BY <1>1, <1>2 DEF Distinct
<1>8. Binds(new, e.from, e.to)
  BY <1>7 DEF Binds
<1>9. ASSUME NEW f, NEW to, f # e.from, Binds(t, f, to) PROVE Binds(new, f, to)
  <2>1. CASE \E j \in DOMAIN t : t[j].from = f /\ t[j].to = to
    <3>1. PICK j \in DOMAIN t \ {p} : t[j].from = f /\ t[j].to = to
      BY <1>9, <2>1
    <3>2. PICK i \in 1 .. n : Old(i) = j
      BY <1>3
    <3> QED BY <1>1, <3>1, <3>2 DEF Binds
  <2>2. CASE to = Unbind /\ \A j \in DOMAIN t : t[j].from # f
    BY <1>1, <1>2, <2>2 DEF Binds
  <2> QED BY <1>9, <2>1, <2>2 DEF Binds
<1> QED BY <1>1, <1>6, <1>8, <1>9

LEMMA EntryApplied ==
  ASSUME NEW t, IsTable(t), Distinct(t), NEW e, NEW new, new = ApplyEntry(t, e)
  PROVE  /\ IsTable(new) /\ Distinct(new) /\ Binds(new, e.from, e.to)
         /\ \A f, to : f # e.from /\ Binds(t, f, to) => Binds(new, f, to)
<1>1. CASE Places(t, e.from) = {}
  <2>1. \A i \in DOMAIN t : t[i].from # e.from
    BY <1>1 DEF Places
  <2>2. CASE e.to = Unbind
    <3>1. new = t
      BY <1>1, <2>2 DEF ApplyEntry
    <3> QED BY <2>1, <2>2, <3>1 DEF Binds
  <2>3. CASE e.to # Unbind
    <3>1. new = Append(t, e)
      BY <1>1, <2>3 DEF ApplyEntry
    <3> QED BY <2>1, <3>1, AppendsAtEnd
  <2> QED BY <2>2, <2>3
<1>2. CASE Places(t, e.from) # {}
  <2>1. PICK p \in DOMAIN t : t[p].from = e.from
    BY <1>2 DEF Places
  <2>2. Places(t, e.from) = {p}
    BY <2>1 DEF Places, Distinct
  <2>3. FirstPlace(t, e.from) = p
    BY <2>2, OnlyPlace, TablePlaces
  <2>4. CASE e.to = Unbind
    <3>1. new = RemoveAt(t, p)
      BY <1>2, <2>3, <2>4 DEF ApplyEntry
    <3> QED BY <2>1, <2>4, <3>1, RemovesOnly
  <2>5. CASE e.to # Unbind
    <3>1. new = [t EXCEPT ![p] = e]
      BY <1>2, <2>3, <2>5 DEF ApplyEntry
    <3> QED BY <2>1, <3>1, OverridesInPlace
  <2> QED BY <2>4, <2>5
<1> QED BY <1>1, <1>2

\* Merged so far: each trigger the table has named has its last word, the
\* others what they had.
MergedTo(m, def, table, k) ==
  /\ IsTable(m) /\ Distinct(m)
  /\ \A t, to : (\A i \in 1 .. k : table[i].from # t) /\ Binds(def, t, to) => Binds(m, t, to)
  /\ \A j \in 1 .. k : (\A i \in j + 1 .. k : table[i].from # table[j].from)
                         => Binds(m, table[j].from, table[j].to)

LEMMA MergeStep ==
  ASSUME NEW m, NEW def, NEW table, NEW k \in Nat, MergedTo(m, def, table, k),
         NEW new, new = ApplyEntry(m, table[k + 1])
  PROVE  MergedTo(new, def, table, k + 1)
<1> DEFINE e == table[k + 1]
<1>1. IsTable(m) /\ Distinct(m)
  BY DEF MergedTo
<1>2. /\ IsTable(new) /\ Distinct(new) /\ Binds(new, e.from, e.to)
      /\ \A f, to : f # e.from /\ Binds(m, f, to) => Binds(new, f, to)
  <2> HIDE DEF e
  <2>1. new = ApplyEntry(m, e)
    BY DEF e
  <2> QED BY <1>1, <2>1, EntryApplied
<1>3. ASSUME NEW t, NEW to, \A i \in 1 .. k + 1 : table[i].from # t, Binds(def, t, to)
      PROVE  Binds(new, t, to)
  <2>1. t # e.from /\ \A i \in 1 .. k : table[i].from # t
    BY <1>3
  <2>2. Binds(m, t, to)
    BY <1>3, <2>1 DEF MergedTo
  <2> QED BY <1>2, <2>1, <2>2
<1>4. ASSUME NEW j \in 1 .. k + 1, \A i \in j + 1 .. k + 1 : table[i].from # table[j].from
      PROVE  Binds(new, table[j].from, table[j].to)
  <2>1. CASE j = k + 1
    BY <1>2, <2>1
  <2>2. CASE j # k + 1
    <3>1. j \in 1 .. k /\ k + 1 \in j + 1 .. k + 1
      BY <2>2
    <3>2. table[j].from # e.from /\ \A i \in j + 1 .. k : table[i].from # table[j].from
      BY <1>4, <3>1
    <3>3. Binds(m, table[j].from, table[j].to)
      BY <3>1, <3>2 DEF MergedTo
    <3> QED BY <1>2, <3>2, <3>3
  <2> QED BY <2>1, <2>2
<1> QED BY <1>2, <1>3, <1>4 DEF MergedTo

LEMMA MergedWhole ==
  ASSUME NEW def, IsTable(def), Distinct(def), NEW table, IsTable(table)
  PROVE  MergedTo(FoldLeft(ApplyEntry, def, table), def, table, Len(table))
<1> DEFINE n == Len(table)
<1>1. n \in Nat /\ DOMAIN table = 1 .. n
  BY TablePlaces
<1>2. PICK it : Merges(it, def, table, n) /\ FoldLeft(ApplyEntry, def, table) = it[1 .. n]
  BY <1>1, MergeUnfolds
<1> HIDE DEF n
<1>3. it[1 .. 0] = def
  <2>1. 1 .. 0 = {} /\ {} \in SUBSET (1 .. n)
    OBVIOUS
  <2> QED BY <1>2, <2>1 DEF Merges
<1>4. ASSUME NEW k \in Nat, k < n PROVE it[1 .. k + 1] = ApplyEntry(it[1 .. k], table[k + 1])
  <2>1. 1 .. k + 1 \in SUBSET (1 .. n) /\ 1 .. k + 1 # {} /\ k + 1 \in 1 .. k + 1
    BY <1>1, <1>4
  <2>2. Max(1 .. k + 1) = k + 1
    BY <2>1, GreatestOfRange
  <2>3. (1 .. k + 1) \ {k + 1} = 1 .. k
    OBVIOUS
  <2> QED BY <1>2, <2>1, <2>2, <2>3 DEF Merges
<1>5. MergedTo(def, def, table, 0)
  BY DEF MergedTo
<1> DEFINE Failing == {k \in Nat : k <= n /\ ~MergedTo(it[1 .. k], def, table, k)}
<1>6. ASSUME Failing # {} PROVE FALSE
  <2>1. PICK k \in Failing : \A i \in Failing : k <= i
    BY <1>6, LeastExists
  <2>2. k \in Nat /\ k <= n /\ ~MergedTo(it[1 .. k], def, table, k) /\ k # 0
    BY <1>3, <1>5
  <2>3. k - 1 \in Nat /\ k - 1 < n /\ (k - 1) + 1 = k /\ k - 1 \notin Failing
    BY <1>1, <2>1, <2>2
  <2>4. MergedTo(it[1 .. k - 1], def, table, k - 1)
    BY <1>1, <2>3
  <2>5. it[1 .. k] = ApplyEntry(it[1 .. k - 1], table[k])
    BY <1>4, <2>3
  <2>6. MergedTo(it[1 .. k], def, table, k)
    BY <2>3, <2>4, <2>5, MergeStep
  <2> QED BY <2>2, <2>6
<1> QED BY <1>1, <1>2, <1>6 DEF n

LEMMA LastPlace ==
  ASSUME NEW t, IsTable(t), NEW from, Places(t, from) # {}
  PROVE  \E j \in DOMAIN t : /\ t[j].from = from /\ LastWord(t, from) = t[j].to
                             /\ \A i \in DOMAIN t : t[i].from = from => i <= j
<1>1. Len(t) \in Nat /\ DOMAIN t = 1 .. Len(t)
  BY TablePlaces
<1> DEFINE FromEnd == {Len(t) - i : i \in Places(t, from)}
<1>2. FromEnd \in SUBSET Nat /\ FromEnd # {}
  BY <1>1 DEF Places
<1>3. PICK m \in FromEnd : \A n \in FromEnd : m <= n
  BY <1>2, LeastExists
<1>4. PICK j \in Places(t, from) : m = Len(t) - j
  BY <1>3
<1>5. \A i \in Places(t, from) : i <= j
  <2> SUFFICES ASSUME NEW i \in Places(t, from) PROVE i <= j
    OBVIOUS
  <2>1. Len(t) - j <= Len(t) - i
    BY <1>3, <1>4
  <2> QED BY <1>1, <2>1 DEF Places
<1>6. \A k \in Places(t, from) : (\A i \in Places(t, from) : i <= k) => k = j
  BY <1>1, <1>5 DEF Places
<1>7. (CHOOSE k \in Places(t, from) : \A i \in Places(t, from) : i <= k) = j
  BY <1>5, <1>6
<1>8. j \in DOMAIN t /\ t[j].from = from
  BY DEF Places
<1>9. \A i \in DOMAIN t : t[i].from = from => i <= j
  BY <1>5 DEF Places
<1> QED BY <1>7, <1>8, <1>9 DEF LastWord

LEMMA DefaultBinds ==
  ASSUME NEW def, IsTable(def), NEW from
  PROVE  Binds(def, from, Default(def, from))
<1>1. CASE Places(def, from) = {}
  BY <1>1 DEF Default, Binds, Places
<1>2. CASE Places(def, from) # {}
  <2>1. PICK j \in DOMAIN def : def[j].from = from /\ LastWord(def, from) = def[j].to
    BY <1>2, LastPlace
  <2> QED BY <1>2, <2>1 DEF Default, Binds
<1> QED BY <1>1, <1>2

LEMMA MergedMeans ==
  ASSUME NEW def, IsTable(def), Distinct(def), NEW table, IsTable(table), Valid(table),
         table # Absent
  PROVE  Means(FoldLeft(ApplyEntry, def, table), def, table)
<1> DEFINE m == FoldLeft(ApplyEntry, def, table)
<1>1. MergedTo(m, def, table, Len(table))
  BY MergedWhole
<1>2. Len(table) \in Nat /\ DOMAIN table = 1 .. Len(table)
  BY TablePlaces
<1> HIDE DEF m
<1>3. ASSUME NEW t PROVE Bound(m, t) = Meaning(def, table, t)
  <2>1. CASE Places(table, t) = {}
    <3>1. Binds(m, t, Default(def, t))
      BY <1>1, <1>2, <2>1, DefaultBinds DEF MergedTo, Places
    <3>2. Meaning(def, table, t) = Default(def, t)
      BY <2>1 DEF Meaning
    <3> QED BY <1>1, <3>1, <3>2, BoundBinds DEF MergedTo
  <2>2. CASE Places(table, t) # {}
    <3>1. PICK j \in DOMAIN table : /\ table[j].from = t /\ LastWord(table, t) = table[j].to
                                    /\ \A i \in DOMAIN table : table[i].from = t => i <= j
      BY <2>2, LastPlace
    <3>2. j \in 1 .. Len(table) /\ \A i \in j + 1 .. Len(table) : table[i].from # table[j].from
      BY <1>2, <3>1
    <3>3. Binds(m, t, table[j].to)
      BY <1>1, <3>1, <3>2 DEF MergedTo
    <3>4. Meaning(def, table, t) = table[j].to
      BY <2>2, <3>1 DEF Meaning
    <3> QED BY <1>1, <3>3, <3>4, BoundBinds DEF MergedTo
  <2> QED BY <2>1, <2>2
<1> QED BY <1>3 DEF m, Means

LEMMA DefaultMeans ==
  ASSUME NEW def, IsTable(def), Distinct(def), NEW table, table = Absent \/ ~Valid(table)
  PROVE  Means(def, def, table)
BY DefaultBinds, BoundBinds DEF Means, Meaning

-----------------------------------------------------------------------------
(***************************************************************************)
(* The configuration is the whole of one file                              *)
(***************************************************************************)

WholeInv == loaded # NoFile => loaded \in File /\ prefs = Build(Globals(loaded))

\* Start-up's load and the reload's move alone set the preferences.
TakesFile ==
  \/ UNCHANGED <<loaded, prefs>>
  \/ loaded' \in File \cup {NoFile} /\ prefs' = Build(Globals(loaded'))

LEMMA NextTakesFile ==
  ASSUME TypeOK, Next
  PROVE  TakesFile
<1> USE DEF TakesFile, cfgVars, vars, Fail
<1>1. CASE StartPrefs
  BY <1>1 DEF StartPrefs
<1>2. CASE MovePrefs
  BY <1>2 DEF MovePrefs, TypeOK
<1>3. CASE Exited
  BY <1>3 DEF Exited
<1>4. CASE StartPlatform BY <1>4 DEF StartPlatform
<1>5. CASE StartIo BY <1>5 DEF StartIo
<1>6. CASE StartPipe BY <1>6 DEF StartPipe
<1>7. CASE StartWatch BY <1>7 DEF StartWatch
<1>8. CASE StartDomain BY <1>8 DEF StartDomain
<1>9. CASE StartControl BY <1>9 DEF StartControl
<1>10. CASE StartLibrary BY <1>10 DEF StartLibrary
<1>11. CASE StartFont BY <1>11 DEF StartFont
<1>12. CASE StartRenderer BY <1>12 DEF StartRenderer
<1>13. CASE StartSize BY <1>13 DEF StartSize
<1>14. CASE StartSymmenus BY <1>14 DEF StartSymmenus
<1>15. CASE StartApp BY <1>15 DEF StartApp
<1>16. CASE StartPty BY <1>16 DEF StartPty
<1>17. CASE StartSigaction BY <1>17 DEF StartSigaction
<1>18. CASE HandleEvent BY <1>18 DEF HandleEvent
<1>19. CASE Dispatch BY <1>19 DEF Dispatch
<1>20. CASE DispatchMore BY <1>20 DEF DispatchMore
<1>21. CASE DispatchEnds BY <1>21 DEF DispatchEnds
<1>22. CASE CheckReload BY <1>22 DEF CheckReload
<1>23. CASE Load BY <1>23 DEF Load
<1>24. CASE Rejected BY <1>24 DEF Rejected
<1>25. CASE Commit BY <1>25 DEF Commit
<1>26. CASE ResetPointers BY <1>26 DEF ResetPointers
<1>27. CASE DecodeLabels BY <1>27 DEF DecodeLabels
<1>28. CASE DrainEval BY <1>28 DEF DrainEval
<1>29. CASE DrainEnds BY <1>29 DEF DrainEnds
<1>30. CASE Paint BY <1>30 DEF Paint
<1>31. CASE Unfont BY <1>31 DEF Unfont
<1>32. CASE Refont BY <1>32 DEF Refont
<1>33. CASE Recache BY <1>33 DEF Recache
<1>34. CASE Repaint BY <1>34 DEF Repaint
<1>35. CASE GiveBack BY <1>35 DEF GiveBack
<1> QED BY <1>1, <1>2, <1>3, <1>4, <1>5, <1>6, <1>7, <1>8, <1>9, <1>10, <1>11, <1>12,
           <1>13, <1>14, <1>15, <1>16, <1>17, <1>18, <1>19, <1>20, <1>21, <1>22, <1>23, <1>24,
           <1>25, <1>26, <1>27, <1>28, <1>29, <1>30, <1>31, <1>32, <1>33, <1>34, <1>35 DEF Next, Start, Loop

LEMMA BuiltWhole ==
  ASSUME NEW f \in File
  PROVE  LET g == Globals(f)
             p == Build(g)
         IN  /\ Means(p.keys, DefaultKeys, g.keys)
             /\ Means(p.chords, DefaultChords, g.chords)
             /\ p.menu = Symmenu(g.menu)
             /\ DOMAIN p.color = DOMAIN DefaultColor /\ DOMAIN p.box = DOMAIN DefaultBox
             /\ Numbers(p.color) /\ Numbers(p.box) /\ Numbers(p.exempt)
<1> DEFINE g == Globals(f)
           p == Build(g)
<1>1. \A t \in {g.keys, g.chords} : t = Absent \/ IsTable(t)
  <2>1. \A t \in {f.sets.keys, f.sets.chords} : t = Absent \/ IsTable(t)
    BY LifecycleAssumption
  <2>2. f.fault \in {"none", "runtime", "syntax"}
    BY LifecycleAssumption
  <2>3. g.keys \in {Absent, f.sets.keys} /\ g.chords \in {Absent, f.sets.chords}
    BY <2>2 DEF Globals, Unset
  <2> QED BY <2>1, <2>3
<1>2. /\ p.keys = KeymapArray(g.keys, DefaultKeys) /\ p.chords = ChordArray(g.chords)
      /\ p.menu = Symmenu(g.menu) /\ p.exempt = IntArray(g.exempt, DefaultExempt)
      /\ p.color = Color(g.color, DefaultColor) /\ p.box = Hitbox(g.box, DefaultBox)
  BY DEF Build
<1> HIDE DEF g, p
<1>3. Means(p.keys, DefaultKeys, g.keys)
  <2>1. CASE g.keys = Absent \/ ~Valid(g.keys)
    BY <1>2, <2>1, DefaultMeans, ConfigAssumption DEF KeymapArray
  <2>2. CASE g.keys # Absent /\ Valid(g.keys)
    BY <1>1, <1>2, <2>2, MergedMeans, ConfigAssumption DEF KeymapArray, KeymapMerge
  <2> QED BY <2>1, <2>2
<1>4. Means(p.chords, DefaultChords, g.chords)
  <2>1. CASE g.chords = Absent \/ ~Valid(g.chords)
    BY <1>2, <2>1, DefaultMeans, ConfigAssumption DEF ChordArray
  <2>2. CASE g.chords # Absent /\ Valid(g.chords)
    BY <1>1, <1>2, <2>2, MergedMeans, ConfigAssumption DEF ChordArray
  <2> QED BY <2>1, <2>2
<1>5. DOMAIN p.color = DOMAIN DefaultColor /\ Numbers(p.color)
  BY <1>2, ConfigAssumption DEF Color, Numbers
<1>6. DOMAIN p.box = DOMAIN DefaultBox /\ Numbers(p.box)
  <2>1. Len(DefaultBox) \in Nat /\ DOMAIN DefaultBox = 1 .. Len(DefaultBox)
    BY TablePlaces, ConfigAssumption
  <2>2. DOMAIN SubSeq(g.box, 1, Len(DefaultBox)) = 1 .. Len(DefaultBox)
    BY <2>1
  <2> QED BY <1>2, <2>1, <2>2, ConfigAssumption DEF Hitbox
<1>7. Numbers(p.exempt)
  BY <1>2, ConfigAssumption DEF IntArray
<1> QED BY <1>2, <1>3, <1>4, <1>5, <1>6, <1>7 DEF g, p

\* Whatever was loaded before, the preferences are well formed and, for a file
\* without a runtime error, what it says over the defaults (the chords only
\* where its table of them is not empty); a reload takes no file that fails.
THEOREM ConfigWhole == Spec => []ConfigIsWhole
<1>1. Init => WholeInv
  BY DEF Init, WholeInv
<1>2. LifecycleInv /\ WholeInv /\ [Next]_vars => WholeInv'
  <2> SUFFICES ASSUME LifecycleInv, WholeInv, [Next]_vars PROVE WholeInv'
    OBVIOUS
  <2>1. CASE Next
    BY <2>1, NextTakesFile DEF TakesFile, WholeInv, LifecycleInv
  <2>2. CASE UNCHANGED vars
    BY <2>2 DEF vars, cfgVars, WholeInv
  <2> QED BY <2>1, <2>2
<1>3. LifecycleInv /\ WholeInv => ConfigIsWhole
  <2> SUFFICES ASSUME LifecycleInv, WholeInv PROVE ConfigIsWhole
    OBVIOUS
  <2>1. pc \notin Moving => cfg = luaGen
    BY DEF LifecycleInv, ConfigInv
  <2>2. pc \in Moving => fresh.fault = "none"
    BY DEF LifecycleInv, ConfigInv, MayCommit
  <2> QED BY <2>1, <2>2, BuiltWhole DEF ConfigIsWhole, WholeInv
<1> QED BY LifecycleHolds, <1>1, <1>2, <1>3, PTL DEF Spec

=============================================================================
