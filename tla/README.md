# Term50 in TLA+

Term50 (`src/src`) is a terminal emulator for BlackBerry 10: tabs of shells on
ptys, a ghostty terminal core per tab, a software renderer, a Lua
configuration and a control socket. This directory holds TLA+ models of its
own logic, TLC configurations that check them on small instances, and proofs
for TLAPS.

## 1. The system

One process, one thread. `main` (main.c) runs

    while (!exit_application)
        platform_next_event      blocks in bps_get_event; io handlers run inside
        app_handle_event         keys, touches, resize, virtual keyboard, invoke, quit
        gesture_tick             the gestures that live on time
        if (g_reload_pending) app_reload_config
        control_drain_deferred   evals that arrived in an io handler
        if (screen_dirty) render_ghostty

so a handler is atomic with respect to every other handler. What interleaves
with them is outside: the shells (which exit at any time, also between two
`waitpid` calls), the clients of the control socket, the user's fingers, the
window system, and time.

| Component | State | Operations | Interacts with |
|---|---|---|---|
| Session registry, shells, reaper (app.c, session.c, main.c) | `sessions[8]`, `active`, `next_id`; per session master fd, child pid; SIGCHLD self-pipe | `app_init`, `app_session_open/close_index/select_*`, `pty_init`, `close_session_and_reflow`, `sig_child`, `sigchld_io_handler`, `reap_exited_children`, TAB_* actions, `term://` invocations, `app_shutdown` | BPS pump (handlers get a `session_t *`), kernel (ptys, pids, signals), layout |
| Control socket (control.c, control_proto.c) | 8 clients (fd, `conn_id`, buffer, oversize flag), ring of 8 deferred evals | accept, client handler, `consume_lines`, `dispatch`, `control_drain_deferred`, `control_shutdown` | app actions, Lua, BPS pump, termctl |
| Layout (main.c) | `fb_w/h`, `rows`, `cols`, `grid_top_pad`, `text_height`, VKB height, symbol menu | `setup_screen_size`, `apply_tab_strip_layout`, `symmenu_toggle`, `rescreen`, `set_font_size`, `set_screen_cols`, VKB handler | every session's bridge and tty |
| Touch gestures (main.c) | `g_drag` (mode, origin, arming), poll timeout | TOUCH_DOWN/MOVE/UP, `gesture_tick`, `drag_reset` | sessions, url picker, platform timeout |
| Keyboard pipeline (main.c, chord_match.c) | `kbd` (layers, metamode, keyhold, double tap, virtual modifiers), io.c's `writebuf` | `app_handle_key`, `TERM_EVENT_KEY`, chord and metamode look-ups | actions, symbol menu, modal screens |
| URL picker (url_pick.c) | mode INACTIVE/HINT/ACTION/QR, up to 64 matches, label prefix | enter, key, touch, exit | touch and key handlers, renderer, platform |
| Renderer buffers (renderer_screen.c, main.c dirty gate) | `screen_dirty`, `screen_full_dirty`, which buffers are known and fresh | `mark_screen_dirty`, `render_ghostty`, begin/end frame, buffer swap | bridges, platform |
| Platform (platform.c, platform_screen.c) | pending resize, orientation, poll timeout, invoke uri | `platform_next_event`, `platform_apply_pending_resize`, VKB show/hide | BPS, window system |
| Startup and shutdown (main.c) | the init flags, `exit_application` | `main`, `startup_init`, `app_shutdown` | every component that is set up or taken down |
| Configuration (preferences.c) | `prefs`, `lua_State`, `g_reload_pending` | load, emit, merge, invoke, `app_reload_config` | everything that reads `prefs` |
| termctl (tools/termctl/main.c) | its line buffer, whether it is in a frame | join and send a command, read the frame | the control socket |
| Actions (action.c) | none | parse a binding, look up a builtin | keyboard, control socket, Lua |
| Terminal bridge (ghostty_bridge.c) | ghostty terminal, `last_was_cr` of the stream | write, resize, scroll, snapshot | session, renderer |
| IO (io.c) | ICU converters | write text, read raw, paste | session master |
| bbnix environment (bbnix_env.c, main.c) | environment of the child | manifest, PATH prepend, applet links | the shell being started |
| Fonts, bitmaps, symbol menu tables, accent tables (font.c, bitmap.c, symmenu.c, symmenu_render.c, accent_menus.c) | caches | rasterisation | renderer |

### Where it is hard

* a session dies in four ways (its shell exits, TAB_CLOSE, a failed `pty_init`,
  shutdown), and each must undo a registration in the pump, a descriptor, a pid
  and a slot of the vector, in that order;
* pids, descriptors and ptys are reused by the kernel while the app still holds
  numbers;
* SIGCHLDs coalesce, shells die during the reaping, and the first shell runs
  before the signal handler is installed;
* a deferred eval outlives the handler that queued it, and perhaps its client,
  whose slot and descriptor may have a new owner by then;
* the grid's size depends on the framebuffer, the tab strip, the symbol menu and
  the virtual keyboard, and five handlers recompute it from different subsets;
* gestures keep a pointer to the session they started in and a poll timeout that
  somebody has to put back;
* a key press goes through a dozen layers, of which each may take it, change
  what the next ones see, or hand it on, and a repeat finds what was left by its
  press and by all that came in between;
* the URL picker acts on a screen that was there some presses ago;
* start-up may stop at any of its steps, and nearly all ends go through one
  `app_shutdown`; a reload swaps the configuration that pointers lead into;
* the bytes of a command and of its answer are cut anywhere, and an answer may
  break off;
* two render buffers take turns, a frame paints only what changed, frames may
  fail, and a rotation replaces the buffers, perhaps at the same addresses.

PROJECT.json lists these hazards line by line with the properties that cover
them.

## 2. Modules

### TabRegistry, TabSet, MCTabRegistry, TabRegistryProofs

`TabRegistry` has the registry of app.c as a sequence and a 0-based `active`,
the per-session descriptor and pid as functions of the session's id, and the
kernel's side as far as it can go wrong: `openOn` (descriptor -> pty), `proc`
(pid -> none, running, zombie), `tty`, and `handlerOf` (the pump's registration
of `pty_io_handler`). An action is a handler: `TabNew` is TAB_NEW with
`app_session_open`, all of `pty_init` (success, failed `openpty`, failed `fork`,
failed `bps_add_fd`) and the roll-back; `TabClose` the SIGHUP and
`close_session_and_reflow`; `DrainSigchldPipe`, `ReapOne` and `ReapDone` are
`sigchld_io_handler`, cut at each `waitpid` because shells go on dying between
two of them. `StartFirstShell` and `InstallSigchld` keep the order of `main`.
Repaints, toasts and the new grid size are left out (the last belongs to the layout).

`TabSet` is what the registry promises: a set of tabs with ids never reused, one
of them focused, and an application that ends only when asked to or after its
last tab. `ImplementsTabSet` is the refinement.

`pc` is where `main` is: `start` (no shell yet), `spawned` (a shell, no
`sigaction`), `loop`, `reap` (inside `reap_exited_children`) and `halt`. `hungUp`,
the set of shells that were sent SIGHUP, is the only variable that the code does
not keep; it is there for `NoOrphanShell`.

### ControlSocket, EvalQueue, MCControlSocket, ControlSocketProofs

`ControlSocket` has the eight slots of `g_clients`, the ring `g_defer` with head
and count, and the kernel's side: which connection a descriptor is open on,
which slot the pump hands it to, what was sent and not yet read, and the frames
each connection was written. Clients act between any two system calls, so a
handler is cut at each accept, each line and each served eval. A line is a
sequence of parts closed by a unit that says what the line amounts to; reading
unit by unit is what `consume_lines` does however `read` cuts the bytes.
`Dispatch` answers at once or pushes to the ring, `Reply` may write a broken
frame when the client is slow (`write_all`), and `DrainOne` has the guard on
`conn_id`.

`EvalQueue` is what the ring promises: a bounded queue of requests that are
served once, in order, and answered to who asked and is still there.
`ServesEvalQueue` is the refinement; it maps the ring's arithmetic away.

### ScreenLayout, MCScreenLayout, ScreenLayoutProofs

`ScreenLayout` has the framebuffer's size, the grid, the strip's pad, the size
each session's bridge and pty were given, font size and loaded font, the symbol
menu's height, and the system's keyboard with its events on their way.
`SetupScreenSize` is the function of that name with `apply_winsize_to`; its
callers are the actions: `TabNew` and `CloseAndReflow` (with
`apply_tab_strip_layout`), `SymmenuOpen`/`SymmenuClose`, `SetFontSize`,
`ReloadConfig` and `Resize` (all three `Rescreen`, with its fallback font and its
failing exit), `HandleVkb`. `ChordClearsMenu` is the one that changes the menu
and not the grid. The keyboard moves when it likes; `platform_vkb_height` asks
for its height now while the event tells of its height then. No caller looks at
the result of `ghostty_bridge_resize` (main.c:1502, 2111, 2135), and the model takes
it to succeed.

### TouchGesture, MCTouchGesture, TouchGestureProofs

`TouchGesture` has `g_drag` with the finger's position relative to its start,
the two deadlines (hold, repeat) as "passed or not", the pump's timeout, and the
address at which every session lies, so that a new session may lie where a freed
one did. The loop is two phases: an event (`TouchDown`, `TouchMove`, `TouchUp`,
`Key`, `NoEvent`, io handlers before it), then `Tick`, which is `gesture_tick`.
The four ways TOUCH_MOVE takes are `MovePad`, `MoveIgnored`, `MoveStill` and
`MoveScroll`. A finger lifted above the screen's edge is `LiftUnseen`, for
`translate_screen` drops events with a negative y. Which tab strip pill or menu
key was touched is a choice of `MouseDown`. The code keeps one `drag` for all
fingers, and so does the model.

`latched`, `did`, `anchor`, `scrolled` and `sent` are history: what the gesture
began with and did, for the properties only.

### FrameGate, MCFrameGate, FrameGateProofs

`FrameGate` has `screen_dirty` and `screen_full_dirty` as `gate`, the rows that
the terminal core reports as dirty, the table `known[]`, the two buffers among
the addresses they may have, and what each buffer holds: which rows are the
active tab's as they are now, the cells drawn as a cursor, the layers over them.
The handlers are what they do to that: `PtyOutput`, `ScrollView`, `SwitchTab`,
`ChangeLayers` (the funnel of mutators at main.c:500 and their like), and the
three that mark nothing: `SnapToBottom`, `TabNewFails`, `DropLayer`. `at` is
where the loop is, `framesOwed` the two frames that `rescreen` paints before it
returns. `RenderGhostty` has each way a frame ends: `Frame`, `NoRenderState`
(begin_frame of the bridge), `LatchFails` (of the renderer), `CellsFail` (in a
glyph or the iteration, posted as it is). `Latch`, `EndFrame` and `InitSymmenus`
are `latch_framebuffer`, `screen_end_frame` and the call of
`screen_framebuffer_size` in `renderer_init_symmenus`.

Tabs in the background are not kept: one that becomes active has any dirty rows
and any cursor (`OtherTerminal`), and none of its rows is taken to be on a
buffer. The contents of a buffer that is neither fresh nor posted are forgotten,
for it is painted in full before it is seen. `prev_cursor_valid` is folded into
the first full frame, `flash` is never set, pixels of a row are not told apart.
The first round of the loop is before `Init`. `missed` is history: what frame has
failed and what change went unmarked since the last full frame.

### KeyPipeline, MCKeyPipeline, InputProofs

`KeyPipeline` has `kbd` with the virtual modifiers, the locks, the metamode, the
open symbol menu and `key_repeat_done`, the modal screens that take keys before
it (help overlay, URL picker), the active tab and whose characters io.c's
`writebuf` holds. An event is a press or a repeat of the key that is down;
`Event` follows `TERM_EVENT_KEY`, and `HandleKey` is `app_handle_key`: the
modifier keys with their chord site A (`ModKey`), the metamode (`MetaMode`), the
hold (`KeyHold`), the alt glyphs, the menu, chord site B and the ordinary key.
`ExactChord`, `WithinPrefix` and `MostSpecific` are chord_match.c.
Whether two presses were close enough for a double tap is a choice. Between two
events of a key come taps, shells that exit, the on-screen keyboard, reloads and
`Scripted`, any action that a script or the control socket asks for. The bytes
a key sends are told apart only by whose they are. `hold` is history.

### UrlPick, MCUrlPick, InputProofs

`UrlPick` has a screen as rows of tokens, of which each is what the scanner tells
apart (a scheme, its separator, `www`, a dot, a letter, brackets, quotes and
blanks); a row that `ghostty_bridge_visit_row` fails on is `Unread` and adds
nothing to the text. `Flat`, `HasPrefixAt`, `RunEnd`, `TrimEnd` and `ScanBuffer` are the scan,
`LabelFromIndex` the labels; `HintKey`, `ActionKey`, `Tap`, `Invoke`, `Exit` the
modes. The screen scanned on entry is any screen: the picker reads the grid as
it was last painted. `scanned`, `presses` and `acted` are history. The reference
that the scan is compared with is `UrlSpans`, a set of intervals defined without
the scanner's loop. What a module of its own would call `Init`, `Next` or `Press` has the
prefix `Pick`, as url_pick.c's functions have `url_pick_`, for one module proves
things of both the keyboard and the picker.

`PickerAssumption` says of the constants what the code's own have: the 26 letters
differ, and there is room for more matches than letters but not for more than
pairs of letters (64, url_pick.c:16).

### ConfigStore, Lifecycle, MCLifecycle, LifecycleProofs

`ConfigStore` has what preferences.c makes of a file: keymap arrays merged over
the defaults in the order of the file (`KeymapMerge`), chords, menus, lists of
numbers, colours and boxes, each with its way to fall back. `Means` is the
reference: what a table says over its defaults, without the merge.

`Lifecycle` extends it with the program from `main` to its end. A step is one call
that takes, frees or follows something; `held` is what is in hand, `flags` what
`app_shutdown` looks at, and a pointer into a configuration is that
configuration's number. The loop has events that dispatch an entry of `*prefs`,
Lua functions that run inside it, the drain of evals, the deferred reload with
each place it may stop, and `rescreen`. `misused`, `ran` and `fresh` are history.

### ControlWire, MCControlWire, ControlWireProofs

`ControlWire` has one command of termctl at the level of bytes: `Join` and
`Split` of control_proto.c (the latter a fold over the bytes, as its loop is),
the server's line buffer with its oversize rule, the frame with escaped lines and
its cap, a reply that breaks off, and termctl's reader. Either side reads any
number of the bytes that are there. `got`, `answer` and `whole` are history.

## 3. Plan

Done: TabRegistry (with TabSet), ControlSocket (with EvalQueue), ScreenLayout,
TouchGesture, FrameGate, KeyPipeline, UrlPick, ConfigStore and Lifecycle,
ControlWire; proofs of all of them, among them both refinements.

Left: what TouchGesture, KeyPipeline and UrlPick assume of each other's modal screens
is a choice in each of the three. It could be stated once and shown of each.

The number of runs is kept at a dozen; a run that shows a known flaw made room
for the run of a component, and the flaw stays in the list of section 6.

## 4. What is checked

| Run | Instance | Shows |
|---|---|---|
| registry | 2 tabs, up to 4 opened, 2 descriptors, 3 pids and ptys, openpty and fork may fail, fairness | types, no handler for a freed session, masters owned by one session, pids not stale, no orphans; no pty pair is pinned except one by each failed fork; a shell whose SIGCHLD was delivered is reaped; the registry implements TabSet |
| control_safety | 2 connections, 2 slots, ring of 2, commands, evals and blank lines, slow clients | replies go to who asked, once; the ring is a queue |
| control_answers | 2 connections for 1 slot, ring of 1, buffer of one part, fairness | slots, descriptors and registrations agree, refused connections included; every command is answered or its client disconnected |
| layout | 3 tabs, 2 screens, 2 fonts, keyboard of 2 heights with 2 events pending | every tab has the drawn size; rows stay clear of the keyboard |
| gestures | 2 addresses for 3 sessions, 2 fingers, 6 positions | output to the latched session, no line lost, nothing sent to freed memory |
| frames | 2 rows, 1 column, 1 layer, 2 buffers at 3 addresses, 2 sizes, frames fail | what is unmarked is on the screen, every frame is whole |
| keyboard | ten keys with the shipped bindings cut down to one of each kind, 2 tabs, three actions from scripts | a held key fires once, the Ctrl chord switches Ctrl on and off again, modal screens take whole presses |
| url_pick | 5 rows of 4 cells, 7 texts in each of the first two rows, rows that cannot be read, 113 screens in all, 3 letters, 4 matches | every URL has one label and no other does, the picker acts on what it shows, nothing of an earlier pick is left |
| lifecycle | 14 files that override, add, unbind, are malformed or fail, every way a start-up may stop, runs of any length | the order of taking down, no pointer into a freed configuration, what a file without a runtime error means (an empty table of chords apart), reloads and ends that are asked for come |
| start_keeps_half_a_file | the lifecycle's | violated: section 6 |
| wire | 95 commands of up to two arguments, 6 bodies, a buffer of 8 bytes, cut and broken replies, fairness of termctl | arguments arrive, output is the reply or the beginning of it, termctl ends |
| held_key_erases_other_tab | the keyboard's, with no scripts | violated: section 6 |

Why the bounds are enough: two tabs give the registry one to the left of, at or to
the right of the active one, and two shells that die between two `waitpid`
calls; four sessions on two descriptors, three pids and three ptys use each of
them again, and leave a pty pair for a second fork that fails. The invariants of
the run are proved for any number of them (section 5). In
the control socket two connections are what a reused descriptor needs, and a
ring of two is full, wraps and empties. Three tabs distinguish one, several and
a tab in the background; heights of 7 and 13 against lines of 2 and 3 give
rests, a screen with room for a row and one without. Two addresses for three
sessions give the reused address. Positions 1 and 2 are half a line and a line.
Two rows tell a partial frame from a full one and the cursor's old row from its
new one; three addresses for two buffers give a rotation that reuses both, one or,
after two rotations, an address that was unknown in between. The keys are one of
each kind that `app_handle_key` tells apart: a key that is bound in metamode, one
whose glyph is, one that sticks, one that switches tabs, one that is exempt from
the hold. Three letters give labels of one letter, and of two from four matches on;
a fifth URL is beyond the cap; a row of four cells makes a URL wrap once, and one
screen makes it wrap twice. Two default keys and a third make every override one of
a first, a last or a new entry. Two arguments of a byte and one of two have every
pair of bytes next to each other and on both sides of a separator; a third
argument is one too many, nine bytes are too long for the server and forty for
termctl.

Each property comes with a faulty variant of a definition (marked "Faulty
variant" in the modules) which makes TLC find it violated: the properties
depend on the code they are about.

Fairness. TabRegistry: weak fairness of `InstallSigchld`, `DrainSigchldPipe`,
`ReapOne` and `ReapDone`. The reaper, once its pipe is readable, and `sigaction` are
not put off for ever: the loop is never blocked, `platform_next_event`
returns within its timeout. ControlSocket: weak fairness for a handler that has
begun; strong for the pump's serving of a readable descriptor and for the drain,
because other handlers come in between again and again but each round of the loop
serves what is readable and ends with the drain. Nothing is assumed of the user,
the shells or the clients. Lifecycle: weak fairness of the next step, for the
thread goes on (the pump returns at its timeout at the latest); strong fairness
of the two steps that end a dispatched action and a drain, which says that
scripts return and that evals do not arrive for ever. That is assumed, not
shown: a script that loops is not stopped by the code. ControlWire: weak
fairness of termctl, which does nothing but read and write; nothing is assumed
of the application, which may end or break off. ScreenLayout, TouchGesture,
FrameGate, KeyPipeline and UrlPick promise nothing that must happen and have no
fairness.

`CHECK_DEADLOCK FALSE` stands in the configurations of ControlSocket,
ScreenLayout and ControlWire, where the system may stop: the clients fall
silent, the application has ended or says nothing more. The others are checked
for deadlock.

## 5. What is proved

For every value of the constants that satisfies the named assumptions of the
module, which TLC evaluates in the runs. `RegistryAssumption`, `LayoutAssumption`,
`GestureAssumption`, `FrameAssumption`, `KeyAssumption` and `ControlAssumption` are types of
the parameters. The others say a little more:

* `ConfigAssumption`: a default table has no key twice, the default menu has a row,
  and no default is the value that stands for "absent" (the tables at the head
  of preferences.c are such). `LifecycleAssumption`: the kinds of files.
* `WireAssumption`: a body fits half a reply, `tail_reserve` has room for the end
  line, a reply is longer than four times header and reserve, and termctl's buffer
  is no shorter than a reply (8192 bytes each against a reserve of 64; every body
  is written to half of CTL_REPLY_MAX, control.c:260-273, 339 and 606).
* `OneRejection`: no command that termctl sends fills the server's buffer twice.
  LINE_MAX_ is 8192 (tools/termctl/main.c:37) and CTL_LINE_MAX 4096 (control.c:28),
  so that it holds of every command. `OutputCorrect` needs it: a line of three
  buffers would be rejected twice (section 6), and of two replies the second is
  not what `answer` has.

* TabRegistryProofs: `TypeCorrect`, `OrderKept`, `HandlersAlive`, `ShellsOwned`.
  The inductive invariant `RegistryInv` is `TypeOK`, `OpeningOrder`,
  `NoDanglingHandler`, `OwnShells` and `NothingBeforeStart` (the vector is empty
  and no id is given until the first shell). `OpeningOrder` carries the rest: ids
  that grow along the vector differ, so a closed session has left it for good,
  and ids below `next_id` make a new one unknown to the pump. What the
  compaction loop of `app_session_close_index` does to a sequence is a lemma
  (`RemoveAtProperties`).
  `ShellsAccountedFor` (`NoOrphanShell`) sorts the steps into those that spawn a
  shell, part with one and leave the tabs alone. `MastersCorrect` (`MastersOwned`) adds
  `LiveMastersOpen`, with which the masters of live tabs differ. It holds under
  `CleanGarbage`, and only there: what `pty_init` closes after a failed `openpty` was
  never assigned (section 6), and if that number is the descriptor of another
  tab, the tab loses its master, and that number may become a second tab's.
  `PtysCorrect` (`PtysReleased`) assumes neither that nor that fork succeeds. Its
  invariant `PtyInv` says that every open master has some live tab, which closing a
  master by accident cannot undo (`OpenAreOwned`), and that a pty whose slave was
  once left open is never used again (`LeakedUnused`). With it the pinned pairs are
  exactly those a failed fork has left (`PinnedByLeak`), and the steps are sorted
  into those that take a free pair, lose one or only free (`PtyStep`).
  `RegistryRefinesTabSet` shows `ImplementsTabSet`: opening, a failed opening (a tab
  that comes and goes within the handler), closing and selecting are TabSet's
  steps, all others stutter; `active` maps to a tab that exists.
* ScreenLayoutProofs: `TypeCorrect`, `SessionsAgree`, `PadIsThere`, `RowsOnScreen`,
  `KeyboardClear`. The inductive invariant `LayoutInv` is `TypeOK`, `GridsAgree`,
  `PadFollowsTabs`, `GridOnScreen` and `TabsWhileLooping` (the loop runs only while
  there are tabs). `RowsOnScreen` rests on a fact on integer division (`WholeLines`,
  `RowsFit`). `KeyboardClear`, an action property, needs `LastInfoIsCurrent`: when
  the last pending event is an INFO, its height is the keyboard's height.
* TouchGestureProofs: `TypeCorrect`, `NothingDangles`, `LatchHolds`, `NeverBoth`,
  `KeyboardIsForTaps`, `NoLineIsLost`. `GestureInv` adds `OriginKnown` (as long as
  the latched session lives, it is at the gesture's address: ids are given once,
  addresses are not) and `ModeKnowsPast` (a scrolling mode has not typed, an
  armed pad has not scrolled, an uncommitted gesture has no rest).
* FrameGateProofs: `TypeCorrect`, `PartialFramesSuffice`, `NothingUnmarked`,
  `MenusFit`, `FramesAreWhole`. `FrameInv` is `TypeOK`, `FreshIsWhole`,
  `GateIsHonest`, `FullWhileOwed` (while `rescreen` owes frames the next one at the
  gate is full) and `LatchedBriefly` (no buffer is latched when an event comes
  in). `FreshIsWhole` is what makes a partial frame whole: `FrameShows` says so of
  one frame, with `CursorMoves` for the rows of the old and the new cursor.

* InputProofs, of the keyboard: `TypeCorrect`, `HoldsFireOnce`, `ModalScreensHold`, `CtrlChordWorks`. `KeyInv` adds to
  `TypeOK` and `HoldFiresOnce` that a hold fires only for the key that is down
  (`FiredIsHeld`). The proof goes through the layers in the code's order: each is
  a lemma that says what it leaves of `key_repeat_done`. `CtrlChordWorks` shows
  `CtrlChordToggles` under `CtrlChordBound`: shift and alt are bound to Ctrl, and no
  chord on alt is longer or stands before that one. The user may bind them
  otherwise; DEFAULT_CHORD_BINDINGS (preferences.c:476-480) and the run's bindings
  are such.
* InputProofs, of the picker: `PickTypeCorrect`, `UrlsAreSelectable`
  (`EveryUrlSelectable`), `ShownUrlsAreActedOn` (`ActsOnShownUrl`), `PicksAreForgotten`
  (`PickerForgets`), `LabelsPickTheirUrls`. Most of it is about the scan, for any buffer.
  `RunEnd` and `TrimEnd`, the loops over one text, are the one place each where the
  text ends (`RunEndsOnce`, `TextEndsOnce`). The intervals of `UrlSpans` are the
  places at which the scanner's step would find a URL (`SpansStart`), and a step
  from anywhere passes over none of them (`StepPasses`). So the recursive
  `ScanBuffer`, from any place on, is the list of the URLs from there on, in their order,
  cut at the cap (`UnrollLists`, `ScanFinds`), and has as many as the set or the cap
  (`SpansAreCounted`). Labels are one letter each or two digits to the base of the
  alphabet's length, which differ (`DigitsOf`, `LabelsDiffer`). `PickInv` says of the
  state that the matches are those of the scanned screen and that nothing of a
  pick is left over (`Holds`), and that `presses` counts at least what the label has
  cost (`IsPaid`), which is what `ActsOnShownUrl` needs. It rests on there being room
  for more matches than letters: labels have two letters only then. `LabelsPick`,
  which no run lists, is the other half of `EveryUrlSelectable`: the press that
  completes a label selects its match, and one that begins a label is kept.
* ControlSocketProofs: `TypeCorrect`, `SlotsAgree`, `RepliesReachIssuer`. `ControlInv` adds
  four facts: connection ids are given once and every taken slot has one of its
  own (`IdsGivenOnce`); an entry of the ring that has a slot's connection id was
  issued by the connection that slot has (`PendingKnown`); what has been answered
  does not wait in the ring (`RepliedKnown`); and `Bounds`, which tie what is read
  and accepted to what was sent and connected. The slot that `client_alloc` finds
  is the least free one, so the proof needs that a set of naturals has a least
  member (`LeastExists`, from the library's well-founded minimum for `<`). The ring's
  arithmetic is `PlacesInRing`: places less than its length apart differ.
  `RingRefinesQueue` shows `ServesEvalQueue`: the queue is the `count` places from
  `head` on, so that a push appends, a pop takes the tail, and the guard on `conn_id`
  is the queue's choice between answering and dropping.
* LifecycleProofs: `LifecycleHolds`, and from it `TypeCorrect`, `TeardownInOrder`,
  `PointersStayLive`, `ConfigWhole`. `LifecycleInv` numbers the calls of start-up (`Turn`)
  and of `app_shutdown` (`Place`). `StartInv` says what is in hand and flagged from the
  n-th call on, `NeedsMet` that what a thing needs is there as long as it is,
  `FlagsStand` that its flag is, `PassedInv` that `app_shutdown` leaves nothing behind
  itself. `CallInv` tells whose action is dispatched, `ConfigInv` which configuration
  each pointer may lead into at each place of a reload, `FontInv` when the font's
  pointer may dangle. That the merge means what a file says (`ConfigIsWhole`) is
  proved (for files without a runtime error) without induction over tables: the fold is a chain of tables, and the
  least link at which the claim failed would contradict the one before.
* ControlWireProofs: `TypeCorrect`, `ArgumentsCorrect` (`ArgumentsArrive`), `OutputCorrect`
  (`OutputIsReply`). The loops of `proto_argv_split`, `ctl_reply_fd` and `read_response`
  are folds; the first lemmas turn each into a run, a state before each byte that
  its step leads to the next. Runs are unique and can be cut and joined
  wherever `read` cuts the bytes. `SplitOfJoin`: split undoes join for every argv
  without empty arguments. `FrameReads`: a whole frame, read from the start, gives
  the body's text and its flag; `CopiedLines` and `CopiedInLine` say what the reader
  would be in after each byte that the writer has copied, and that half a reply
  is never cut short by `Cap`. `ServerInv`: the server has had some n bytes of the
  line; what it keeps, has dispatched and has answered follow from n. `ClientInv`:
  the frame is what termctl has read, then what is on its way, then what is
  not written, and its buffer, output and flag are those of the run over the
  first of these. A prefix of the frame leaves a prefix of the output
  (`ReadKeeps`), which is `OutputIsReply`.

`PadIsThere`, `RowsOnScreen`, `NeverBoth`, `KeyboardIsForTaps`, `PartialFramesSuffice`,
`MenusFit` and `OrderKept` are proved and not listed in a run any more: the runs keep
to a fixed number of properties, and these are either part of the inductive
invariant or hold for every instance by the proof.

Only model-checked: what must happen (`SignalledShellsAreReaped`,
`RequestsAnswered`, `AsksAreHeard`, `TermctlEnds`). Liveness under fairness is out of the
prover's reach. Where a fold or a recursive function is proved about, in
LifecycleProofs, ControlWireProofs and InputProofs, the library's induction theorems are
not used: they take an operator as a parameter. The least counterexample
(`LeastExists`) takes their place, and `Climb` and `Descend`, which are made of it.

## 6. Where code and comments part

With a run:

* io.c says of `writebuf` that it belongs to the active session's keyboard path.
  A key held over a switch of tabs takes back in the new tab what it had typed in
  the old one (main.c:1894; `HoldErasesOwnTab`).
* A start-up file with a runtime error keeps the globals set before it, where
  preferences.c:1070, 1084 and 1098-1101 and share/README:79-82 promise all defaults
  (`StartFallsBack`). `ConfigIsWhole` leaves such a file out.

Seen while modelling, without a run of their own.

Tabs, layout, gestures, frames:

* A failed `openpty` closes two descriptors nobody assigned (main.c:2843;
  `MastersOwned` fails when `StackGarbage` has a descriptor of the app's). A failed
  `fork` leaves the slave end open (main.c:2950): each costs a pty pair for good,
  and `PtysReleased` says that nothing else does.
* A tab that goes by itself, left of the active one, moves the focus (app.c:170).
* A shell that exits before `sigaction` keeps its tab (main.c:3394): SIGCHLD is
  discarded and nothing reaps it.
* The strip's pad keeps the old line height after a change of font (main.c:1123).
* The arrow pad types on without a finger when the URL picker comes up over it
  (main.c:3235). A second finger on an armed pad leaves the pump's timeout at
  50 ms (main.c:3138). A gesture whose session died types into a new one at the
  same address (main.c:945).
* The symbol lock that a sticky metamode entry disarms (main.c:1403), and a picker
  that finds no URL the second time, go without a mark: they stay on the screen.
* A frame that fails in its cells (main.c:2440) ends like a full one: its buffer
  counts as fresh, and later partial frames leave its rows, layers and an old
  cursor as they are. A failed TAB_NEW leaves another tab active without a mark.
* The second forced frame of `rescreen` does not bring both buffers "back in sync"
  (main.c:1132): `end_frame` makes the first one stale again.
* A rotation as the very first event draws the symbol menus for the old size: the
  buffer latched in start-up still answers (renderer_screen.c:235).

Keys:

* A chord on a menu's key closes the menu without giving its rows back; SYM held
  down while its press closes the menu leaves `symmenu_lock` set (main.c:1709-1715,
  519-524).
* Caps lock and the control keys latch Ctrl and never let it go (main.c:1926-1956).
* A metamode entry found for the base key leaves the alt lock armed; a held
  letter with a menu open loses its character.

Configuration and life cycle:

* `control_shutdown` before `control_init` closes descriptor 0 eight times;
  main.c:2262-2264 says each step is guarded.
* `chord_bindings = {}` is documented as disabling the defaults
  (preferences.c:449-459, share/README:284); the merge keeps them. `ConfigIsWhole` says nothing of the chords of such
  a file; the run's files include one. The same README (line 262) calls every chord
  match exact; that is the site of ordinary keys. Where a modifier key is the
  trigger, chord_match.c, its test and main.c:1729-1735 promise a subset match,
  which is what `CtrlChordToggles` is about. It also documents a setting that is no
  longer read.
* `main_symmenu = {}` is taken, and start-up then refuses, or a reload ends the
  program; an accent table without entries makes the renderer read past its only
  entry; `from` of a keymap entry is compared by its first byte; -1 in
  `keyhold_actions_exempt` cuts the list there.
* A font is left open when `font_init` fails late; Passport's idle mode and
  `auto_show_vkb` are applied at the start only; `show_help_on_startup` may pop up on a
  reload; a file that calls `reload_config` at its top level reloads in every
  round of the loop.
* A reload keeps the virtual modifiers, `key_repeat_done` and the terminal's
  encoding.

Control socket and termctl:

* An overlong line of n buffers is rejected n times (control.c:397). A blank line is
  never answered; `termctl ""` waits for ever (control.c:387).
* A broken-off reply does not close the client, as control.c:113-122 says the
  caller would: termctl then waits until the application ends.
* An empty argument is lost, and a carriage return at the end of the last one,
  where control_proto.h calls split and join exact inverses.
* A command of 4096 to 8190 bytes is sent, and refused as too long.

URL picker:

* It scans the frame painted last (ghostty_bridge.c:357-397): after a switch of tabs
  that is not painted yet, it labels the other tab's screen.
* A row that cannot be read is skipped with its line end (url_pick.c:284), so that
  text above it that ends in the last column and text below it are joined.
* A line that ends in the last column is joined with the next one, also when
  a line break is between them; grids of more than 256 columns or 96 rows are cut.

## 7. What is not modelled

Components marked `not_modelled` in PROJECT.json:

* io.c, font.c, bitmap.c, symmenu_render.c: conversion, rasterisation, drawing;
  no protocol beyond the calls the other models have.
* ghostty_bridge.c forwards to a terminal core; what that does with bytes is
  libghostty's. Its painted grid is in UrlPick, its dirty rows in FrameGate.
* bbnix_env.c sets up the environment of a shell, once, from a manifest.
* Static tables (symmenu.c, accent_menus.c), types, build files, vendored code.

And parts of modelled ones: `prefs_lua_emit`, which writes the default file, and the
text of the help; `set_screen_cols` has no caller, `session_mark_exited`'s state is never
seen before the reaper closes the tab, and `sub_mask` of the control clients has
no reader. KeyPipeline, UrlPick and TouchGesture are not composed: each has the
others' modal screens as choices.
