---------------------------- MODULE TabRegistry ----------------------------
(***************************************************************************)
(* The session registry (app.c, session.c), the shells behind it (pty_init *)
(* and the SIGCHLD reaper in main.c) and the tab actions that drive both.  *)
(*                                                                         *)
(* One process, one thread: an io handler, an event or a deferred eval     *)
(* runs to its end before the next one starts, so each is one step here.   *)
(* What interleaves with them are the shells, which exit whenever they     *)
(* like, also between two waitpid calls of the reaper.                     *)
(*                                                                         *)
(* The kernel's side is kept as far as it can go wrong: which descriptor   *)
(* is open on which pty, which pid is running, a zombie or free for reuse, *)
(* and which descriptor the BPS pump calls which session's handler for.    *)
(***************************************************************************)
EXTENDS Integers, SequencesExt

CONSTANTS
  MaxSessions,   \* APP_MAX_SESSIONS
  MaxId,         \* bound of the model: session ids handed out in a run
  Fd,            \* descriptor numbers a pty master may get
  Pid,           \* process ids the kernel may give to a shell
  Pty,           \* the device's pty pairs
  NoFd,          \* -1
  NoPid,         \* 0
  NoPty,
  StackGarbage,  \* what pty_init's uninitialised descriptors may hold
  ForkMayFail    \* the process table may be full

ASSUME RegistryAssumption ==
  /\ MaxSessions \in Nat \ {0}
  /\ MaxId \in Nat \ {0}
  /\ NoFd \notin Fd /\ NoPid \notin Pid /\ NoPty \notin Pty
  /\ StackGarbage \subseteq Fd \cup {NoFd}
  /\ ForkMayFail \in BOOLEAN

SessionId == 1 .. MaxId
NoSession == 0

VARIABLES
  sessions,          \* sessions[0 .. count-1], by id
  active,            \* index of the active session, from 0 as in app.c
  nextId,            \* next_id
  masterFd,          \* session -> master_fd
  childPid,          \* session -> child_pid
  exitApplication,   \* exit_application
  pc,                \* how far main() has come
  sigchldInstalled,  \* sigaction(SIGCHLD) has run
  sigchldPipe,       \* the self-pipe holds at least one byte
  handlerOf,         \* BPS: descriptor -> session its io handler is given
  openOn,            \* kernel: descriptor -> pty it is open on
  leakedSlave,       \* ptys whose slave the app holds open for good
  proc,              \* kernel: pid -> state of the process
  tty,               \* kernel: pid -> pty the process holds
  hungUp             \* shells that were sent SIGHUP

appVars    == <<sessions, active, nextId, masterFd, childPid, exitApplication, pc>>
signalVars == <<sigchldInstalled, sigchldPipe>>
kernelVars == <<handlerOf, openOn, leakedSlave, proc, tty, hungUp>>
vars       == <<appVars, signalVars, kernelVars>>

Live      == ToSet(sessions)
Count     == Len(sessions)
Zombies   == {k \in Pid : proc[k] = "zombie"}
Looping   == pc = "loop"

\* A pair goes back to the pool when neither side has an open descriptor.
Held(p) == \/ \E f \in Fd : openOn[f] = p
           \/ \E k \in Pid : proc[k] = "running" /\ tty[k] = p
           \/ p \in leakedSlave

-----------------------------------------------------------------------------
(***************************************************************************)
(* pty_init                                                                *)
(***************************************************************************)

\* Faulty variant: the parent keeps the slave open after fork.
SpawnKeepingSlave(s) ==
  \E p \in Pty, f \in Fd, k \in Pid :
    /\ ~Held(p) /\ openOn[f] = NoPty /\ proc[k] = "none"
    /\ openOn' = [openOn EXCEPT ![f] = p]
    /\ masterFd' = [masterFd EXCEPT ![s] = f]
    /\ proc' = [proc EXCEPT ![k] = "running"]
    /\ tty' = [tty EXCEPT ![k] = p]
    /\ childPid' = [childPid EXCEPT ![s] = k]
    /\ handlerOf' = [handlerOf EXCEPT ![f] = s]
    /\ leakedSlave' = leakedSlave \cup {p}
    /\ UNCHANGED hungUp

\* openpty, fork and bps_add_fd succeed (the last may fail: it is only logged).
SpawnShell(s) ==
  \E p \in Pty, f \in Fd, k \in Pid, added \in BOOLEAN :
    /\ ~Held(p) /\ openOn[f] = NoPty /\ proc[k] = "none"
    /\ openOn' = [openOn EXCEPT ![f] = p]
    /\ masterFd' = [masterFd EXCEPT ![s] = f]
    /\ proc' = [proc EXCEPT ![k] = "running"]
    /\ tty' = [tty EXCEPT ![k] = p]
    /\ childPid' = [childPid EXCEPT ![s] = k]
    /\ handlerOf' = IF added THEN [handlerOf EXCEPT ![f] = s] ELSE handlerOf
    /\ UNCHANGED <<leakedSlave, hungUp>>

\* openpty fails, for this app or because other apps emptied the pool: the
\* clean-up closes two descriptors nothing ever assigned.
OpenptyFails ==
  \E g, h \in StackGarbage :
    /\ openOn' = [f \in Fd |-> IF f \in {g, h} THEN NoPty ELSE openOn[f]]
    /\ UNCHANGED <<handlerOf, leakedSlave, masterFd, childPid, proc, tty, hungUp>>

\* fork fails: the master is closed and forgotten, the slave stays open.
ForkFails ==
  /\ ForkMayFail
  /\ \E p \in Pty : ~Held(p) /\ leakedSlave' = leakedSlave \cup {p}
  /\ UNCHANGED <<handlerOf, openOn, masterFd, childPid, proc, tty, hungUp>>

-----------------------------------------------------------------------------
(***************************************************************************)
(* The registry (app.c)                                                    *)
(***************************************************************************)

\* Faulty variant: the index is left alone when the last of several tabs goes.
UnclampedActive(a, n) == IF n = 0 THEN 0 ELSE a

\* The active index that app_session_close_index leaves when n sessions remain.
ActiveAfterClose(a, n) == IF n = 0 THEN 0 ELSE IF a >= n THEN n - 1 ELSE a

\* app_session_open: a new session goes to the end and becomes active.
AddSession(s) == sessions' = Append(sessions, s) /\ active' = Count

\* Faulty variant: bps_remove_fd is left out.
StaySubscribed(s) == UNCHANGED handlerOf

\* bps_remove_fd, for a session that has a master.
Unsubscribe(s) ==
  handlerOf' = [f \in Fd |-> IF f = masterFd[s] THEN NoSession ELSE handlerOf[f]]

\* Faulty variant: the master stays open.
FreeSession(s) ==
  /\ masterFd' = [masterFd EXCEPT ![s] = NoFd]
  /\ childPid' = [childPid EXCEPT ![s] = NoPid]
  /\ UNCHANGED openOn

\* session_destroy closes the master.
DestroySession(s) ==
  /\ openOn' = [f \in Fd |-> IF f = masterFd[s] THEN NoPty ELSE openOn[f]]
  /\ masterFd' = [masterFd EXCEPT ![s] = NoFd]
  /\ childPid' = [childPid EXCEPT ![s] = NoPid]

\* Faulty variant: the count is looked at before the session goes.
NoneWasLeft == Count = 0

NoneWillBeLeft == Count = 1

\* close_session_and_reflow: unsubscribe the master, destroy the session,
\* compact the vector, and leave the run loop with the last tab.
CloseSession(i) ==
  /\ Unsubscribe(sessions[i + 1])
  /\ DestroySession(sessions[i + 1])
  /\ sessions' = RemoveAt(sessions, i + 1)
  /\ active' = ActiveAfterClose(active, Count - 1)
  /\ exitApplication' = (exitApplication \/ NoneWillBeLeft)

Select(i) ==
  /\ active' = i
  /\ UNCHANGED <<sessions, nextId, masterFd, childPid, exitApplication, pc,
                 signalVars, kernelVars>>

-----------------------------------------------------------------------------
(***************************************************************************)
(* Start-up: app_init and the first pty_init, then sigaction, then the loop *)
(***************************************************************************)

StartFirstShell ==
  /\ pc = "start"
  /\ nextId' = 2
  /\ active' = 0
  /\ \/ /\ SpawnShell(1)
        /\ sessions' = <<1>>
        /\ pc' = "spawned"
     \/ /\ OpenptyFails \/ ForkFails
        /\ UNCHANGED sessions
        /\ pc' = "halt"
  /\ UNCHANGED <<exitApplication, signalVars>>

InstallSigchld ==
  /\ pc = "spawned"
  /\ sigchldInstalled' = TRUE
  /\ pc' = "loop"
  /\ UNCHANGED <<sessions, active, nextId, masterFd, childPid, exitApplication,
                 sigchldPipe, kernelVars>>

-----------------------------------------------------------------------------
(***************************************************************************)
(* The tab actions. Keys, taps, term:// invocations, `action` commands on  *)
(* the control socket and deferred evals all end here; the rest of an      *)
(* iteration may still run them after exit_application has been set.       *)
(***************************************************************************)

\* TAB_NEW. The registry's cap refuses without a change of state.
TabNew ==
  /\ Looping /\ Count < MaxSessions /\ nextId <= MaxId
  /\ nextId' = nextId + 1
  /\ \/ /\ SpawnShell(nextId)
        /\ AddSession(nextId)
     \/ \* rolled back by app_session_close_index(count - 1)
        /\ OpenptyFails \/ ForkFails
        /\ active' = ActiveAfterClose(Count, Count)
        /\ UNCHANGED sessions
  /\ UNCHANGED <<exitApplication, pc, signalVars>>

TabNext == Looping /\ Count > 1 /\ Select((active + 1) % Count)

TabPrev == Looping /\ Count > 1 /\ Select((active + Count - 1) % Count)

\* term://tab/N and a tap on a pill of the strip.
FocusTab(i) == Looping /\ i < Count /\ Select(i)

\* Faulty variant: the tab is closed without a word to its shell.
TabCloseWithoutSighup ==
  /\ Looping /\ Count > 0
  /\ CloseSession(active)
  /\ UNCHANGED <<nextId, pc, signalVars, leakedSlave, proc, tty, hungUp>>

\* TAB_CLOSE hangs up the shell of the active tab and closes the tab.
TabClose ==
  /\ Looping /\ Count > 0
  /\ hungUp' = hungUp \cup ({childPid[sessions[active + 1]]} \ {NoPid})
  /\ CloseSession(active)
  /\ UNCHANGED <<nextId, pc, signalVars, leakedSlave, proc, tty>>

Quit ==
  /\ Looping
  /\ exitApplication' = TRUE
  /\ UNCHANGED <<sessions, active, nextId, masterFd, childPid, pc,
                 signalVars, kernelVars>>

-----------------------------------------------------------------------------
(***************************************************************************)
(* Shells and the reaper                                                   *)
(***************************************************************************)

\* A shell exits. sig_child pokes the pipe if it has been installed; before
\* that SIGCHLD has its default disposition and is discarded.
ShellExits(k) ==
  /\ proc[k] = "running"
  /\ proc' = [proc EXCEPT ![k] = "zombie"]
  /\ tty' = [tty EXCEPT ![k] = NoPty]
  /\ sigchldPipe' = (sigchldPipe \/ sigchldInstalled)
  /\ UNCHANGED <<appVars, sigchldInstalled, handlerOf, openOn, leakedSlave, hungUp>>

\* sigchld_io_handler empties the pipe first ...
DrainSigchldPipe ==
  /\ Looping /\ sigchldPipe
  /\ sigchldPipe' = FALSE
  /\ pc' = "reap"
  /\ UNCHANGED <<sessions, active, nextId, masterFd, childPid, exitApplication,
                 sigchldInstalled, kernelVars>>

\* Faulty variant: the tab of a dead shell stays until it is dismissed.
ReapKeepingTheTab ==
  /\ pc = "reap"
  /\ \E k \in Zombies : /\ proc' = [proc EXCEPT ![k] = "none"]
                        /\ hungUp' = hungUp \ {k}
  /\ UNCHANGED <<appVars, signalVars, handlerOf, openOn, leakedSlave, tty>>

\* ... then reap_exited_children takes one zombie per waitpid ...
ReapOne ==
  /\ pc = "reap"
  /\ \E k \in Zombies :
       /\ proc' = [proc EXCEPT ![k] = "none"]
       /\ hungUp' = hungUp \ {k}
       /\ \/ \E i \in 0 .. Count - 1 :
               childPid[sessions[i + 1]] = k /\ CloseSession(i)
          \/ \* "Got SIGCHLD for unknown pid"
             /\ \A s \in Live : childPid[s] # k
             /\ UNCHANGED <<sessions, active, masterFd, childPid,
                            exitApplication, handlerOf, openOn>>
  /\ UNCHANGED <<nextId, pc, signalVars, leakedSlave, tty>>

\* Faulty variant: the handler may return while there is more to reap.
ReapStopsEarly ==
  /\ pc = "reap"
  /\ pc' = "loop"
  /\ UNCHANGED <<sessions, active, nextId, masterFd, childPid, exitApplication,
                 signalVars, kernelVars>>

\* ... until waitpid finds none, which ends the handler.
ReapDone ==
  /\ pc = "reap" /\ Zombies = {}
  /\ pc' = "loop"
  /\ UNCHANGED <<sessions, active, nextId, masterFd, childPid, exitApplication,
                 signalVars, kernelVars>>

\* app_shutdown: unsubscribe every master, destroy every session.
Shutdown ==
  /\ Looping /\ exitApplication
  /\ handlerOf' = [f \in Fd |-> IF \E s \in Live : masterFd[s] = f
                                THEN NoSession ELSE handlerOf[f]]
  /\ openOn' = [f \in Fd |-> IF \E s \in Live : masterFd[s] = f
                             THEN NoPty ELSE openOn[f]]
  /\ masterFd' = [s \in SessionId |-> NoFd]
  /\ childPid' = [s \in SessionId |-> NoPid]
  /\ sessions' = <<>>
  /\ active' = 0
  /\ pc' = "halt"
  /\ UNCHANGED <<nextId, exitApplication, signalVars, leakedSlave, proc, tty, hungUp>>

Halted == pc = "halt" /\ UNCHANGED vars

-----------------------------------------------------------------------------
Init ==
  /\ sessions = <<>> /\ active = 0 /\ nextId = 1
  /\ masterFd = [s \in SessionId |-> NoFd]
  /\ childPid = [s \in SessionId |-> NoPid]
  /\ exitApplication = FALSE /\ pc = "start"
  /\ sigchldInstalled = FALSE /\ sigchldPipe = FALSE
  /\ handlerOf = [f \in Fd |-> NoSession]
  /\ openOn = [f \in Fd |-> NoPty]
  /\ leakedSlave = {}
  /\ proc = [k \in Pid |-> "none"]
  /\ tty = [k \in Pid |-> NoPty]
  /\ hungUp = {}

Next ==
  \/ StartFirstShell
  \/ InstallSigchld
  \/ TabNew
  \/ TabNext
  \/ TabPrev
  \/ \E i \in 0 .. MaxSessions - 1 : FocusTab(i)
  \/ TabClose
  \/ Quit
  \/ \E k \in Pid : ShellExits(k)
  \/ DrainSigchldPipe
  \/ ReapOne
  \/ ReapDone
  \/ Shutdown
  \/ Halted

(***************************************************************************)
(* The pump calls the handler of every descriptor that stays readable, and *)
(* a handler that has started runs on. Nothing is assumed of the shells,   *)
(* of the user or of the tab actions.                                      *)
(***************************************************************************)
Fairness ==
  /\ WF_vars(InstallSigchld)
  /\ WF_vars(DrainSigchldPipe)
  /\ WF_vars(ReapOne)
  /\ WF_vars(ReapDone)

Spec     == Init /\ [][Next]_vars
FairSpec == Spec /\ Fairness

-----------------------------------------------------------------------------
(***************************************************************************)
(* Invariants                                                              *)
(***************************************************************************)

\* Types; `active` is the index of a live session whenever there is one.
TypeOK ==
  /\ sessions \in Seq(SessionId) /\ Count <= MaxSessions
  /\ active \in Nat /\ (active < Count \/ (Count = 0 /\ active = 0))
  /\ nextId \in 1 .. MaxId + 1
  /\ masterFd \in [SessionId -> Fd \cup {NoFd}]
  /\ childPid \in [SessionId -> Pid \cup {NoPid}]
  /\ exitApplication \in BOOLEAN
  /\ pc \in {"start", "spawned", "loop", "reap", "halt"}
  /\ sigchldInstalled \in BOOLEAN /\ sigchldPipe \in BOOLEAN
  /\ handlerOf \in [Fd -> SessionId \cup {NoSession}]
  /\ openOn \in [Fd -> Pty \cup {NoPty}]
  /\ leakedSlave \subseteq Pty
  /\ proc \in [Pid -> {"none", "running", "zombie"}]
  /\ tty \in [Pid -> Pty \cup {NoPty}]
  /\ hungUp \subseteq Pid

\* Tabs stand in the order they were opened in and no id is ever used twice,
\* however opening, closing and roll-backs mix (app.c: "monotonically
\* increases; never reused"; the compaction of app_session_close_index).
OpeningOrder ==
  /\ \A i, j \in 1 .. Count : i < j => sessions[i] < sessions[j]
  /\ \A i \in 1 .. Count : sessions[i] < nextId

\* pty_io_handler dereferences the session it was registered with: whatever
\* descriptor the pump still watches belongs to a session that is alive and
\* whose master it is. A destroyed session must have been unsubscribed first.
NoDanglingHandler ==
  \A f \in Fd : handlerOf[f] # NoSession =>
    handlerOf[f] \in Live /\ masterFd[handlerOf[f]] = f

\* A master descriptor is open exactly as long as one live session owns it:
\* neither leaked by a closed tab nor shared by two tabs.
MastersOwned ==
  \A f \in Fd : openOn[f] # NoPty =>
    \E s \in Live : masterFd[s] = f /\ \A t \in Live \ {s} : masterFd[t] # f

\* The shell of a live tab has not been reaped, so its pid is not free for
\* the kernel to give away: SIGHUP, SIGWINCH and the reaper's look-up by pid
\* can never hit a stranger, and no two tabs claim the same pid.
OwnShells ==
  \A s \in Live : childPid[s] # NoPid =>
    /\ proc[childPid[s]] \in {"running", "zombie"}
    /\ \A t \in Live \ {s} : childPid[t] # childPid[s]

\* No shell outlives its tab unnoticed: a running shell either still has its
\* tab or was hung up when the tab was closed (until the app itself goes).
NoOrphanShell ==
  pc # "halt" =>
    \A k \in Pid : proc[k] = "running" =>
      k \in hungUp \/ \E s \in Live : childPid[s] = k

\* What keeps a pty for a reason, and a pty that is kept without one: neither
\* its tab nor its shell is left, and the pair still is not free.
InUse(p) ==
  \/ \E s \in Live : masterFd[s] # NoFd /\ openOn[masterFd[s]] = p
  \/ \E k \in Pid : proc[k] = "running" /\ tty[k] = p
Pinned(p) == Held(p) /\ ~InUse(p)
GetsPinned(p) == ~Pinned(p) /\ Pinned(p)'

\* Of the device's eight pairs no tab that was ever opened pins one, in which
\* order soever it and its shell go, and whatever else is opened meanwhile.
\* What does pin one is a fork that fails (pty_init leaves the slave open): at
\* most one pair with each opening that fails.
PtysReleased ==
  [][ \A p \in Pty : GetsPinned(p) =>
        /\ ForkMayFail /\ nextId' = nextId + 1 /\ sessions' = sessions
        /\ \A q \in Pty : GetsPinned(q) => q = p ]_vars

-----------------------------------------------------------------------------
(***************************************************************************)
(* What must happen, and the abstract specification                        *)
(***************************************************************************)

FocusedTab == IF Count = 0 THEN NoSession ELSE sessions[active + 1]

TabOf(k) == {s \in Live : childPid[s] = k}

\* Once a SIGCHLD has reached the self-pipe, every shell that is dead by then
\* is reaped and its tab closed, though signals coalesce to one byte and
\* shells go on dying while the reaper runs.
SignalledShellsAreReaped ==
  \A k \in Pid :
    (proc[k] = "zombie" /\ sigchldPipe) ~> (TabOf(k) = {})

Tabs == INSTANCE TabSet WITH
  MaxTabs  <- MaxSessions,
  tabs     <- Live,
  focus    <- FocusedTab,
  lastId   <- nextId - 1,
  quitting <- exitApplication,
  ended    <- (pc = "halt")

\* Vector, indices and roll-backs implement the set of tabs of TabSet.
ImplementsTabSet == Tabs!TabSetSpec
=============================================================================
