------------------------------- MODULE TabSet -------------------------------
(***************************************************************************)
(* What the tab registry promises to the rest of the program, without its  *)
(* vector, its indices, its descriptors and its processes: a set of tabs   *)
(* with ids that are never used twice, one of which has the focus as long  *)
(* as there is any, and an application that ends only after it was asked   *)
(* to or after its last tab went.                                          *)
(***************************************************************************)
EXTENDS Naturals, FiniteSets

CONSTANT MaxTabs    \* how many tabs may be open at once

VARIABLES
  tabs,      \* ids of the open tabs
  focus,     \* id of the tab with the focus, 0 without tabs
  lastId,    \* highest id handed out
  quitting,  \* the application was asked to end, or lost its last tab
  ended

tabVars == <<tabs, focus, lastId, quitting, ended>>

TabSetInit ==
  tabs = {} /\ focus = 0 /\ lastId = 0 /\ quitting = FALSE /\ ended = FALSE

\* A new tab gets a new id and the focus.
OpenTab ==
  /\ ~ended /\ Cardinality(tabs) < MaxTabs
  /\ lastId' = lastId + 1
  /\ tabs' = tabs \cup {lastId + 1}
  /\ focus' = lastId + 1
  /\ UNCHANGED <<quitting, ended>>

\* A tab that cannot get a shell uses up an id; the focus may end up elsewhere.
OpenFails ==
  /\ ~ended
  /\ lastId' = lastId + 1
  /\ focus' \in IF tabs = {} THEN {0} ELSE tabs
  /\ UNCHANGED <<tabs, quitting>>
  /\ ended' \in IF tabs = {} THEN BOOLEAN ELSE {FALSE}

\* Tabs go one at a time, the last one with the application.
CloseTab ==
  /\ ~ended
  /\ \E t \in tabs :
       /\ tabs' = tabs \ {t}
       /\ focus' \in IF tabs' = {} THEN {0} ELSE tabs'
       /\ quitting' = (quitting \/ tabs' = {})
  /\ UNCHANGED <<lastId, ended>>

FocusOn ==
  /\ ~ended
  /\ focus' \in tabs
  /\ UNCHANGED <<tabs, lastId, quitting, ended>>

AskToQuit == ~ended /\ quitting' = TRUE /\ UNCHANGED <<tabs, focus, lastId, ended>>

End ==
  /\ quitting /\ ~ended
  /\ ended' = TRUE /\ tabs' = {} /\ focus' = 0
  /\ UNCHANGED <<lastId, quitting>>

TabSetNext ==
  OpenTab \/ OpenFails \/ CloseTab \/ FocusOn \/ AskToQuit \/ End

TabSetSpec == TabSetInit /\ [][TabSetNext]_tabVars
=============================================================================
