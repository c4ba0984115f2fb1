------------------------- MODULE TabRegistryProofs -------------------------
(***************************************************************************)
(* Theorems about TabRegistry, for every number of sessions, descriptors,  *)
(* processes and ptys.                                                     *)
(***************************************************************************)
EXTENDS TabRegistry, SequenceTheorems, FiniteSetTheorems, TLAPS

(***************************************************************************)
(* The compaction loop of app_session_close_index: what is to the left of  *)
(* the closed slot stays, the rest moves one slot down.                    *)
(***************************************************************************)
LEMMA RemoveAtProperties ==
  ASSUME NEW S, NEW seq \in Seq(S), NEW i \in 1 .. Len(seq)
  PROVE  /\ RemoveAt(seq, i) \in Seq(S)
         /\ Len(RemoveAt(seq, i)) = Len(seq) - 1
         /\ \A j \in 1 .. Len(seq) - 1 :
              RemoveAt(seq, i)[j] = IF j < i THEN seq[j] ELSE seq[j + 1]
<1> DEFINE front == SubSeq(seq, 1, i - 1)
           back  == SubSeq(seq, i + 1, Len(seq))
<1>1. Len(seq) \in Nat /\ i \in Nat
  BY LenProperties
<1>2. /\ front \in Seq(S) /\ Len(front) = i - 1
      /\ \A j \in 1 .. i - 1 : front[j] = seq[j]
  BY <1>1, SubSeqProperties
<1>3. /\ back \in Seq(S) /\ Len(back) = Len(seq) - i
      /\ \A j \in 1 .. Len(seq) - i : back[j] = seq[i + j]
  BY <1>1, SubSeqProperties
<1>4. RemoveAt(seq, i) = front \o back
  BY DEF RemoveAt
<1> HIDE DEF front, back
<1>5. /\ front \o back \in Seq(S)
      /\ Len(front \o back) = Len(front) + Len(back)
      /\ \A j \in 1 .. Len(front) + Len(back) : (front \o back)[j] =
           IF j <= Len(front) THEN front[j] ELSE back[j - Len(front)]
  BY <1>2, <1>3, ConcatProperties
<1>6. Len(front) + Len(back) = Len(seq) - 1
  BY <1>1, <1>2, <1>3
<1>7. ASSUME NEW j \in 1 .. Len(seq) - 1
      PROVE  (front \o back)[j] = IF j < i THEN seq[j] ELSE seq[j + 1]
  <2>1. CASE j < i
    BY <1>1, <1>2, <1>5, <1>6, <2>1
  <2>2. CASE ~(j < i)
    <3>1. /\ j - Len(front) \in 1 .. Len(seq) - i
          /\ i + (j - Len(front)) = j + 1
          /\ ~(j <= Len(front))
      BY <1>1, <1>2, <2>2
    <3>2. (front \o back)[j] = back[j - Len(front)]
      BY <1>5, <1>6, <3>1
    <3>3. QED
      BY <1>3, <2>2, <3>1, <3>2
  <2>3. QED
    BY <2>1, <2>2
<1>8. QED
  BY <1>4, <1>5, <1>6, <1>7

-----------------------------------------------------------------------------
(***************************************************************************)
(* Type correctness                                                        *)
(***************************************************************************)

\* The part of TypeOK that pty_init and the closing of a session touch.
TablesOK ==
  /\ masterFd \in [SessionId -> Fd \cup {NoFd}]
  /\ childPid \in [SessionId -> Pid \cup {NoPid}]
  /\ handlerOf \in [Fd -> SessionId \cup {NoSession}]
  /\ openOn \in [Fd -> Pty \cup {NoPty}]
  /\ leakedSlave \subseteq Pty
  /\ proc \in [Pid -> {"none", "running", "zombie"}]
  /\ tty \in [Pid -> Pty \cup {NoPty}]
  /\ hungUp \subseteq Pid

\* The part that the registry's vector touches.
VectorOK ==
  /\ sessions \in Seq(SessionId) /\ Count <= MaxSessions
  /\ active \in Nat /\ (active < Count \/ (Count = 0 /\ active = 0))

LEMMA SpawnTables ==
  ASSUME TypeOK, NEW s \in SessionId, SpawnShell(s)
  PROVE  TablesOK'
BY DEF TypeOK, TablesOK, SpawnShell, Held

LEMMA FailTables ==
  ASSUME TypeOK, OpenptyFails \/ ForkFails
  PROVE  TablesOK' /\ UNCHANGED <<masterFd, childPid, handlerOf, proc, tty, hungUp>>
<1>1. CASE OpenptyFails
  BY <1>1 DEF TypeOK, TablesOK, OpenptyFails
<1>2. CASE ForkFails
  BY <1>2 DEF TypeOK, TablesOK, ForkFails
<1>3. QED
  BY <1>1, <1>2

LEMMA AddVector ==
  ASSUME TypeOK, NEW s \in SessionId, AddSession(s), Count < MaxSessions
  PROVE  VectorOK'
BY RegistryAssumption DEF TypeOK, VectorOK, AddSession, Count

\* Closing a session keeps the vector dense and the active index inside it.
LEMMA CloseVector ==
  ASSUME TypeOK, NEW i \in 0 .. Count - 1, CloseSession(i)
  PROVE  /\ VectorOK'
         /\ Count' = Count - 1
         /\ \A j \in 1 .. Count - 1 :
              sessions'[j] = IF j < i + 1 THEN sessions[j] ELSE sessions[j + 1]
         /\ exitApplication' \in BOOLEAN
         /\ sessions[i + 1] \in SessionId
<1>1. sessions \in Seq(SessionId) /\ Count \in Nat /\ i + 1 \in 1 .. Len(sessions)
  BY LenProperties DEF TypeOK, Count
<1>2. /\ sessions' \in Seq(SessionId)
      /\ Count' = Count - 1
      /\ \A j \in 1 .. Count - 1 :
           sessions'[j] = IF j < i + 1 THEN sessions[j] ELSE sessions[j + 1]
  <2>1. sessions' = RemoveAt(sessions, i + 1)
    BY DEF CloseSession
  <2>2. QED
    BY <1>1, <2>1, RemoveAtProperties DEF Count
<1>3. /\ active' \in Nat
      /\ active' < Count' \/ (Count' = 0 /\ active' = 0)
      /\ Count' <= MaxSessions
  BY <1>1, <1>2, RegistryAssumption DEF TypeOK, CloseSession, ActiveAfterClose
<1>4. exitApplication' \in BOOLEAN
  BY DEF TypeOK, CloseSession
<1>5. sessions[i + 1] \in SessionId
  BY <1>1, ElementOfSeq
<1>6. QED
  BY <1>2, <1>3, <1>4, <1>5 DEF VectorOK

LEMMA CloseTables ==
  ASSUME TypeOK, NEW i \in 0 .. Count - 1, CloseSession(i)
  PROVE  /\ masterFd' \in [SessionId -> Fd \cup {NoFd}]
         /\ childPid' \in [SessionId -> Pid \cup {NoPid}]
         /\ handlerOf' \in [Fd -> SessionId \cup {NoSession}]
         /\ openOn' \in [Fd -> Pty \cup {NoPty}]
BY CloseVector DEF TypeOK, CloseSession, Unsubscribe, DestroySession

LEMMA InitType == Init => TypeOK
<1> SUFFICES ASSUME Init PROVE TypeOK
  OBVIOUS
<1>1. sessions \in Seq(SessionId) /\ Count = 0 /\ Count <= MaxSessions
  BY EmptySeq, RegistryAssumption DEF Init, Count
<1>2. active = 0 /\ nextId = 1 /\ nextId \in 1 .. MaxId + 1
  <2>1. 1 \in 1 .. MaxId + 1
    BY RegistryAssumption
  <2>2. QED
    BY <2>1 DEF Init
<1>3. TablesOK
  BY DEF Init, TablesOK, NoSession
<1>4. /\ exitApplication \in BOOLEAN /\ sigchldInstalled \in BOOLEAN
      /\ sigchldPipe \in BOOLEAN
      /\ pc \in {"start", "spawned", "loop", "reap", "halt"}
  BY DEF Init
<1>5. active \in Nat /\ (active < Count \/ (Count = 0 /\ active = 0))
  BY <1>1, <1>2
<1>6. QED
  BY <1>1, <1>2, <1>3, <1>4, <1>5 DEF TypeOK, TablesOK

LEMMA NextType == TypeOK /\ [Next]_vars => TypeOK'
<1> SUFFICES ASSUME TypeOK, [Next]_vars PROVE TypeOK'
  OBVIOUS
<1> USE RegistryAssumption
<1>0. Count \in Nat
  BY LenProperties DEF TypeOK, Count
<1>1. CASE StartFirstShell
  <2>1. 1 \in SessionId /\ nextId' \in 1 .. MaxId + 1
    BY <1>1 DEF StartFirstShell, SessionId
  <2>2. CASE SpawnShell(1) /\ sessions' = <<1>> /\ pc' = "spawned"
    <3>1. sessions' \in Seq(SessionId) /\ Count' = 1
      BY <2>1, <2>2 DEF Count
    <3>2. QED
      BY <1>1, <2>1, <2>2, <3>1, SpawnTables
         DEF TypeOK, TablesOK, StartFirstShell, signalVars
  <2>3. CASE (OpenptyFails \/ ForkFails) /\ UNCHANGED sessions /\ pc' = "halt"
    <3>1. Count' = Count
      BY <2>3 DEF Count
    <3>2. active' = 0
      BY <1>1 DEF StartFirstShell
    <3>3. QED
      BY <1>0, <1>1, <2>1, <2>3, <3>1, <3>2, FailTables
         DEF TypeOK, TablesOK, StartFirstShell, signalVars
  <2>4. QED
    BY <1>1, <2>2, <2>3 DEF StartFirstShell
<1>2. CASE InstallSigchld
  BY <1>2 DEF InstallSigchld, TypeOK, Count, kernelVars
<1>3. CASE TabNew
  <2>1. nextId \in SessionId /\ nextId' \in 1 .. MaxId + 1 /\ Count < MaxSessions
    BY <1>3 DEF TabNew, TypeOK, SessionId
  <2>2. CASE SpawnShell(nextId) /\ AddSession(nextId)
    <3>1. TablesOK'
      BY <2>1, <2>2, SpawnTables
    <3>2. VectorOK'
      BY <2>1, <2>2, AddVector
    <3>3. QED
      BY <1>3, <2>1, <3>1, <3>2 DEF TypeOK, TablesOK, VectorOK, TabNew, signalVars
  <2>3. CASE /\ OpenptyFails \/ ForkFails
             /\ active' = ActiveAfterClose(Count, Count)
             /\ UNCHANGED sessions
    <3>1. TablesOK'
      BY <2>3, FailTables
    <3>2. VectorOK'
      BY <1>0, <2>3 DEF TypeOK, VectorOK, ActiveAfterClose, Count
    <3>3. QED
      BY <1>3, <2>1, <3>1, <3>2 DEF TypeOK, TablesOK, VectorOK, TabNew, signalVars
  <2>4. QED
    BY <1>3, <2>2, <2>3 DEF TabNew
<1>4. ASSUME NEW i \in Nat, i < Count, Select(i) PROVE TypeOK'
  BY <1>4 DEF Select, TypeOK, Count, signalVars, kernelVars
<1>5. CASE TabNext
  <2>1. (active + 1) % Count \in Nat /\ (active + 1) % Count < Count
    BY <1>0, <1>5 DEF TabNext, TypeOK
  <2>2. QED
    BY <1>4, <1>5, <2>1 DEF TabNext
<1>6. CASE TabPrev
  <2>1. /\ (active + Count - 1) % Count \in Nat
        /\ (active + Count - 1) % Count < Count
    BY <1>0, <1>6 DEF TabPrev, TypeOK
  <2>2. QED
    BY <1>4, <1>6, <2>1 DEF TabPrev
<1>7. CASE \E i \in 0 .. MaxSessions - 1 : FocusTab(i)
  BY <1>4, <1>7 DEF FocusTab
<1>8. CASE TabClose
  <2>1. active \in 0 .. Count - 1 /\ CloseSession(active)
    BY <1>0, <1>8 DEF TabClose, TypeOK
  <2>2. childPid[sessions[active + 1]] \in Pid \cup {NoPid}
    BY <2>1, CloseVector DEF TypeOK
  <2>3. hungUp' \subseteq Pid
    BY <1>8, <2>2 DEF TabClose, TypeOK
  <2>4. QED
    BY <1>8, <2>1, <2>3, CloseVector, CloseTables
       DEF TabClose, TypeOK, VectorOK, signalVars
<1>9. CASE Quit
  BY <1>9 DEF Quit, TypeOK, Count, signalVars, kernelVars
<1>10. CASE \E k \in Pid : ShellExits(k)
  BY <1>10 DEF ShellExits, TypeOK, Count, appVars
<1>11. CASE DrainSigchldPipe
  BY <1>11 DEF DrainSigchldPipe, TypeOK, Count, kernelVars
<1>12. CASE ReapOne
  <2>1. PICK k \in Zombies :
          /\ proc' = [proc EXCEPT ![k] = "none"]
          /\ hungUp' = hungUp \ {k}
          /\ \/ \E i \in 0 .. Count - 1 :
                  childPid[sessions[i + 1]] = k /\ CloseSession(i)
             \/ /\ \A s \in Live : childPid[s] # k
                /\ UNCHANGED <<sessions, active, masterFd, childPid,
                               exitApplication, handlerOf, openOn>>
    BY <1>12 DEF ReapOne
  <2>2. /\ proc' \in [Pid -> {"none", "running", "zombie"}]
        /\ hungUp' \subseteq Pid
    BY <2>1 DEF TypeOK, Zombies
  <2>3. CASE \E i \in 0 .. Count - 1 : CloseSession(i)
    BY <1>12, <2>2, <2>3, CloseVector, CloseTables
       DEF ReapOne, TypeOK, VectorOK, signalVars
  <2>4. CASE UNCHANGED <<sessions, active, masterFd, childPid,
                         exitApplication, handlerOf, openOn>>
    BY <1>12, <2>2, <2>4 DEF ReapOne, TypeOK, Count, signalVars
  <2>5. QED
    BY <2>1, <2>3, <2>4
<1>13. CASE ReapDone
  BY <1>13 DEF ReapDone, TypeOK, Count, signalVars, kernelVars
<1>14. CASE Shutdown
  <2>1. sessions' \in Seq(SessionId) /\ Count' = 0
    BY <1>14, EmptySeq DEF Shutdown, Count
  <2>2. QED
    BY <1>14, <2>1 DEF Shutdown, TypeOK, signalVars, NoSession
<1>15. CASE Halted
  BY <1>15 DEF Halted, vars, appVars, signalVars, kernelVars, TypeOK, Count
<1>16. CASE UNCHANGED vars
  BY <1>16 DEF vars, appVars, signalVars, kernelVars, TypeOK, Count
<1>17. QED
  BY <1>1, <1>2, <1>3, <1>5, <1>6, <1>7, <1>8, <1>9, <1>10, <1>11, <1>12,
     <1>13, <1>14, <1>15, <1>16 DEF Next

\* Every state of the registry is well typed; in particular the active index
\* always names a live session (app_active_session never reads past count).
THEOREM TypeCorrect == Spec => []TypeOK
BY InitType, NextType, PTL DEF Spec

-----------------------------------------------------------------------------
(***************************************************************************)
(* Order, handlers and pids. None of the three survives a step alone: that *)
(* a closed session leaves the vector for good needs the ids to differ,    *)
(* and that a new one is unknown to the pump needs them to be increasing.  *)
(***************************************************************************)

\* Before app_init there is no session.
NothingBeforeStart == pc = "start" => sessions = <<>> /\ nextId = 1

RegistryInv ==
  TypeOK /\ OpeningOrder /\ NoDanglingHandler /\ OwnShells /\ NothingBeforeStart

\* What a sequence holds, by position.
LEMMA ToSetIsRange ==
  ASSUME NEW S, NEW seq \in Seq(S)
  PROVE  /\ Len(seq) \in Nat
         /\ \A j \in 1 .. Len(seq) : seq[j] \in S
         /\ ToSet(seq) = {seq[j] : j \in 1 .. Len(seq)}
BY LenProperties, ElementOfSeq DEF ToSet

\* The live sessions are the elements of the vector.
LEMMA LiveIsRange ==
  ASSUME TypeOK
  PROVE  /\ Count \in Nat
         /\ \A j \in 1 .. Count : sessions[j] \in SessionId /\ sessions[j] \in Nat
         /\ Live = {sessions[j] : j \in 1 .. Count}
<1>1. sessions \in Seq(SessionId) /\ SessionId \subseteq Nat
  BY DEF TypeOK, SessionId
<1>2. QED
  BY <1>1, ToSetIsRange DEF Count, Live

\* app_session_open adds exactly the new id, behind all others.
LEMMA AddLive ==
  ASSUME TypeOK, OpeningOrder, nextId \in SessionId, AddSession(nextId),
         nextId' = nextId + 1, TypeOK'
  PROVE  Live' = Live \cup {nextId} /\ nextId \notin Live /\ OpeningOrder'
<1>1. /\ Count \in Nat /\ Count' = Count + 1
      /\ \A j \in 1 .. Count : sessions'[j] = sessions[j]
      /\ sessions'[Count + 1] = nextId
  BY LenProperties DEF TypeOK, Count, AddSession
<1>2. Live = {sessions[j] : j \in 1 .. Count}
  BY LiveIsRange
<1>3. Live' = {sessions'[j] : j \in 1 .. Count'}
  <2>1. sessions' \in Seq(SessionId)
    BY DEF TypeOK
  <2>2. QED
    BY <2>1, ToSetIsRange DEF Live, Count
<1>4. OpeningOrder'
  BY <1>1, LiveIsRange DEF OpeningOrder, SessionId
<1>5. nextId \notin Live
  <2>1. \A j \in 1 .. Count : sessions[j] < nextId
    BY DEF OpeningOrder
  <2>2. QED
    BY <1>2, <2>1 DEF SessionId
<1>6. QED
  BY <1>1, <1>2, <1>3, <1>4, <1>5

\* app_session_close_index removes exactly the closed id.
LEMMA CloseLive ==
  ASSUME TypeOK, OpeningOrder, NEW i \in 0 .. Count - 1, CloseSession(i),
         nextId' = nextId
  PROVE  Live' = Live \ {sessions[i + 1]} /\ OpeningOrder'
<1> DEFINE s == sessions[i + 1]
<1>1. /\ sessions' \in Seq(SessionId) /\ Count' = Count - 1 /\ Count \in Nat
      /\ \A j \in 1 .. Count - 1 :
           sessions'[j] = IF j < i + 1 THEN sessions[j] ELSE sessions[j + 1]
  BY CloseVector, LiveIsRange DEF VectorOK
<1>2. \A j \in 1 .. Count : sessions[j] \in Nat
  BY LiveIsRange
<1>3. Live = {sessions[j] : j \in 1 .. Count}
  BY LiveIsRange
<1>4. Live' = {sessions'[j] : j \in 1 .. Count'}
  BY <1>1, ToSetIsRange DEF Live, Count
<1>5. OpeningOrder'
  <2>1. ASSUME NEW j \in 1 .. Count - 1, NEW k \in 1 .. Count - 1, j < k
        PROVE  sessions'[j] < sessions'[k]
    BY <1>1, <1>2, <2>1 DEF OpeningOrder
  <2>2. ASSUME NEW j \in 1 .. Count - 1
        PROVE  sessions'[j] < nextId'
    BY <1>1, <2>2 DEF OpeningOrder
  <2>3. QED
    BY <1>1, <2>1, <2>2 DEF OpeningOrder
<1>6. ASSUME NEW x \in Live' PROVE x \in Live /\ x # s
  <2>1. PICK j \in 1 .. Count - 1 : x = sessions'[j]
    BY <1>1, <1>4, <1>6
  <2>2. CASE j < i + 1
    BY <1>1, <1>2, <1>3, <2>1, <2>2 DEF OpeningOrder
  <2>3. CASE ~(j < i + 1)
    BY SMTT(30), <1>1, <1>2, <1>3, <2>1, <2>3 DEF OpeningOrder
  <2>4. QED
    BY <2>2, <2>3
<1>7. ASSUME NEW x \in Live, x # s PROVE x \in Live'
  <2>1. PICK j \in 1 .. Count : x = sessions[j] /\ j # i + 1
    BY <1>3, <1>7
  <2>2. CASE j < i + 1
    <3>1. j \in 1 .. Count - 1 /\ sessions'[j] = x
      BY <1>1, <2>1, <2>2
    <3>2. QED
      BY <1>1, <1>4, <3>1
  <2>3. CASE j > i + 1
    <3>1. j - 1 \in 1 .. Count - 1 /\ sessions'[j - 1] = x
      BY <1>1, <2>1, <2>3
    <3>2. QED
      BY <1>1, <1>4, <3>1
  <2>4. QED
    BY <2>1, <2>2, <2>3
<1>8. s \in Live
  BY <1>1, <1>3
<1>9. QED
  BY <1>5, <1>6, <1>7, <1>8

\* A session that gets its shell is registered under its own descriptor and
\* takes a pid that no live session holds, because theirs are not reaped.
LEMMA SpawnKeeps ==
  ASSUME TypeOK, NoDanglingHandler, OwnShells,
         NEW s \in SessionId, s \notin Live, Live' = Live \cup {s}, SpawnShell(s)
  PROVE  NoDanglingHandler' /\ OwnShells'
<1>1. PICK f \in Fd, k \in Pid, added \in BOOLEAN :
        /\ proc[k] = "none"
        /\ masterFd' = [masterFd EXCEPT ![s] = f]
        /\ proc' = [proc EXCEPT ![k] = "running"]
        /\ childPid' = [childPid EXCEPT ![s] = k]
        /\ handlerOf' = IF added THEN [handlerOf EXCEPT ![f] = s] ELSE handlerOf
  BY DEF SpawnShell
<1>2. Live \subseteq SessionId
  BY LiveIsRange
<1>3. ASSUME NEW g \in Fd, handlerOf'[g] # NoSession
      PROVE  handlerOf'[g] \in Live' /\ masterFd'[handlerOf'[g]] = g
  <2>1. CASE added /\ g = f
    BY <1>1, <2>1 DEF TypeOK
  <2>2. CASE ~(added /\ g = f)
    <3>1. handlerOf'[g] = handlerOf[g]
      BY <1>1, <2>2 DEF TypeOK
    <3>2. handlerOf[g] \in Live /\ masterFd[handlerOf[g]] = g
      BY <1>3, <3>1 DEF NoDanglingHandler
    <3>3. QED
      BY <1>1, <1>2, <3>1, <3>2 DEF TypeOK
  <2>3. QED
    BY <2>1, <2>2
<1>4. ASSUME NEW t \in Live', childPid'[t] # NoPid
      PROVE  /\ proc'[childPid'[t]] \in {"running", "zombie"}
             /\ \A u \in Live' \ {t} : childPid'[u] # childPid'[t]
  <2>1. \A u \in Live : childPid'[u] = childPid[u] /\ childPid[u] \in Pid \cup {NoPid}
    BY <1>1, <1>2 DEF TypeOK
  <2>2. \A u \in Live : childPid[u] # k
    BY <1>1, RegistryAssumption DEF OwnShells
  <2>3. childPid'[s] = k /\ proc'[k] = "running"
    BY <1>1 DEF TypeOK
  <2>4. CASE t = s
    BY <2>1, <2>2, <2>3, <2>4
  <2>5. CASE t # s
    <3>1. t \in Live /\ childPid[t] # NoPid /\ childPid[t] \in Pid
      BY <1>4, <2>1, <2>5
    <3>2. proc'[childPid[t]] = proc[childPid[t]]
      BY <1>1, <2>2, <3>1 DEF TypeOK
    <3>3. QED
      BY <2>1, <2>2, <2>3, <3>1, <3>2 DEF OwnShells
  <2>6. QED
    BY <2>4, <2>5
<1>5. QED
  BY <1>3, <1>4 DEF NoDanglingHandler, OwnShells

\* A session that is closed takes its registration along and nobody else's.
LEMMA CloseKeeps ==
  ASSUME TypeOK, NoDanglingHandler, OwnShells, NEW i \in 0 .. Count - 1,
         CloseSession(i), Live' = Live \ {sessions[i + 1]},
         \/ proc' = proc
         \/ proc' = [proc EXCEPT ![childPid[sessions[i + 1]]] = "none"]
            /\ childPid[sessions[i + 1]] \in Pid
  PROVE  NoDanglingHandler' /\ OwnShells'
<1> DEFINE s == sessions[i + 1]
<1>1. /\ s \in Live /\ s \in SessionId /\ Live \subseteq SessionId
  BY LiveIsRange
<1>2. /\ handlerOf' = [g \in Fd |-> IF g = masterFd[s] THEN NoSession ELSE handlerOf[g]]
      /\ masterFd' = [masterFd EXCEPT ![s] = NoFd]
      /\ childPid' = [childPid EXCEPT ![s] = NoPid]
  BY DEF CloseSession, Unsubscribe, DestroySession
<1> HIDE DEF s
<1>3. ASSUME NEW g \in Fd, handlerOf'[g] # NoSession
      PROVE  handlerOf'[g] \in Live' /\ masterFd'[handlerOf'[g]] = g
  <2>1. handlerOf'[g] = handlerOf[g] /\ g # masterFd[s]
    BY <1>2, <1>3
  <2>2. handlerOf[g] \in Live /\ masterFd[handlerOf[g]] = g
    BY <1>3, <2>1 DEF NoDanglingHandler
  <2>3. QED
    BY <1>1, <1>2, <2>1, <2>2 DEF TypeOK, s
<1>4. ASSUME NEW t \in Live', childPid'[t] # NoPid
      PROVE  /\ proc'[childPid'[t]] \in {"running", "zombie"}
             /\ \A u \in Live' \ {t} : childPid'[u] # childPid'[t]
  <2>1. \A u \in Live' : u \in Live /\ u # s /\ childPid'[u] = childPid[u]
    BY <1>1, <1>2 DEF TypeOK, s
  <2>2. /\ proc[childPid[t]] \in {"running", "zombie"}
        /\ \A u \in Live \ {t} : childPid[u] # childPid[t]
    BY <1>4, <2>1 DEF OwnShells
  <2>3. proc'[childPid[t]] = proc[childPid[t]]
    <3>1. childPid[s] # childPid[t] /\ childPid[t] \in Pid
      BY <1>1, <1>4, <2>1, <2>2 DEF TypeOK
    <3>2. QED
      BY <3>1 DEF TypeOK, s
  <2>4. QED
    BY <2>1, <2>2, <2>3
<1>5. QED
  BY <1>3, <1>4 DEF NoDanglingHandler, OwnShells

\* A step that leaves the registry and the processes alone.
LEMMA IdleKeeps ==
  ASSUME RegistryInv, UNCHANGED <<sessions, masterFd, childPid, handlerOf>>,
         nextId' \in {nextId, nextId + 1},
         \/ proc' = proc
         \/ \E k \in Pid : proc' = [proc EXCEPT ![k] = "zombie"]
         \/ \E k \in Pid : /\ proc' = [proc EXCEPT ![k] = "none"]
                           /\ \A s \in Live : childPid[s] # k
  PROVE  OpeningOrder' /\ NoDanglingHandler' /\ OwnShells'
<1>1. Live' = Live /\ Count' = Count
  BY DEF Live, Count
<1>2. NoDanglingHandler'
  BY <1>1 DEF RegistryInv, NoDanglingHandler
<1>3. ASSUME NEW s \in Live, childPid[s] # NoPid
      PROVE  proc'[childPid[s]] \in {"running", "zombie"}
  <2>1. childPid[s] \in Pid /\ proc[childPid[s]] \in {"running", "zombie"}
    BY <1>3, LiveIsRange DEF RegistryInv, OwnShells, TypeOK
  <2>2. QED
    BY <1>3, <2>1 DEF RegistryInv, TypeOK
<1>4. OwnShells'
  BY <1>1, <1>3 DEF RegistryInv, OwnShells
<1>5. OpeningOrder'
  BY <1>1, LiveIsRange DEF RegistryInv, OpeningOrder, TypeOK
<1>6. QED
  BY <1>2, <1>4, <1>5

LEMMA InitInv == Init => RegistryInv
<1> SUFFICES ASSUME Init PROVE RegistryInv
  OBVIOUS
<1>1. TypeOK
  BY InitType
<1>2. Count = 0 /\ Live = {}
  BY <1>1, LiveIsRange DEF Init, Count
<1>3. QED
  BY <1>1, <1>2 DEF Init, RegistryInv, OpeningOrder, NoDanglingHandler,
     OwnShells, NothingBeforeStart

LEMMA NextInv == RegistryInv /\ [Next]_vars => RegistryInv'
<1> SUFFICES ASSUME RegistryInv, [Next]_vars PROVE RegistryInv'
  OBVIOUS
<1>0. TypeOK /\ TypeOK'
  BY NextType DEF RegistryInv
<1> SUFFICES OpeningOrder' /\ NoDanglingHandler' /\ OwnShells' /\ NothingBeforeStart'
  BY <1>0 DEF RegistryInv
<1>1. CASE StartFirstShell
  <2>1. /\ sessions = <<>> /\ nextId = 1 /\ nextId' = 2
        /\ pc' \in {"spawned", "halt"} /\ NothingBeforeStart'
    BY <1>1 DEF StartFirstShell, RegistryInv, NothingBeforeStart
  <2>2. CASE SpawnShell(1) /\ sessions' = <<1>>
    <3>1. 1 \in SessionId /\ Live = {} /\ Live' = {1} /\ Count' = 1
      BY <2>1, <2>2, RegistryAssumption DEF Live, Count, SessionId, ToSet
    <3>2. OpeningOrder'
      BY <2>1, <2>2, <3>1 DEF OpeningOrder
    <3>3. QED
      BY <1>0, <2>1, <2>2, <3>1, <3>2, SpawnKeeps DEF RegistryInv
  <2>3. CASE (OpenptyFails \/ ForkFails) /\ UNCHANGED sessions
    BY <1>0, <2>1, <2>3, FailTables, IdleKeeps
  <2>4. QED
    BY <1>1, <2>2, <2>3 DEF StartFirstShell
<1>2. CASE TabNew
  <2>1. /\ nextId \in SessionId /\ nextId' = nextId + 1 /\ pc' = pc /\ pc = "loop"
    BY <1>0, <1>2 DEF TabNew, TypeOK, SessionId, Looping
  <2>2. NothingBeforeStart'
    BY <2>1 DEF NothingBeforeStart
  <2>3. CASE SpawnShell(nextId) /\ AddSession(nextId)
    <3>1. Live' = Live \cup {nextId} /\ nextId \notin Live /\ OpeningOrder'
      BY <1>0, <2>1, <2>3, AddLive DEF RegistryInv
    <3>2. QED
      BY <1>0, <2>1, <2>2, <2>3, <3>1, SpawnKeeps DEF RegistryInv
  <2>4. CASE (OpenptyFails \/ ForkFails) /\ UNCHANGED sessions
    BY <1>0, <2>1, <2>2, <2>4, FailTables, IdleKeeps
  <2>5. QED
    BY <1>2, <2>3, <2>4 DEF TabNew
<1>3. CASE TabClose
  <2>1. /\ active \in 0 .. Count - 1 /\ CloseSession(active)
        /\ nextId' = nextId /\ proc' = proc /\ pc' = pc /\ pc = "loop"
    BY <1>0, <1>3, LiveIsRange DEF TabClose, TypeOK, Looping
  <2>2. Live' = Live \ {sessions[active + 1]} /\ OpeningOrder'
    BY <1>0, <2>1, CloseLive DEF RegistryInv
  <2>3. QED
    BY <1>0, <2>1, <2>2, CloseKeeps DEF RegistryInv, NothingBeforeStart
<1>4. CASE ReapOne
  <2>1. PICK k \in Zombies :
          /\ proc' = [proc EXCEPT ![k] = "none"]
          /\ \/ \E i \in 0 .. Count - 1 :
                  childPid[sessions[i + 1]] = k /\ CloseSession(i)
             \/ /\ \A s \in Live : childPid[s] # k
                /\ UNCHANGED <<sessions, active, masterFd, childPid,
                               exitApplication, handlerOf, openOn>>
    BY <1>4 DEF ReapOne
  <2>2. /\ k \in Pid /\ nextId' = nextId /\ pc' = pc /\ pc = "reap"
        /\ NothingBeforeStart'
    BY <1>4 DEF ReapOne, Zombies, NothingBeforeStart
  <2>3. ASSUME NEW i \in 0 .. Count - 1,
               childPid[sessions[i + 1]] = k, CloseSession(i)
        PROVE  OpeningOrder' /\ NoDanglingHandler' /\ OwnShells'
    <3>1. Live' = Live \ {sessions[i + 1]} /\ OpeningOrder'
      BY <1>0, <2>2, <2>3, CloseLive DEF RegistryInv
    <3>2. QED
      BY <1>0, <2>1, <2>2, <2>3, <3>1, CloseKeeps DEF RegistryInv
  <2>4. CASE /\ \A s \in Live : childPid[s] # k
             /\ UNCHANGED <<sessions, masterFd, childPid, handlerOf>>
    BY <2>1, <2>2, <2>4, IdleKeeps
  <2>5. QED
    BY <2>1, <2>2, <2>3, <2>4
<1>5. CASE Shutdown
  <2>1. /\ sessions' = <<>> /\ Live' = {} /\ Count' = 0 /\ pc' = "halt"
    BY <1>5 DEF Shutdown, Live, Count, ToSet
  <2>2. ASSUME NEW f \in Fd PROVE handlerOf'[f] = NoSession
    BY <1>5, <2>2 DEF Shutdown, RegistryInv, NoDanglingHandler
  <2>3. QED
    BY <2>1, <2>2 DEF OpeningOrder, NoDanglingHandler, OwnShells, NothingBeforeStart
<1>6. CASE TabNext \/ TabPrev \/ \E i \in 0 .. MaxSessions - 1 : FocusTab(i)
  <2>1. PICK i \in Int : Select(i) /\ Looping
    BY <1>0, <1>6, LiveIsRange, RegistryAssumption
       DEF TabNext, TabPrev, FocusTab, TypeOK
  <2>2. QED
    BY <2>1, IdleKeeps DEF Select, kernelVars, Looping, NothingBeforeStart
<1>7. CASE \E k \in Pid : ShellExits(k)
  BY <1>7, IdleKeeps DEF ShellExits, appVars, RegistryInv, NothingBeforeStart
<1>8. CASE InstallSigchld \/ Quit \/ DrainSigchldPipe \/ ReapDone
  BY <1>8, IdleKeeps
     DEF InstallSigchld, Quit, DrainSigchldPipe, ReapDone, kernelVars, Looping,
         NothingBeforeStart
<1>9. CASE Halted \/ UNCHANGED vars
  BY <1>9, IdleKeeps DEF Halted, vars, appVars, kernelVars, RegistryInv,
     NothingBeforeStart
<1>10. QED
  BY <1>1, <1>2, <1>3, <1>4, <1>5, <1>6, <1>7, <1>8, <1>9 DEF Next

\* The strengthened invariant of the registry.
LEMMA RegistryCorrect == Spec => []RegistryInv
BY InitInv, NextInv, PTL DEF Spec

\* Tabs stay in the order they were opened in and ids are never used twice,
\* whatever mix of openings, closings and roll-backs app.c sees.
THEOREM OrderKept == Spec => []OpeningOrder
<1>1. RegistryInv => OpeningOrder
  BY DEF RegistryInv
<1>2. QED
  BY <1>1, RegistryCorrect, PTL

\* pty_io_handler is never called with a session that has been destroyed.
THEOREM HandlersAlive == Spec => []NoDanglingHandler
<1>1. RegistryInv => NoDanglingHandler
  BY DEF RegistryInv
<1>2. QED
  BY <1>1, RegistryCorrect, PTL

\* The pid of a live tab is never one the kernel may have given away.
THEOREM ShellsOwned == Spec => []OwnShells
<1>1. RegistryInv => OwnShells
  BY DEF RegistryInv
<1>2. QED
  BY <1>1, RegistryCorrect, PTL

-----------------------------------------------------------------------------
(***************************************************************************)
(* Running shells. A step that moves a shell out of the vector leaves it   *)
(* hung up or reaped.                                                      *)
(***************************************************************************)

\* What becomes of tabs and shells in one step, as far as orphans go: a shell
\* is spawned for a new tab ...
ShellSpawned(s, k) ==
  /\ s \notin Live /\ Live' = Live \cup {s}
  /\ proc' = [proc EXCEPT ![k] = "running"]
  /\ childPid' = [childPid EXCEPT ![s] = k]
  /\ hungUp' = hungUp

\* ... or a tab is closed, its shell hung up or just reaped ...
ShellParted(s) ==
  /\ Live' = Live \ {s}
  /\ childPid' = [childPid EXCEPT ![s] = NoPid]
  /\ \/ proc' = proc /\ hungUp' = hungUp \cup ({childPid[s]} \ {NoPid})
     \/ /\ childPid[s] \in Zombies
        /\ proc' = [proc EXCEPT ![childPid[s]] = "none"]
        /\ hungUp' = hungUp \ {childPid[s]}

\* ... or no tab changes; a shell may exit, or be reaped unknown.
ShellReaped(k) ==
  k \in Zombies /\ proc' = [proc EXCEPT ![k] = "none"] /\ hungUp' = hungUp \ {k}

ShellsApart ==
  /\ Live' = Live /\ childPid' = childPid
  /\ \/ proc' = proc /\ hungUp' = hungUp
     \/ \E k \in Pid : proc' = [proc EXCEPT ![k] = "zombie"] /\ hungUp' = hungUp
     \/ \E k \in Pid : ShellReaped(k)

ShellStep ==
  \/ \E s \in SessionId, k \in Pid : ShellSpawned(s, k)
  \/ \E s \in Live : ShellParted(s)
  \/ ShellsApart

\* Each of these steps keeps every running shell accounted for.
LEMMA NoOrphanStep ==
  ASSUME TypeOK, NEW k \in Pid, proc'[k] = "running", ShellStep,
         proc[k] = "running" => k \in hungUp \/ \E s \in Live : childPid[s] = k
  PROVE  k \in hungUp' \/ \E s \in Live' : childPid'[s] = k
<1>0. Live \subseteq SessionId
  BY LiveIsRange
<1>1. ASSUME NEW s \in SessionId, NEW j \in Pid, ShellSpawned(s, j)
      PROVE  k \in hungUp' \/ \E t \in Live' : childPid'[t] = k
  BY <1>0, <1>1 DEF TypeOK, ShellSpawned
<1>2. ASSUME NEW s \in Live, ShellParted(s)
      PROVE  k \in hungUp' \/ \E t \in Live' : childPid'[t] = k
  <2>1. proc[k] = "running" /\ k # NoPid
    BY <1>2, RegistryAssumption DEF TypeOK, Zombies, ShellParted
  <2>2. CASE k \in hungUp
    BY <1>2, <2>1, <2>2 DEF Zombies, ShellParted
  <2>3. ASSUME NEW t \in Live, childPid[t] = k
        PROVE  k \in hungUp' \/ (t \in Live' /\ childPid'[t] = k)
    BY <1>0, <1>2, <2>1, <2>3 DEF TypeOK, Zombies, ShellParted
  <2>4. QED
    BY <2>1, <2>2, <2>3
<1>3. CASE ShellsApart
  BY <1>3 DEF TypeOK, Zombies, ShellsApart, ShellReaped
<1>4. QED
  BY <1>1, <1>2, <1>3 DEF ShellStep

\* Every step that does not end the application is one of those.
LEMMA NextShellStep ==
  ASSUME RegistryInv, [Next]_vars, pc' # "halt"
  PROVE  ShellStep /\ pc # "halt"
<1>0. TypeOK /\ TypeOK'
  BY NextType DEF RegistryInv
<1>1. CASE StartFirstShell
  <2>1. /\ pc = "start" /\ sessions = <<>> /\ sessions' = <<1>> /\ SpawnShell(1)
    BY <1>1 DEF StartFirstShell, RegistryInv, NothingBeforeStart
  <2>2. 1 \in SessionId /\ Live = {} /\ Live' = {1}
    BY <2>1, RegistryAssumption DEF Live, SessionId, ToSet
  <2>3. PICK k \in Pid : ShellSpawned(1, k)
    BY <2>1, <2>2 DEF SpawnShell, ShellSpawned
  <2>4. QED
    BY <2>1, <2>2, <2>3 DEF ShellStep
<1>2. CASE TabNew
  <2>1. nextId \in SessionId /\ nextId' = nextId + 1 /\ pc = "loop"
    BY <1>0, <1>2 DEF TabNew, TypeOK, SessionId, Looping
  <2>2. CASE SpawnShell(nextId) /\ AddSession(nextId)
    <3>1. Live' = Live \cup {nextId} /\ nextId \notin Live
      BY <1>0, <2>1, <2>2, AddLive DEF RegistryInv
    <3>2. PICK k \in Pid : ShellSpawned(nextId, k)
      BY <2>2, <3>1 DEF SpawnShell, ShellSpawned
    <3>3. QED
      BY <2>1, <3>2 DEF ShellStep
  <2>3. CASE (OpenptyFails \/ ForkFails) /\ UNCHANGED sessions
    <3>1. UNCHANGED <<childPid, proc, hungUp>>
      BY <1>0, <2>3, FailTables
    <3>2. QED
      BY <2>1, <2>3, <3>1 DEF ShellStep, ShellsApart, Live
  <2>4. QED
    BY <1>2, <2>2, <2>3 DEF TabNew
<1>3. CASE TabClose
  <2>1. /\ active \in 0 .. Count - 1 /\ CloseSession(active)
        /\ nextId' = nextId /\ proc' = proc /\ pc = "loop"
        /\ hungUp' = hungUp \cup ({childPid[sessions[active + 1]]} \ {NoPid})
    BY <1>0, <1>3, LiveIsRange DEF TabClose, TypeOK, Looping
  <2>2. Live' = Live \ {sessions[active + 1]} /\ sessions[active + 1] \in Live
    BY <1>0, <2>1, CloseLive, LiveIsRange DEF RegistryInv
  <2>3. QED
    BY <2>1, <2>2 DEF ShellStep, ShellParted, CloseSession, DestroySession
<1>4. CASE ReapOne
  <2>1. PICK k \in Zombies :
          /\ proc' = [proc EXCEPT ![k] = "none"]
          /\ hungUp' = hungUp \ {k}
          /\ \/ \E i \in 0 .. Count - 1 :
                  childPid[sessions[i + 1]] = k /\ CloseSession(i)
             \/ UNCHANGED <<sessions, childPid>>
    BY <1>4 DEF ReapOne
  <2>2. nextId' = nextId /\ pc = "reap"
    BY <1>4 DEF ReapOne
  <2>3. ASSUME NEW i \in 0 .. Count - 1,
               childPid[sessions[i + 1]] = k, CloseSession(i)
        PROVE  ShellStep
    <3>1. Live' = Live \ {sessions[i + 1]} /\ sessions[i + 1] \in Live
      BY <1>0, <2>2, <2>3, CloseLive, LiveIsRange DEF RegistryInv
    <3>2. QED
      BY <2>1, <2>3, <3>1 DEF ShellStep, ShellParted, CloseSession, DestroySession
  <2>4. CASE UNCHANGED <<sessions, childPid>>
    <3>1. ShellReaped(k) /\ k \in Pid
      BY <2>1 DEF ShellReaped, Zombies
    <3>2. Live' = Live /\ childPid' = childPid
      BY <2>4 DEF Live
    <3>3. QED
      BY <2>2, <3>1, <3>2 DEF ShellStep, ShellsApart
  <2>5. QED
    BY <2>1, <2>2, <2>3, <2>4
<1>5. CASE \E k \in Pid : ShellExits(k)
  BY <1>5 DEF ShellExits, appVars, ShellStep, ShellsApart, Live
<1>6. CASE TabNext \/ TabPrev \/ \E i \in 0 .. MaxSessions - 1 : FocusTab(i)
  BY <1>6 DEF TabNext, TabPrev, FocusTab, Select, kernelVars, Looping, ShellStep,
     ShellsApart, Live
<1>7. CASE InstallSigchld \/ Quit \/ DrainSigchldPipe \/ ReapDone
  BY <1>7 DEF InstallSigchld, Quit, DrainSigchldPipe, ReapDone, kernelVars,
     Looping, ShellStep, ShellsApart, Live
<1>8. CASE Shutdown \/ Halted
  BY <1>8 DEF Shutdown, Halted, vars, appVars
<1>9. CASE UNCHANGED vars
  BY <1>9 DEF vars, appVars, kernelVars, ShellStep, ShellsApart, Live
<1>10. QED
  BY <1>1, <1>2, <1>3, <1>4, <1>5, <1>6, <1>7, <1>8, <1>9 DEF Next

\* No shell outlives its tab unnoticed: what still runs has its tab or was
\* hung up by TAB_CLOSE, whatever the reaper, the pids' reuse and failed
\* openings do in between.
THEOREM ShellsAccountedFor == Spec => []NoOrphanShell
<1>1. Init => NoOrphanShell
  BY DEF Init, NoOrphanShell
<1>2. NoOrphanShell /\ RegistryInv /\ [Next]_vars => NoOrphanShell'
  <2> SUFFICES ASSUME NoOrphanShell, RegistryInv, [Next]_vars, pc' # "halt",
                      NEW k \in Pid, proc'[k] = "running"
               PROVE  k \in hungUp' \/ \E s \in Live' : childPid'[s] = k
    BY DEF NoOrphanShell
  <2>1. ShellStep /\ pc # "halt" /\ TypeOK
    BY NextShellStep DEF RegistryInv
  <2>2. proc[k] = "running" => k \in hungUp \/ \E s \in Live : childPid[s] = k
    BY <2>1 DEF NoOrphanShell
  <2>3. QED
    BY <2>1, <2>2, NoOrphanStep
<1>3. QED
  BY <1>1, <1>2, RegistryCorrect, PTL DEF Spec

-----------------------------------------------------------------------------
(***************************************************************************)
(* Master descriptors. What pty_init closes on its failure path was never  *)
(* assigned: if the garbage happens to be an open descriptor, a live tab   *)
(* loses its master and may come to share the number with a newer tab.     *)
(* MastersOwned holds only under CleanGarbage, which says that it is not.  *)
(***************************************************************************)
CleanGarbage == StackGarbage \cap Fd = {}

\* Every live session has a master and the master is open. With MastersOwned
\* this makes the masters of live sessions differ.
LiveMastersOpen ==
  \A s \in Live : masterFd[s] # NoFd /\ openOn[masterFd[s]] # NoPty

MastersInv == MastersOwned /\ LiveMastersOpen

LEMMA MastersDiffer ==
  ASSUME TypeOK, MastersInv, NEW s \in Live, NEW t \in Live, s # t
  PROVE  masterFd[s] # masterFd[t] /\ masterFd[s] \in Fd
<1>1. masterFd[s] \in Fd /\ openOn[masterFd[s]] # NoPty
  BY LiveIsRange DEF MastersInv, LiveMastersOpen, TypeOK
<1>2. PICK u \in Live : /\ masterFd[u] = masterFd[s]
                        /\ \A v \in Live \ {u} : masterFd[v] # masterFd[s]
  BY <1>1 DEF MastersInv, MastersOwned
<1>3. QED
  BY <1>1, <1>2

\* A new session's master was closed, so it is no other session's master.
LEMMA SpawnMasters ==
  ASSUME TypeOK, MastersInv, NEW s \in SessionId, s \notin Live,
         Live' = Live \cup {s}, SpawnShell(s)
  PROVE  MastersInv'
<1>1. PICK p \in Pty, f \in Fd :
        /\ openOn[f] = NoPty
        /\ openOn' = [openOn EXCEPT ![f] = p]
        /\ masterFd' = [masterFd EXCEPT ![s] = f]
        /\ leakedSlave' = leakedSlave
  BY DEF SpawnShell
<1>2. Live \subseteq SessionId /\ p # NoPty /\ f # NoFd
  BY LiveIsRange, RegistryAssumption
<1>3. masterFd'[s] = f /\ openOn'[f] = p
  BY <1>1 DEF TypeOK
<1>4. \A t \in Live : /\ masterFd'[t] = masterFd[t] /\ masterFd[t] # f
                      /\ masterFd[t] \in Fd
                      /\ openOn'[masterFd[t]] = openOn[masterFd[t]]
  BY <1>1, <1>2 DEF TypeOK, MastersInv, LiveMastersOpen
<1>5. LiveMastersOpen'
  BY <1>2, <1>3, <1>4 DEF LiveMastersOpen, MastersInv
<1>6. ASSUME NEW g \in Fd, openOn'[g] # NoPty
      PROVE  \E t \in Live' : /\ masterFd'[t] = g
                              /\ \A u \in Live' \ {t} : masterFd'[u] # g
  <2>1. CASE g = f
    BY <1>3, <1>4, <2>1
  <2>2. CASE g # f
    <3>1. openOn[g] # NoPty
      BY <1>1, <1>6, <2>2 DEF TypeOK
    <3>2. PICK t \in Live : /\ masterFd[t] = g
                            /\ \A u \in Live \ {t} : masterFd[u] # g
      BY <3>1 DEF MastersInv, MastersOwned
    <3>3. QED
      BY <1>3, <1>4, <2>2, <3>2
  <2>3. QED
    BY <2>1, <2>2
<1>7. QED
  BY <1>1, <1>5, <1>6 DEF MastersInv, MastersOwned

\* Closing a session closes its master and no other session's.
LEMMA CloseMasters ==
  ASSUME TypeOK, MastersInv, NEW i \in 0 .. Count - 1, CloseSession(i),
         Live' = Live \ {sessions[i + 1]}
  PROVE  MastersInv'
<1> DEFINE s == sessions[i + 1]
<1>1. s \in Live /\ Live \subseteq SessionId
  BY LiveIsRange
<1>2. /\ openOn' = [f \in Fd |-> IF f = masterFd[s] THEN NoPty ELSE openOn[f]]
      /\ masterFd' = [masterFd EXCEPT ![s] = NoFd]
      /\ Live' = Live \ {s}
  BY DEF CloseSession, DestroySession
<1> HIDE DEF s
<1>3. \A t \in Live' : /\ t \in Live /\ masterFd'[t] = masterFd[t]
                       /\ masterFd[t] \in Fd /\ masterFd[t] # masterFd[s]
                       /\ openOn'[masterFd[t]] = openOn[masterFd[t]]
  <2>1. ASSUME NEW t \in Live' PROVE t \in Live /\ t # s
    BY <1>2
  <2>2. ASSUME NEW t \in Live' PROVE masterFd[t] \in Fd /\ masterFd[t] # masterFd[s]
    BY <1>1, <2>1, MastersDiffer
  <2>3. QED
    BY <1>1, <1>2, <2>1, <2>2 DEF TypeOK
<1>4. LiveMastersOpen'
  BY <1>3, RegistryAssumption DEF LiveMastersOpen, MastersInv
<1>5. ASSUME NEW g \in Fd, openOn'[g] # NoPty
      PROVE  \E t \in Live' : /\ masterFd'[t] = g
                              /\ \A u \in Live' \ {t} : masterFd'[u] # g
  <2>1. g # masterFd[s] /\ openOn[g] # NoPty
    BY <1>2, <1>5
  <2>2. PICK t \in Live : /\ masterFd[t] = g
                          /\ \A u \in Live \ {t} : masterFd[u] # g
    BY <2>1 DEF MastersInv, MastersOwned
  <2>3. QED
    BY <1>2, <1>3, <2>1, <2>2
<1>6. QED
  BY <1>4, <1>5 DEF MastersInv, MastersOwned

\* A failed opening closes nothing that is open.
LEMMA FailMasters ==
  ASSUME TypeOK, CleanGarbage, OpenptyFails \/ ForkFails
  PROVE  openOn' = openOn
<1>1. CASE OpenptyFails
  <2>1. PICK g \in StackGarbage, h \in StackGarbage :
          openOn' = [f \in Fd |-> IF f \in {g, h} THEN NoPty ELSE openOn[f]]
    BY <1>1 DEF OpenptyFails
  <2>2. g \notin Fd /\ h \notin Fd
    BY DEF CleanGarbage
  <2>3. QED
    BY <1>1, <2>1, <2>2 DEF TypeOK, OpenptyFails
<1>2. CASE ForkFails
  BY <1>2 DEF ForkFails
<1>3. QED
  BY <1>1, <1>2

LEMMA IdleMasters ==
  ASSUME MastersInv, UNCHANGED <<sessions, masterFd, openOn>>
  PROVE  MastersInv'
BY DEF MastersInv, MastersOwned, LiveMastersOpen, Live

LEMMA NextMasters ==
  ASSUME RegistryInv, MastersInv, CleanGarbage, [Next]_vars
  PROVE  MastersInv'
<1>0. TypeOK /\ TypeOK'
  BY NextType DEF RegistryInv
<1>1. CASE StartFirstShell
  <2>1. CASE SpawnShell(1) /\ sessions' = <<1>>
    <3>1. 1 \in SessionId /\ Live = {} /\ Live' = {1}
      BY <1>1, <2>1, RegistryAssumption
         DEF StartFirstShell, RegistryInv, NothingBeforeStart, Live, SessionId, ToSet
    <3>2. QED
      BY <1>0, <2>1, <3>1, SpawnMasters
  <2>2. CASE (OpenptyFails \/ ForkFails) /\ UNCHANGED sessions
    BY <1>0, <2>2, FailTables, FailMasters, IdleMasters
  <2>3. QED
    BY <1>1, <2>1, <2>2 DEF StartFirstShell
<1>2. CASE TabNew
  <2>1. nextId \in SessionId /\ nextId' = nextId + 1
    BY <1>0, <1>2 DEF TabNew, TypeOK, SessionId
  <2>2. CASE SpawnShell(nextId) /\ AddSession(nextId)
    <3>1. Live' = Live \cup {nextId} /\ nextId \notin Live
      BY <1>0, <2>1, <2>2, AddLive DEF RegistryInv
    <3>2. QED
      BY <1>0, <2>1, <2>2, <3>1, SpawnMasters
  <2>3. CASE (OpenptyFails \/ ForkFails) /\ UNCHANGED sessions
    BY <1>0, <2>3, FailTables, FailMasters, IdleMasters
  <2>4. QED
    BY <1>2, <2>2, <2>3 DEF TabNew
<1>3. ASSUME NEW i \in 0 .. Count - 1, CloseSession(i), nextId' = nextId
      PROVE  MastersInv'
  BY <1>0, <1>3, CloseLive, CloseMasters DEF RegistryInv
<1>4. CASE TabClose
  <2>1. /\ active \in 0 .. Count - 1 /\ CloseSession(active) /\ nextId' = nextId
        /\ leakedSlave' = leakedSlave
    BY <1>0, <1>4, LiveIsRange DEF TabClose, TypeOK
  <2>2. QED
    BY <1>3, <2>1
<1>5. CASE ReapOne
  <2>1. /\ nextId' = nextId /\ leakedSlave' = leakedSlave
        /\ \/ \E i \in 0 .. Count - 1 : CloseSession(i)
           \/ UNCHANGED <<sessions, masterFd, openOn>>
    BY <1>5 DEF ReapOne
  <2>2. QED
    BY <1>3, <2>1, IdleMasters
<1>6. CASE Shutdown
  <2>1. Live' = {} /\ leakedSlave' = leakedSlave
    BY <1>6 DEF Shutdown, Live, ToSet
  <2>2. ASSUME NEW f \in Fd PROVE openOn'[f] = NoPty
    BY <1>6, <2>2 DEF Shutdown, MastersInv, MastersOwned
  <2>3. QED
    BY <2>1, <2>2 DEF MastersInv, MastersOwned, LiveMastersOpen
<1>7. CASE TabNext \/ TabPrev \/ \E i \in 0 .. MaxSessions - 1 : FocusTab(i)
  BY <1>7, IdleMasters DEF TabNext, TabPrev, FocusTab, Select, kernelVars
<1>8. CASE \E k \in Pid : ShellExits(k)
  BY <1>8, IdleMasters DEF ShellExits, appVars
<1>9. CASE InstallSigchld \/ Quit \/ DrainSigchldPipe \/ ReapDone
  BY <1>9, IdleMasters DEF InstallSigchld, Quit, DrainSigchldPipe, ReapDone,
     kernelVars
<1>10. CASE Halted \/ UNCHANGED vars
  BY <1>10, IdleMasters DEF Halted, vars, appVars, kernelVars
<1>11. QED
  BY <1>1, <1>2, <1>4, <1>5, <1>6, <1>7, <1>8, <1>9, <1>10 DEF Next

LEMMA InitMasters == Init => MastersInv
<1> SUFFICES ASSUME Init PROVE MastersInv
  OBVIOUS
<1>1. Live = {}
  BY DEF Init, Live, ToSet
<1>2. QED
  BY <1>1 DEF Init, MastersInv, MastersOwned, LiveMastersOpen

\* A master descriptor stays open exactly as long as one live tab owns it, if
\* the failure path of pty_init closes nothing by accident.
THEOREM MastersCorrect == CleanGarbage /\ Spec => []MastersOwned
<1>1. CleanGarbage /\ MastersInv /\ RegistryInv /\ [Next]_vars => MastersInv'
  BY NextMasters
<1>2. CleanGarbage => CleanGarbage'
  BY DEF CleanGarbage
<1>3. MastersInv => MastersOwned
  BY DEF MastersInv
<1>4. QED
  BY InitMasters, <1>1, <1>2, <1>3, RegistryCorrect, PTL DEF Spec

-----------------------------------------------------------------------------
(***************************************************************************)
(* Ptys. That an open master has a live tab and that a pty once left open  *)
(* is never used again survive even the closing of a live tab's master by  *)
(* pty_init's failure path, so nothing is assumed here of its garbage, nor *)
(* of fork.                                                                *)
(***************************************************************************)
OpenAreOwned ==
  \A f \in Fd : openOn[f] # NoPty => \E s \in Live : masterFd[s] = f

LeakedUnused ==
  \A p \in leakedSlave :
    /\ \A f \in Fd : openOn[f] # p
    /\ \A k \in Pid : proc[k] = "running" => tty[k] # p

PtyInv == OpenAreOwned /\ LeakedUnused

\* What becomes of the ptys in one step: a free one is taken for a new tab ...
PtyTaken(p) ==
  /\ ~Held(p) /\ leakedSlave' = leakedSlave
  /\ \A f \in Fd : openOn'[f] \in {openOn[f], p}
  /\ \A k \in Pid : proc'[k] = "running" =>
       (proc[k] = "running" /\ tty'[k] = tty[k]) \/ tty'[k] = p

\* ... or a free one is left open by a fork that failed ...
PtyLost(p) ==
  /\ ForkMayFail /\ nextId' = nextId + 1 /\ sessions' = sessions
  /\ ~Held(p) /\ leakedSlave' = leakedSlave \cup {p}
  /\ UNCHANGED <<openOn, proc, tty>>

\* ... or descriptors are closed and shells go.
PtysOnlyFreed ==
  /\ leakedSlave' = leakedSlave
  /\ \A f \in Fd : openOn'[f] \in {openOn[f], NoPty}
  /\ \A k \in Pid : proc'[k] = "running" => proc[k] = "running" /\ tty'[k] = tty[k]

PtyStep == (\E p \in Pty : PtyTaken(p) \/ PtyLost(p)) \/ PtysOnlyFreed

LEMMA SpawnPtys ==
  ASSUME TypeOK, NEW s \in SessionId, SpawnShell(s)
  PROVE  PtyStep
<1>1. PICK p \in Pty, f \in Fd, k \in Pid :
        /\ ~Held(p) /\ leakedSlave' = leakedSlave
        /\ openOn' = [openOn EXCEPT ![f] = p]
        /\ proc' = [proc EXCEPT ![k] = "running"]
        /\ tty' = [tty EXCEPT ![k] = p]
  BY DEF SpawnShell
<1>2. /\ \A g \in Fd : openOn'[g] \in {openOn[g], p}
      /\ \A j \in Pid : proc'[j] = "running" =>
           (proc[j] = "running" /\ tty'[j] = tty[j]) \/ tty'[j] = p
  BY <1>1 DEF TypeOK
<1>3. PtyTaken(p)
  BY <1>1, <1>2 DEF PtyTaken
<1>4. QED
  BY <1>3 DEF PtyStep

LEMMA FailPtys ==
  ASSUME TypeOK, OpenptyFails \/ ForkFails, nextId' = nextId + 1,
         sessions' = sessions
  PROVE  PtyStep
<1>1. CASE OpenptyFails
  BY <1>1 DEF TypeOK, OpenptyFails, PtyStep, PtysOnlyFreed
<1>2. CASE ForkFails
  <2>1. PICK p \in Pty : ~Held(p) /\ leakedSlave' = leakedSlave \cup {p}
    BY <1>2 DEF ForkFails
  <2>2. PtyLost(p)
    BY <1>2, <2>1 DEF ForkFails, PtyLost
  <2>3. QED
    BY <2>2 DEF PtyStep
<1>3. QED
  BY <1>1, <1>2

LEMMA NextPtys ==
  ASSUME RegistryInv, [Next]_vars
  PROVE  PtyStep
<1>0. TypeOK
  BY DEF RegistryInv
<1>1. CASE StartFirstShell
  <2>1. nextId' = nextId + 1 /\ 1 \in SessionId
    BY <1>1, RegistryAssumption
       DEF StartFirstShell, RegistryInv, NothingBeforeStart, SessionId
  <2>2. QED
    BY <1>0, <1>1, <2>1, SpawnPtys, FailPtys DEF StartFirstShell
<1>2. CASE TabNew
  <2>1. nextId' = nextId + 1 /\ nextId \in SessionId
    BY <1>0, <1>2 DEF TabNew, TypeOK, SessionId
  <2>2. QED
    BY <1>0, <1>2, <2>1, SpawnPtys, FailPtys DEF TabNew
<1>3. CASE TabClose
  BY <1>0, <1>3
     DEF TypeOK, TabClose, CloseSession, DestroySession, PtyStep, PtysOnlyFreed
<1>4. CASE ReapOne
  <2>1. /\ leakedSlave' = leakedSlave /\ tty' = tty
        /\ \E k \in Zombies : proc' = [proc EXCEPT ![k] = "none"]
        /\ (\E i \in 0 .. Count - 1 : CloseSession(i)) \/ openOn' = openOn
    BY <1>4 DEF ReapOne
  <2>2. \A f \in Fd : openOn'[f] \in {openOn[f], NoPty}
    BY <2>1 DEF CloseSession, DestroySession
  <2>3. \A k \in Pid : proc'[k] = "running" => proc[k] = "running"
    BY <1>0, <2>1 DEF TypeOK
  <2>4. QED
    BY <2>1, <2>2, <2>3 DEF PtyStep, PtysOnlyFreed
<1>5. CASE \E k \in Pid : ShellExits(k)
  BY <1>0, <1>5 DEF TypeOK, ShellExits, PtyStep, PtysOnlyFreed
<1>6. CASE Shutdown
  BY <1>0, <1>6 DEF TypeOK, Shutdown, PtyStep, PtysOnlyFreed
<1>7. CASE UNCHANGED kernelVars
  BY <1>7 DEF kernelVars, PtyStep, PtysOnlyFreed
<1>8. QED
  BY <1>1, <1>2, <1>3, <1>4, <1>5, <1>6, <1>7
     DEF Next, InstallSigchld, TabNext, TabPrev, FocusTab, Select, Quit,
         DrainSigchldPipe, ReapDone, Halted, vars

\* Descriptors are opened for new tabs alone, and whoever closes the tab of
\* an open descriptor closes the descriptor.
LEMMA NextOwned ==
  ASSUME RegistryInv, OpenAreOwned, [Next]_vars
  PROVE  OpenAreOwned'
<1>0. TypeOK /\ Live \subseteq SessionId
  BY LiveIsRange DEF RegistryInv
<1>1. ASSUME NEW s \in SessionId, s \notin Live, Live' = Live \cup {s},
             SpawnShell(s)
      PROVE  OpenAreOwned'
  <2>1. PICK p \in Pty, f \in Fd :
          /\ openOn' = [openOn EXCEPT ![f] = p]
          /\ masterFd' = [masterFd EXCEPT ![s] = f]
    BY <1>1 DEF SpawnShell
  <2>2. ASSUME NEW g \in Fd, g # f, openOn'[g] # NoPty
        PROVE  \E t \in Live' : masterFd'[t] = g
    <3>1. PICK t \in Live : masterFd[t] = g
      BY <1>0, <2>1, <2>2 DEF TypeOK, OpenAreOwned
    <3>2. QED
      BY <1>0, <1>1, <2>1, <3>1 DEF TypeOK
  <2>3. masterFd'[s] = f
    BY <1>0, <2>1 DEF TypeOK
  <2>4. QED
    BY <1>1, <2>2, <2>3 DEF OpenAreOwned
<1>2. ASSUME OpenptyFails \/ ForkFails, UNCHANGED sessions
      PROVE  OpenAreOwned'
  <2>1. masterFd' = masterFd /\ Live' = Live
    BY <1>0, <1>2, FailTables DEF Live
  <2>2. \A f \in Fd : openOn'[f] \in {openOn[f], NoPty}
    BY <1>0, <1>2 DEF TypeOK, OpenptyFails, ForkFails
  <2>3. QED
    BY <2>1, <2>2 DEF OpenAreOwned
<1>3. ASSUME NEW i \in 0 .. Count - 1, CloseSession(i), nextId' = nextId
      PROVE  OpenAreOwned'
  <2> DEFINE s == sessions[i + 1]
  <2>1. Live' = Live \ {s}
    BY <1>0, <1>3, CloseLive DEF RegistryInv
  <2>2. /\ openOn' = [f \in Fd |-> IF f = masterFd[s] THEN NoPty ELSE openOn[f]]
        /\ masterFd' = [masterFd EXCEPT ![s] = NoFd]
    BY <1>3 DEF CloseSession, DestroySession
  <2> HIDE DEF s
  <2>3. ASSUME NEW g \in Fd, openOn'[g] # NoPty
        PROVE  \E t \in Live' : masterFd'[t] = g
    <3>1. openOn[g] # NoPty /\ g # masterFd[s]
      BY <2>2, <2>3
    <3>2. PICK t \in Live : masterFd[t] = g
      BY <3>1 DEF OpenAreOwned
    <3>3. t # s /\ t \in Live' /\ masterFd'[t] = g
      BY <1>0, <2>1, <2>2, <3>1, <3>2 DEF TypeOK
    <3>4. QED
      BY <3>3
  <2>4. QED
    BY <2>3 DEF OpenAreOwned
<1>4. ASSUME UNCHANGED <<sessions, masterFd, openOn>>
      PROVE  OpenAreOwned'
  BY <1>4 DEF OpenAreOwned, Live
<1>5. CASE StartFirstShell
  <2>1. CASE SpawnShell(1) /\ sessions' = <<1>>
    <3>1. 1 \in SessionId /\ Live = {} /\ Live' = {1}
      BY <1>5, <2>1, RegistryAssumption
         DEF StartFirstShell, RegistryInv, NothingBeforeStart, Live, SessionId, ToSet
    <3>2. QED
      BY <1>1, <2>1, <3>1
  <2>2. QED
    BY <1>2, <1>5, <2>1 DEF StartFirstShell
<1>6. CASE TabNew
  <2>1. nextId \in SessionId /\ nextId' = nextId + 1 /\ TypeOK'
    BY <1>0, <1>6, NextType DEF TabNew, TypeOK, SessionId
  <2>2. CASE SpawnShell(nextId) /\ AddSession(nextId)
    <3>1. Live' = Live \cup {nextId} /\ nextId \notin Live
      BY <1>0, <2>1, <2>2, AddLive DEF RegistryInv
    <3>2. QED
      BY <1>1, <2>1, <2>2, <3>1
  <2>3. QED
    BY <1>2, <1>6, <2>2 DEF TabNew
<1>7. CASE TabClose
  <2>1. active \in 0 .. Count - 1 /\ CloseSession(active) /\ nextId' = nextId
    BY <1>0, <1>7, LiveIsRange DEF TabClose, TypeOK
  <2>2. QED
    BY <1>3, <2>1
<1>8. CASE ReapOne
  <2>1. /\ nextId' = nextId
        /\ \/ \E i \in 0 .. Count - 1 : CloseSession(i)
           \/ UNCHANGED <<sessions, masterFd, openOn>>
    BY <1>8 DEF ReapOne
  <2>2. QED
    BY <1>3, <1>4, <2>1
<1>9. CASE Shutdown
  BY <1>9 DEF Shutdown, OpenAreOwned
<1>10. CASE UNCHANGED <<sessions, masterFd, openOn>>
  BY <1>4, <1>10
<1>11. QED
  BY <1>5, <1>6, <1>7, <1>8, <1>9, <1>10
     DEF Next, InstallSigchld, TabNext, TabPrev, FocusTab, Select, Quit,
         ShellExits, DrainSigchldPipe, ReapDone, Halted, vars, appVars, kernelVars

LEMMA NextPtyInv ==
  ASSUME RegistryInv, PtyInv, [Next]_vars
  PROVE  PtyInv'
<1>1. OpenAreOwned'
  BY NextOwned DEF PtyInv
<1>2. /\ PtyStep /\ LeakedUnused
      /\ \A p \in leakedSlave : p \in Pty /\ p # NoPty
  BY NextPtys, RegistryAssumption DEF PtyInv, RegistryInv, TypeOK
<1> SUFFICES LeakedUnused'
  BY <1>1 DEF PtyInv
<1>3. CASE PtysOnlyFreed
  BY <1>2, <1>3 DEF LeakedUnused, PtysOnlyFreed
<1>4. CASE \E p \in Pty : PtyTaken(p)
  BY <1>2, <1>4 DEF LeakedUnused, PtyTaken, Held
<1>5. CASE \E p \in Pty : PtyLost(p)
  BY <1>2, <1>5 DEF LeakedUnused, PtyLost, Held
<1>6. QED
  BY <1>2, <1>3, <1>4, <1>5 DEF PtyStep

\* Pinned are exactly the ptys whose slave was left open.
PinnedAreLeaked == \A p \in Pty : Pinned(p) <=> p \in leakedSlave

LEMMA PinnedByLeak == RegistryInv /\ PtyInv => PinnedAreLeaked
<1> SUFFICES ASSUME TypeOK, PtyInv, NEW p \in Pty
             PROVE  Pinned(p) <=> p \in leakedSlave
  BY DEF RegistryInv, PinnedAreLeaked
<1>0. p # NoPty /\ OpenAreOwned /\ LeakedUnused
  BY RegistryAssumption DEF PtyInv
<1>1. ASSUME NEW f \in Fd, openOn[f] = p PROVE InUse(p)
  <2>1. PICK s \in Live : masterFd[s] = f
    BY <1>0, <1>1 DEF OpenAreOwned
  <2>2. masterFd[s] # NoFd /\ openOn[masterFd[s]] = p
    BY <1>1, <2>1, RegistryAssumption
  <2>3. QED
    BY <2>2 DEF InUse
<1>2. ASSUME p \in leakedSlave PROVE ~InUse(p)
  <2>1. \A s \in Live : masterFd[s] # NoFd => masterFd[s] \in Fd
    BY LiveIsRange DEF TypeOK
  <2>2. QED
    BY <1>0, <1>2, <2>1 DEF LeakedUnused, InUse
<1>3. Held(p) => InUse(p) \/ p \in leakedSlave
  BY <1>1 DEF Held, InUse
<1>4. p \in leakedSlave => Held(p)
  BY DEF Held
<1>5. QED
  BY <1>2, <1>3, <1>4 DEF Pinned

\* Of the device's eight pairs none is pinned by a tab that was opened, however
\* tabs and shells come and go; a failed fork pins one, and nothing else does.
THEOREM PtysCorrect == Spec => PtysReleased
<1>1. Init => PtyInv
  BY DEF Init, PtyInv, OpenAreOwned, LeakedUnused
<1>2. RegistryInv /\ PtyInv /\ [Next]_vars => PtyInv'
  BY NextPtyInv
<1>3. RegistryInv /\ PinnedAreLeaked /\ PinnedAreLeaked' /\ [Next]_vars =>
        \A p \in Pty : GetsPinned(p) =>
          /\ ForkMayFail /\ nextId' = nextId + 1 /\ sessions' = sessions
          /\ \A q \in Pty : GetsPinned(q) => q = p
  <2> SUFFICES ASSUME RegistryInv, PinnedAreLeaked, PinnedAreLeaked', [Next]_vars,
                      NEW p \in Pty, GetsPinned(p)
               PROVE  /\ ForkMayFail /\ nextId' = nextId + 1 /\ sessions' = sessions
                      /\ \A q \in Pty : GetsPinned(q) => q = p
    OBVIOUS
  <2>1. \A q \in Pty : GetsPinned(q) => q \in leakedSlave' \ leakedSlave
    BY DEF PinnedAreLeaked, GetsPinned
  <2>2. PICK r \in Pty : PtyLost(r)
    BY <2>1, NextPtys DEF PtyStep, PtyTaken, PtysOnlyFreed
  <2>3. QED
    BY <2>1, <2>2 DEF PtyLost
<1>4. QED
  BY <1>1, <1>2, <1>3, PinnedByLeak, RegistryCorrect, PTL DEF Spec, PtysReleased

-----------------------------------------------------------------------------
(***************************************************************************)
(* The registry implements TabSet: every step is one of its steps, on the  *)
(* set of live ids and the id under the active index, or changes neither.  *)
(***************************************************************************)

\* What the vector says of the set of its elements.
LEMMA VectorAndSet ==
  ASSUME NEW S, NEW seq \in Seq(S)
  PROVE  /\ ToSet(seq) = {} <=> Len(seq) = 0
         /\ \A a \in Nat : a < Len(seq) => seq[a + 1] \in ToSet(seq)
         /\ Cardinality(ToSet(seq)) <= Len(seq)
<1>1. /\ Len(seq) \in Nat
      /\ ToSet(seq) = {seq[j] : j \in 1 .. Len(seq)}
  BY ToSetIsRange
<1>2. ToSet(seq) = {} <=> Len(seq) = 0
  <2>1. CASE Len(seq) = 0
    <3>1. 1 .. Len(seq) = {}
      BY <2>1
    <3>2. QED
      BY <1>1, <2>1, <3>1
  <2>2. CASE Len(seq) # 0
    <3>1. 1 \in 1 .. Len(seq)
      BY <1>1, <2>2
    <3>2. QED
      BY <1>1, <2>2, <3>1
  <2>3. QED
    BY <2>1, <2>2
<1>3. ASSUME NEW a \in Nat, a < Len(seq) PROVE seq[a + 1] \in ToSet(seq)
  <2>1. a + 1 \in 1 .. Len(seq)
    BY <1>1, <1>3
  <2>2. QED
    BY <1>1, <2>1
<1>4. Cardinality(ToSet(seq)) <= Len(seq)
  <2>1. seq \in Surjection(1 .. Len(seq), ToSet(seq))
    <3>1. seq \in [1 .. Len(seq) -> ToSet(seq)]
      BY <1>1, LenProperties
    <3>2. \A y \in ToSet(seq) : \E j \in 1 .. Len(seq) : seq[j] = y
      BY <1>1
    <3>3. QED
      BY <3>1, <3>2 DEF Surjection
  <2>2. ExistsSurjection(1 .. Len(seq), ToSet(seq))
    BY <2>1 DEF ExistsSurjection
  <2>3. QED
    BY <1>1, <2>2, FS_SurjCardinalityBound
<1>5. QED
  BY <1>2, <1>3, <1>4

LEMMA TabsOfVector ==
  ASSUME TypeOK
  PROVE  /\ Live = {} <=> Count = 0
         /\ FocusedTab \in (IF Live = {} THEN {NoSession} ELSE Live)
         /\ Cardinality(Live) <= Count
<1>1. sessions \in Seq(SessionId) /\ active \in Nat
      /\ (active < Count \/ Count = 0)
  BY DEF TypeOK
<1>2. QED
  BY <1>1, VectorAndSet DEF Live, Count, FocusedTab

LEMMA TabsOfVectorNext ==
  ASSUME TypeOK'
  PROVE  /\ Live' = {} <=> Count' = 0
         /\ FocusedTab' \in (IF Live' = {} THEN {NoSession} ELSE Live')
<1>1. sessions' \in Seq(SessionId) /\ active' \in Nat
      /\ (active' < Count' \/ Count' = 0)
  BY DEF TypeOK
<1>2. QED
  BY <1>1, VectorAndSet DEF Live, Count, FocusedTab

\* A session that starts with a shell: the abstract tab is opened.
LEMMA OpensTab ==
  ASSUME TypeOK, TypeOK', nextId \in Nat, Count < MaxSessions, pc # "halt",
         pc' # "halt", AddSession(nextId), nextId' = nextId + 1,
         Live' = Live \cup {nextId}, exitApplication' = exitApplication
  PROVE  Tabs!OpenTab
<1>1. /\ Count \in Nat /\ Count' = Count + 1 /\ sessions'[Count + 1] = nextId
  BY LenProperties DEF TypeOK, Count, AddSession
<1>2. FocusedTab' = nextId
  BY <1>1 DEF FocusedTab, AddSession
<1>3. Cardinality(Live) < MaxSessions
  <2>1. Cardinality(Live) <= Count /\ Live \subseteq 1 .. MaxId
    BY TabsOfVector, LiveIsRange DEF SessionId
  <2>2. Cardinality(Live) \in Nat
    <3>1. IsFiniteSet(1 .. MaxId)
      BY FS_Interval, RegistryAssumption
    <3>2. IsFiniteSet(Live)
      BY <2>1, <3>1, FS_Subset
    <3>3. QED
      BY <3>2, FS_CardinalityType
  <2>3. QED
    BY <1>1, <2>1, <2>2, RegistryAssumption
<1>4. /\ nextId' - 1 = (nextId - 1) + 1
      /\ Live' = Live \cup {(nextId - 1) + 1}
      /\ FocusedTab' = (nextId - 1) + 1
  BY <1>2
<1>5. (pc' = "halt") = (pc = "halt")
  OBVIOUS
<1>6. QED
  <2>1. Tabs!Cardinality(Live) = Cardinality(Live)
    BY DEF Tabs!Cardinality, Cardinality
  <2>2. QED
    BY <1>3, <1>4, <1>5, <2>1 DEF Tabs!OpenTab

\* A session that is rolled back: the id is used up, no tab is gained.
LEMMA FailsToOpen ==
  ASSUME TypeOK, TypeOK', nextId \in Nat, pc # "halt", UNCHANGED sessions,
         nextId' = nextId + 1, exitApplication' = exitApplication,
         pc' # "halt" \/ Live = {}
  PROVE  Tabs!OpenFails
<1>1. Live' = Live
  BY DEF Live
<1>2. FocusedTab' \in (IF Live = {} THEN {0} ELSE Live)
  BY <1>1, TabsOfVectorNext DEF NoSession
<1>3. (pc' = "halt") \in (IF Live = {} THEN BOOLEAN ELSE {FALSE})
  OBVIOUS
<1>4. nextId' - 1 = (nextId - 1) + 1
  OBVIOUS
<1>5. QED
  BY <1>1, <1>2, <1>3, <1>4 DEF Tabs!OpenFails

\* The compaction, the clamped index and the last tab's exit: one tab goes.
LEMMA ClosesTab ==
  ASSUME TypeOK, TypeOK', NEW i \in 0 .. Count - 1, CloseSession(i), pc # "halt",
         pc' = pc, nextId' = nextId, Live' = Live \ {sessions[i + 1]}
  PROVE  Tabs!CloseTab
<1>1. sessions[i + 1] \in Live
  BY LiveIsRange
<1>2. FocusedTab' \in (IF Live' = {} THEN {0} ELSE Live')
  BY TabsOfVectorNext DEF NoSession
<1>3. exitApplication' = (exitApplication \/ Live' = {})
  <2>1. Live' = {} <=> Count = 1
    BY TabsOfVectorNext, CloseVector, LiveIsRange
  <2>2. exitApplication' = (exitApplication \/ Count = 1)
    BY DEF CloseSession, NoneWillBeLeft
  <2>3. QED
    BY <2>1, <2>2
<1>4. QED
  BY <1>1, <1>2, <1>3 DEF Tabs!CloseTab

\* A step that changes neither the vector nor what hangs on it.
LEMMA TabsIdle ==
  ASSUME UNCHANGED <<sessions, active, nextId, exitApplication>>,
         (pc = "halt") = (pc' = "halt")
  PROVE  UNCHANGED Tabs!tabVars
BY DEF Tabs!tabVars, Live, FocusedTab, Count

LEMMA InitTabs == Init => Tabs!TabSetInit
BY DEF Init, Tabs!TabSetInit, Live, FocusedTab, Count, ToSet, NoSession

LEMMA NextTabs ==
  ASSUME RegistryInv, [Next]_vars
  PROVE  [Tabs!TabSetNext]_(Tabs!tabVars)
<1>0. /\ TypeOK /\ TypeOK' /\ Count \in Nat /\ nextId \in Nat
      /\ RegistryInv'
  BY NextType, NextInv, LiveIsRange DEF RegistryInv, TypeOK
<1>1. CASE StartFirstShell
  <2>1. /\ sessions = <<>> /\ nextId = 1 /\ nextId' = 2 /\ active' = 0
        /\ pc = "start" /\ exitApplication' = exitApplication
    BY <1>1 DEF StartFirstShell, RegistryInv, NothingBeforeStart
  <2>2. Live = {} /\ Count = 0
    BY <2>1 DEF Live, Count, ToSet
  <2>3. CASE sessions' = <<1>> /\ pc' = "spawned"
    <3>1. AddSession(nextId) /\ Live' = Live \cup {nextId}
      BY <2>1, <2>2, <2>3 DEF AddSession, Live, ToSet, Count
    <3>2. QED
      BY <1>0, <2>1, <2>2, <2>3, <3>1, OpensTab, RegistryAssumption
         DEF Tabs!TabSetNext
  <2>4. CASE UNCHANGED sessions /\ pc' = "halt"
    BY <1>0, <2>1, <2>2, <2>4, FailsToOpen DEF Tabs!TabSetNext
  <2>5. QED
    BY <1>1, <2>3, <2>4 DEF StartFirstShell
<1>2. CASE TabNew
  <2>1. /\ nextId \in SessionId /\ nextId' = nextId + 1 /\ Count < MaxSessions
        /\ pc = "loop" /\ pc' = pc /\ exitApplication' = exitApplication
    BY <1>0, <1>2 DEF TabNew, TypeOK, SessionId, Looping
  <2>2. CASE AddSession(nextId)
    <3>1. Live' = Live \cup {nextId}
      BY <1>0, <2>1, <2>2, AddLive DEF RegistryInv
    <3>2. QED
      BY <1>0, <2>1, <2>2, <3>1, OpensTab DEF Tabs!TabSetNext
  <2>3. CASE UNCHANGED sessions
    BY <1>0, <2>1, <2>3, FailsToOpen DEF Tabs!TabSetNext
  <2>4. QED
    BY <1>2, <2>2, <2>3 DEF TabNew
<1>3. ASSUME NEW i \in 0 .. Count - 1, CloseSession(i), nextId' = nextId,
             pc' = pc, pc # "halt"
      PROVE  Tabs!CloseTab
  <2>1. Live' = Live \ {sessions[i + 1]}
    BY <1>0, <1>3, CloseLive DEF RegistryInv
  <2>2. QED
    BY <1>0, <1>3, <2>1, ClosesTab
<1>4. CASE TabClose
  <2>1. /\ active \in 0 .. Count - 1 /\ CloseSession(active) /\ nextId' = nextId
        /\ pc' = pc /\ pc # "halt"
    BY <1>0, <1>4 DEF TabClose, TypeOK, Looping
  <2>2. QED
    BY <1>3, <2>1 DEF Tabs!TabSetNext
<1>5. CASE ReapOne
  <2>1. /\ nextId' = nextId /\ pc' = pc /\ pc # "halt"
        /\ \/ \E i \in 0 .. Count - 1 : CloseSession(i)
           \/ UNCHANGED <<sessions, active, exitApplication>>
    BY <1>5 DEF ReapOne
  <2>2. QED
    BY <1>3, <2>1, TabsIdle DEF Tabs!TabSetNext
<1>6. CASE TabNext \/ TabPrev \/ \E i \in 0 .. MaxSessions - 1 : FocusTab(i)
  <2>1. PICK i \in Int : Select(i) /\ Looping /\ Count > 0
    BY <1>0, <1>6, RegistryAssumption DEF TabNext, TabPrev, FocusTab, TypeOK
  <2>2. Live' = Live /\ Count' = Count
    BY <2>1 DEF Select, Live, Count
  <2>3. FocusedTab' \in Live
    BY <1>0, <2>1, <2>2, TabsOfVector, TabsOfVectorNext
  <2>4. QED
    BY <2>1, <2>2, <2>3 DEF Select, Looping, Tabs!TabSetNext, Tabs!FocusOn
<1>7. CASE Quit
  BY <1>7 DEF Quit, Looping, Tabs!TabSetNext, Tabs!AskToQuit, Live, FocusedTab, Count
<1>8. CASE Shutdown
  <2>1. Live' = {} /\ Count' = 0 /\ pc = "loop" /\ pc' = "halt"
    BY <1>8 DEF Shutdown, Live, Count, ToSet, Looping
  <2>2. QED
    BY <1>8, <2>1 DEF Shutdown, FocusedTab, Tabs!TabSetNext, Tabs!End, NoSession
<1>9. CASE \E k \in Pid : ShellExits(k)
  BY <1>9, TabsIdle DEF ShellExits, appVars
<1>10. CASE InstallSigchld \/ DrainSigchldPipe \/ ReapDone
  BY <1>10, TabsIdle DEF InstallSigchld, DrainSigchldPipe, ReapDone, Looping
<1>11. CASE Halted \/ UNCHANGED vars
  BY <1>11, TabsIdle DEF Halted, vars, appVars
<1>12. QED
  BY <1>1, <1>2, <1>4, <1>5, <1>6, <1>7, <1>8, <1>9, <1>10, <1>11 DEF Next

\* The dense vector with its clamped index, its roll-backs and its compaction
\* behaves as a set of tabs, one with the focus, that ends only when it was
\* asked to or ran empty.
THEOREM RegistryRefinesTabSet == Spec => ImplementsTabSet
<1>1. RegistryInv /\ [Next]_vars => [Tabs!TabSetNext]_(Tabs!tabVars)
  BY NextTabs
<1>2. QED
  BY InitTabs, <1>1, RegistryCorrect, PTL DEF Spec, ImplementsTabSet, Tabs!TabSetSpec
=============================================================================
