------------------------ MODULE ControlSocketProofs ------------------------
(***************************************************************************)
(* What holds of the control socket for any number of slots, connections,  *)
(* descriptors, lines and places in the ring.                              *)
(*                                                                         *)
(* ControlInv is inductive. That a reply goes to who asked rests on three  *)
(* facts: connection ids are given once (IdsGivenOnce), so a slot with the *)
(* id that a deferred eval remembers still has the connection that issued  *)
(* it (PendingKnown), and an id that waits in the ring has not been        *)
(* answered (RepliedKnown).                                                *)
(***************************************************************************)
EXTENDS ControlSocket, SequenceTheorems, WellFoundedInduction, TLAPS

Taken(s)  == clients[s].fd # NoFd
Entry(i)  == ring[(head + i) % DeferMax]
Waiting   == 0 .. count - 1

\* Connections are accepted once, and no more are made than the model allows.
AcceptedBound == nextConn + Len(backlog) <= made + 1

\* No line ends before it was sent.
UnitsBound == \A c \in Conn : lineNo[c] + Len(incoming[c]) <= sent[c]

\* A handler runs for a slot that is taken.
ReadsTaken == phase = "read" => Taken(cur)

IdsGivenOnce ==
  /\ \A s \in Slot : Taken(s) => clients[s].connId \in 1 .. nextConn - 1
  /\ \A s, t \in Slot :
       Taken(s) /\ Taken(t) /\ clients[s].connId = clients[t].connId => s = t

\* What waits in the ring: requests of connections that have been accepted,
\* each once, whose slot is still theirs if it has the connection id.
PendingKnown ==
  /\ \A i \in Waiting :
       /\ Entry(i).id \in 1 .. Len(issued) /\ Entry(i).connId \in 1 .. nextConn - 1
       /\ Entry(i).fd \in Fd
       /\ \A s \in Slot : Taken(s) /\ clients[s].connId = Entry(i).connId
            => peer[clients[s].fd] = issued[Entry(i).id].by
  /\ \A i, j \in Waiting : Entry(i).id = Entry(j).id => i = j

\* What has been answered was asked, and does not wait any more.
RepliedKnown ==
  \A c \in Conn : \A i \in 1 .. Len(replies[c]) :
    /\ replies[c][i].id \in 1 .. Len(issued)
    /\ \A j \in Waiting : Entry(j).id # replies[c][i].id

Bounds == AcceptedBound /\ UnitsBound /\ ReadsTaken

ControlInv ==
  TypeOK /\ Bounds /\ SlotsOwnDescriptors /\ IdsGivenOnce /\ PendingKnown /\ RepliedKnown
    /\ RepliesToIssuer

-----------------------------------------------------------------------------
(* Numbers                                                                 *)

\* Any set of naturals that has a member has a least one.
LEMMA LeastExists ==
  ASSUME NEW S \in SUBSET Nat, S # {}
  PROVE  \E m \in S : \A n \in S : m <= n
<1> DEFINE R == {ss \in Nat \X Nat : ss[1] < ss[2]}
<1>1. IsWellFoundedOn(R, Nat)
  BY NatLessThanWellFounded DEF OpToRel
<1>2. \E m \in S : \A n \in S : ~(<<n, m>> \in R)
  <2> HIDE DEF R
  <2> QED
    BY <1>1, WFMin
<1>3. PICK m \in S : \A n \in S : ~(<<n, m>> \in R)
  BY <1>2
<1>4. ASSUME NEW n \in S PROVE m <= n
  <2>1. m \in Nat /\ n \in Nat /\ <<n, m>> \in Nat \X Nat
    OBVIOUS
  <2>2. ~(n < m)
    BY <1>3, <2>1
  <2> QED
    BY <2>1, <2>2
<1> QED
  BY <1>4

LEMMA WiderSeq ==
  ASSUME NEW S, NEW T, S \subseteq T, NEW q \in Seq(S)
  PROVE  q \in Seq(T)
<1>1. Len(q) \in Nat /\ DOMAIN q = 1 .. Len(q) /\ \A i \in 1 .. Len(q) : q[i] \in T
  OBVIOUS
<1> QED
  BY <1>1

\* Once around the ring is where one began.
LEMMA AroundRing ==
  ASSUME NEW d \in Nat \ {0}, NEW x \in 0 .. 2 * d - 1
  PROVE  /\ x % d \in 0 .. d - 1
         /\ x < d => x % d = x
         /\ x >= d => x % d = x - d
<1>1. x % d \in 0 .. d - 1
  BY Z3
<1>2. x < d => x % d = x
  BY Z3
<1>3. x >= d => x % d = x - d
  BY Z3
<1> QED
  BY <1>1, <1>2, <1>3

\* Places in the ring that are less than its length apart differ, and the
\* places behind the next head are the places behind this one but the first.
LEMMA PlacesInRing ==
  ASSUME NEW d \in Nat \ {0}, NEW h \in 0 .. d - 1
  PROVE  /\ \A i \in 0 .. d : (h + i) % d \in 0 .. d - 1
         /\ \A i, j \in 0 .. d - 1 : (h + i) % d = (h + j) % d => i = j
         /\ \A i \in 0 .. d - 1 : (((h + 1) % d) + i) % d = (h + (i + 1)) % d
<1>1. ASSUME NEW i \in 0 .. d
      PROVE  /\ (h + i) % d \in 0 .. d - 1
             /\ h + i < d => (h + i) % d = h + i
             /\ h + i >= d => (h + i) % d = h + i - d
  <2> DEFINE x == h + i
  <2>1. x \in 0 .. 2 * d - 1
    OBVIOUS
  <2>2. x % d \in 0 .. d - 1 /\ (x < d => x % d = x) /\ (x >= d => x % d = x - d)
    <3> HIDE DEF x
    <3> QED
      BY <2>1, AroundRing
  <2> QED
    BY <2>2
<1>2. ASSUME NEW i \in 0 .. d - 1, NEW j \in 0 .. d - 1, (h + i) % d = (h + j) % d
      PROVE  i = j
  BY <1>1, <1>2
<1>3. ASSUME NEW i \in 0 .. d - 1
      PROVE  (((h + 1) % d) + i) % d = (h + (i + 1)) % d
  <2>1. (h + 1) % d = IF h + 1 < d THEN h + 1 ELSE 0
    BY <1>1
  <2>2. CASE h + 1 < d
    BY <2>1, <2>2
  <2>3. CASE h + 1 = d
    <3>1. (h + (i + 1)) % d = i
      BY <1>1, <2>3
    <3>2. i % d = i
      BY AroundRing
    <3> QED
      BY <2>1, <2>3, <3>1, <3>2
  <2> QED
    BY <2>2, <2>3
<1> QED
  BY <1>1, <1>2, <1>3

-----------------------------------------------------------------------------
(* What the steps are built from                                           *)

\* A slot that is taken owns an open descriptor, alone.
LEMMA TakenSlot ==
  ASSUME TypeOK, SlotsOwnDescriptors, NEW s \in Slot, Taken(s)
  PROVE  /\ clients[s].fd \in Fd /\ peer[clients[s].fd] \in Conn
         /\ watched[clients[s].fd] = s
         /\ \A t \in Slot : clients[t].fd = clients[s].fd => t = s
<1>1. clients[s].fd \in Fd
  BY DEF TypeOK, Taken
<1> DEFINE f == clients[s].fd
           owners == {t \in Slot : clients[t].fd = f}
<1>2. IF peer[f] = NoConn THEN owners = {} /\ watched[f] = NoSlot ELSE owners = {watched[f]}
  BY <1>1 DEF SlotsOwnDescriptors
<1>3. s \in owners
  OBVIOUS
<1>4. peer[f] # NoConn /\ owners = {watched[f]}
  BY <1>2, <1>3
<1>5. peer[f] \in Conn
  BY <1>1, <1>4 DEF TypeOK
<1> QED
  BY <1>1, <1>3, <1>4, <1>5

\* A request gets an id that none has had.
LEMMA TakeIdAdds ==
  ASSUME TypeOK, NEW c \in Conn, TakeId(c)
  PROVE  /\ issued' \in Seq([by : Conn, line : 1 .. MaxSent + 1])
         /\ Len(issued') = Len(issued) + 1 /\ nextReq' = Len(issued') + 1
         /\ nextReq = Len(issued') /\ issued'[nextReq].by = c
         /\ \A n \in 1 .. Len(issued) : issued'[n] = issued[n]
<1> DEFINE new == [by |-> c, line |-> lineNo[c] + 1]
<1>1. new \in [by : Conn, line : 1 .. MaxSent + 1]
  <2>1. lineNo[c] \in 0 .. MaxSent /\ MaxSent \in Nat
    BY ControlAssumption DEF TypeOK
  <2> QED
    BY <2>1
<1>2. issued \in Seq([by : Conn, line : 1 .. MaxSent + 1]) /\ nextReq = Len(issued) + 1
  BY DEF TypeOK
<1>3. issued' = Append(issued, new) /\ nextReq' = nextReq + 1
  BY DEF TakeId
<1>4. new.by = c
  OBVIOUS
<1> HIDE DEF new
<1> QED
  BY <1>1, <1>2, <1>3, <1>4

\* A reply adds at most one frame, with its id, to one connection.
LEMMA ReplyAdds ==
  ASSUME TypeOK, NEW f \in Fd, peer[f] \in Conn, NEW id \in Nat \ {0}, Reply(f, id)
  PROVE  /\ replies' \in [Conn -> Seq(Frame)]
         /\ \A c \in Conn \ {peer[f]} : replies'[c] = replies[c]
         /\ \/ replies'[peer[f]] = replies[peer[f]]
            \/ /\ Len(replies'[peer[f]]) = Len(replies[peer[f]]) + 1
               /\ replies'[peer[f]][Len(replies[peer[f]]) + 1].id = id
               /\ \A i \in 1 .. Len(replies[peer[f]]) :
                    replies'[peer[f]][i] = replies[peer[f]][i]
<1> DEFINE p == peer[f]
<1>1. replies \in [Conn -> Seq(Frame)] /\ p \in Conn
  BY DEF TypeOK
<1>2. CASE replies' = replies
  BY <1>1, <1>2
<1>3. ASSUME NEW whole \in BOOLEAN,
             replies' = [replies EXCEPT ![p] = Append(@, [id |-> id, whole |-> whole])]
      PROVE  /\ replies' \in [Conn -> Seq(Frame)]
             /\ \A c \in Conn \ {p} : replies'[c] = replies[c]
             /\ Len(replies'[p]) = Len(replies[p]) + 1
             /\ replies'[p][Len(replies[p]) + 1].id = id
             /\ \A i \in 1 .. Len(replies[p]) : replies'[p][i] = replies[p][i]
  <2> DEFINE new == [id |-> id, whole |-> whole]
  <2>1. new \in Frame /\ new.id = id
    BY DEF Frame
  <2> HIDE DEF new
  <2>2. replies[p] \in Seq(Frame)
    BY <1>1
  <2>3. replies'[p] = Append(replies[p], new) /\ \A c \in Conn \ {p} : replies'[c] = replies[c]
    BY <1>1, <1>3 DEF new
  <2>4. Append(replies[p], new) \in Seq(Frame)
    BY <2>1, <2>2
  <2>5. replies' \in [Conn -> Seq(Frame)]
    BY <1>1, <1>3, <2>4 DEF new
  <2> QED
    BY <2>1, <2>2, <2>3, <2>5
<1>4. \/ replies' = replies
      \/ \E whole \in BOOLEAN :
           replies' = [replies EXCEPT ![p] = Append(@, [id |-> id, whole |-> whole])]
  BY DEF Reply
<1> QED
  BY <1>2, <1>3, <1>4

-----------------------------------------------------------------------------
(* Steps that leave the connections and the requests alone                 *)

Relations == SlotsOwnDescriptors /\ IdsGivenOnce /\ PendingKnown /\ RepliedKnown /\ RepliesToIssuer

\* Nothing of what the relations are about changes.
LEMMA QuietStep ==
  ASSUME ControlInv,
         UNCHANGED <<clients, peer, watched, nextConn, ring, head, count, issued, replies>>
  PROVE  Relations'
<1>1. /\ \A i : Entry(i)' = Entry(i)
      /\ Waiting' = Waiting /\ \A s : Taken(s)' = Taken(s)
  BY DEF Entry, Waiting, Taken
<1>2. SlotsOwnDescriptors'
  BY DEF ControlInv, SlotsOwnDescriptors
<1>3. IdsGivenOnce'
  BY <1>1 DEF ControlInv, IdsGivenOnce
<1>4. PendingKnown'
  BY <1>1 DEF ControlInv, PendingKnown
<1>5. RepliedKnown'
  BY <1>1 DEF ControlInv, RepliedKnown
<1>6. RepliesToIssuer'
  BY DEF ControlInv, RepliesToIssuer
<1> QED
  BY <1>2, <1>3, <1>4, <1>5, <1>6 DEF Relations

LEMMA ConnectKeeps ==
  ASSUME ControlInv, Connect
  PROVE  ControlInv'
<1>1. Relations'
  BY QuietStep DEF Connect, serverVars, ringVars, replyVars, clientVars
<1>2. made + 1 \in Conn /\ backlog \in Seq(Conn) /\ made' = made + 1
      /\ backlog' = Append(backlog, made + 1) /\ made' \in 0 .. MaxConn
  BY ControlAssumption DEF Connect, ControlInv, TypeOK, Conn
<1>3. backlog' \in Seq(Conn) /\ Len(backlog') = Len(backlog) + 1
  BY <1>2
<1>4. TypeOK'
  BY <1>2, <1>3 DEF Connect, ringVars, replyVars, ControlInv, TypeOK
<1>5. Bounds'
  BY <1>2, <1>3 DEF Connect, ringVars, replyVars, ControlInv, TypeOK, Bounds, AcceptedBound,
       UnitsBound, ReadsTaken, Taken
<1> QED
  BY <1>1, <1>4, <1>5 DEF ControlInv, Relations

LEMMA SendKeeps ==
  ASSUME ControlInv, NEW c \in Conn, Send(c)
  PROVE  ControlInv'
<1>1. Relations'
  BY QuietStep DEF Send, serverVars, ringVars, replyVars
<1>2. PICK u \in Lines \cup {"part"} : incoming' = [incoming EXCEPT ![c] = Append(@, u)]
  BY DEF Send
<1>3. incoming \in [Conn -> Seq(Lines \cup {"part"})] /\ incoming[c] \in Seq(Lines \cup {"part"})
  BY DEF ControlInv, TypeOK
<1>4. Append(incoming[c], u) \in Seq(Lines \cup {"part"})
      /\ Len(Append(incoming[c], u)) = Len(incoming[c]) + 1
  BY <1>3
<1>5. incoming' \in [Conn -> Seq(Lines \cup {"part"})]
      /\ \A d \in Conn : Len(incoming'[d]) = Len(incoming[d]) + IF d = c THEN 1 ELSE 0
  BY <1>2, <1>3, <1>4
<1>6. sent \in [Conn -> 0 .. MaxSent] /\ sent' = [sent EXCEPT ![c] = @ + 1] /\ sent[c] < MaxSent
  BY DEF Send, ControlInv, TypeOK
<1>7. sent' \in [Conn -> 0 .. MaxSent]
      /\ \A d \in Conn : sent'[d] = sent[d] + IF d = c THEN 1 ELSE 0
  BY <1>6, ControlAssumption
<1>8. TypeOK'
  BY <1>5, <1>7 DEF Send, ringVars, replyVars, serverVars, ControlInv, TypeOK
<1>9. UnitsBound'
  <2>1. ASSUME NEW d \in Conn PROVE (lineNo[d] + Len(incoming[d]) <= sent[d])'
    <3>1. lineNo[d] \in Nat /\ Len(incoming[d]) \in Nat /\ sent[d] \in Nat /\ lineNo' = lineNo
          /\ lineNo[d] + Len(incoming[d]) <= sent[d]
      BY ControlAssumption DEF ControlInv, TypeOK, Bounds, UnitsBound, Send
    <3>2. CASE d = c
      <4>1. Len(incoming'[d]) = Len(incoming[d]) + 1 /\ sent'[d] = sent[d] + 1
        BY <3>2, <1>5, <1>7
      <4> QED
        BY <3>1, <4>1
    <3>3. CASE d # c
      <4>1. Len(incoming'[d]) = Len(incoming[d]) + 0 /\ sent'[d] = sent[d] + 0
        BY <3>3, <1>5, <1>7
      <4> QED
        BY <3>1, <4>1
    <3> QED
      BY <3>2, <3>3
  <2> QED
    BY <2>1 DEF UnitsBound
<1>10. Bounds'
  BY <1>9 DEF Send, ringVars, replyVars, serverVars, ControlInv, Bounds, AcceptedBound,
       ReadsTaken, Taken
<1> QED
  BY <1>1, <1>8, <1>10 DEF ControlInv, Relations

LEMMA HangUpKeeps ==
  ASSUME ControlInv, NEW c \in Conn, HangUp(c)
  PROVE  ControlInv'
<1>1. Relations'
  BY QuietStep DEF HangUp, serverVars, ringVars, replyVars
<1>2. TypeOK'
  BY DEF HangUp, ringVars, replyVars, serverVars, ControlInv, TypeOK
<1>3. Bounds'
  BY DEF HangUp, serverVars, ControlInv, Bounds, AcceptedBound, UnitsBound, ReadsTaken, Taken
<1> QED
  BY <1>1, <1>2, <1>3 DEF ControlInv, Relations

\* The pump enters a handler or a drain, or comes back from it.
LEMMA PhaseKeeps ==
  ASSUME ControlInv,
         StartAccept \/ AcceptDone \/ (\E s \in Slot : StartRead(s)) \/ ReadDone
           \/ StartDrain \/ DrainDone
  PROVE  ControlInv'
<1>1. UNCHANGED <<ringVars, clientVars, serverVars, replyVars, incoming, lineNo>>
  BY DEF StartAccept, AcceptDone, StartRead, ReadDone, StartDrain, DrainDone
<1>2. /\ phase' \in {"pump", "accept", "read", "drain", "halt"}
      /\ cur' \in Slot \cup {NoSlot} /\ (phase' = "read" <=> cur' # NoSlot)
      /\ phase' = "read" => Taken(cur')
  <2>1. CASE \E s \in Slot : StartRead(s)
    BY <2>1 DEF StartRead, Readable, Taken, NoSlot, Slot
  <2>2. CASE ~\E s \in Slot : StartRead(s)
    BY <2>2 DEF StartAccept, AcceptDone, ReadDone, StartDrain, DrainDone, ControlInv, TypeOK, NoSlot
  <2> QED
    BY <2>1, <2>2
<1>3. Relations'
  BY <1>1, QuietStep DEF serverVars, ringVars, replyVars
<1>4. TypeOK'
  BY <1>1, <1>2 DEF ringVars, clientVars, replyVars, serverVars, ControlInv, TypeOK
<1>5. Bounds'
  BY <1>1, <1>2 DEF clientVars, serverVars, ControlInv, Bounds, AcceptedBound, UnitsBound,
       ReadsTaken, Taken
<1> QED
  BY <1>3, <1>4, <1>5 DEF ControlInv, Relations

-----------------------------------------------------------------------------
(* A connection begins                                                     *)

\* The slot that client_alloc finds is there when one is free.
LEMMA FirstFreeSlot ==
  ASSUME NEW free \in SUBSET Slot, free # {}
  PROVE  \E s \in free : \A t \in 1 .. s - 1 : t \notin free
<1>1. Slot \subseteq Nat /\ MaxClients \in Nat
  BY ControlAssumption DEF Slot
<1>2. PICK s \in free : \A n \in free : s <= n
  BY <1>1, LeastExists
<1> QED
  BY <1>1, <1>2

\* The new owner of a descriptor that nobody had.
LEMMA RegisterKeeps ==
  ASSUME ControlInv, backlog # <<>>, NEW f \in Fd, peer[f] = NoConn, NEW s \in Slot, ~Taken(s),
         nextConn' = nextConn + 1, nextConn <= MaxConn,
         clients' = [clients EXCEPT ![s] =
                      [fd |-> f, connId |-> nextConn, parts |-> 0, oversize |-> FALSE]],
         peer' = [peer EXCEPT ![f] = Head(backlog)],
         watched' = [watched EXCEPT ![f] = s],
         UNCHANGED <<ring, head, count, issued, replies>>
  PROVE  /\ Relations'
         /\ clients' \in [Slot -> [fd : Fd \cup {NoFd}, connId : 0 .. MaxConn,
                                   parts : 0 .. LineMax - 1, oversize : BOOLEAN]]
         /\ \A t \in Slot : Taken(t) => Taken(t)'
<1> DEFINE new == [fd |-> f, connId |-> nextConn, parts |-> 0, oversize |-> FALSE]
<1>1. clients' = [clients EXCEPT ![s] = new]
  OBVIOUS
<1>2. /\ new \in [fd : Fd \cup {NoFd}, connId : 0 .. MaxConn,
                  parts : 0 .. LineMax - 1, oversize : BOOLEAN]
      /\ new.fd = f /\ new.connId = nextConn
  <2>1. nextConn \in 0 .. MaxConn /\ 0 \in 0 .. LineMax - 1
    BY ControlAssumption DEF ControlInv, TypeOK
  <2> QED
    BY <2>1
<1> HIDE DEF new
<1>3. /\ clients \in [Slot -> [fd : Fd \cup {NoFd}, connId : 0 .. MaxConn,
                              parts : 0 .. LineMax - 1, oversize : BOOLEAN]]
      /\ peer \in [Fd -> Conn \cup {NoConn}] /\ watched \in [Fd -> Slot \cup {NoSlot}]
      /\ nextConn \in 1 .. MaxConn + 1 /\ backlog \in Seq(Conn)
  BY DEF ControlInv, TypeOK
<1>4. /\ clients'[s] = new /\ \A t \in Slot \ {s} : clients'[t] = clients[t]
      /\ peer'[f] = Head(backlog) /\ \A g \in Fd \ {f} : peer'[g] = peer[g]
      /\ watched'[f] = s /\ \A g \in Fd \ {f} : watched'[g] = watched[g]
  BY <1>1, <1>3
<1>5. Head(backlog) \in Conn /\ Head(backlog) # NoConn
  <2>1. Head(backlog) \in Conn
    BY <1>3
  <2> QED
    BY <2>1 DEF Conn, NoConn
<1>6. f # NoFd /\ clients[s].fd = NoFd
  BY ControlAssumption DEF Taken
<1>7. \A t \in Slot : clients[t].fd # f
  BY DEF ControlInv, SlotsOwnDescriptors
<1>8. SlotsOwnDescriptors'
  <2>1. ASSUME NEW g \in Fd
        PROVE  IF peer'[g] = NoConn
                 THEN {t \in Slot : clients'[t].fd = g} = {} /\ watched'[g] = NoSlot
                 ELSE {t \in Slot : clients'[t].fd = g} = {watched'[g]}
    <3>1. CASE g = f
      <4>1. {t \in Slot : clients'[t].fd = g} = {s}
        BY <3>1, <1>2, <1>4, <1>7
      <4> QED
        BY <3>1, <4>1, <1>4, <1>5
    <3>2. CASE g # f
      <4>1. {t \in Slot : clients'[t].fd = g} = {t \in Slot : clients[t].fd = g}
        BY <3>2, <1>2, <1>4, <1>6, ControlAssumption
      <4>2. peer'[g] = peer[g] /\ watched'[g] = watched[g]
        BY <3>2, <1>4
      <4> QED
        BY <4>1, <4>2 DEF ControlInv, SlotsOwnDescriptors
    <3> QED
      BY <3>1, <3>2
  <2> QED
    BY <2>1 DEF SlotsOwnDescriptors
<1>9. \A t \in Slot : Taken(t)' <=> (t = s \/ Taken(t))
  BY <1>2, <1>4, <1>6 DEF Taken
<1>10. IdsGivenOnce'
  <2>1. \A t \in Slot : Taken(t) => clients[t].connId \in 1 .. nextConn - 1
    BY DEF ControlInv, IdsGivenOnce
  <2>2. \A t \in Slot : Taken(t)' => clients'[t].connId \in 1 .. nextConn' - 1
    BY <2>1, <1>2, <1>3, <1>4, <1>9
  <2>3. \A t, u \in Slot : Taken(t)' /\ Taken(u)' /\ clients'[t].connId = clients'[u].connId
                             => t = u
    <3>1. \A t \in Slot : Taken(t) => t # s /\ clients'[t].connId # nextConn
      BY <2>1, <1>3, <1>4
    <3>2. \A t \in Slot : Taken(t) => clients'[t].connId = clients[t].connId
      BY <3>1, <1>4
    <3> QED
      BY <3>1, <3>2, <1>2, <1>4, <1>9 DEF ControlInv, IdsGivenOnce
  <2> QED
    BY <2>2, <2>3 DEF IdsGivenOnce
<1>11. (\A i : Entry(i)' = Entry(i)) /\ Waiting' = Waiting
  BY DEF Entry, Waiting
<1>12. PendingKnown'
  <2>1. ASSUME NEW i \in Waiting
        PROVE  /\ Entry(i).id \in 1 .. Len(issued) /\ Entry(i).connId \in 1 .. nextConn' - 1
               /\ Entry(i).fd \in Fd
               /\ \A t \in Slot : Taken(t)' /\ clients'[t].connId = Entry(i).connId
                    => peer'[clients'[t].fd] = issued[Entry(i).id].by
    <3>1. /\ Entry(i).id \in 1 .. Len(issued) /\ Entry(i).connId \in 1 .. nextConn - 1
          /\ Entry(i).fd \in Fd
          /\ \A t \in Slot : Taken(t) /\ clients[t].connId = Entry(i).connId
               => peer[clients[t].fd] = issued[Entry(i).id].by
      BY DEF ControlInv, PendingKnown
    <3>2. Entry(i).connId # nextConn /\ Entry(i).connId \in 1 .. nextConn' - 1
      BY <3>1, <1>3
    <3>3. ASSUME NEW t \in Slot, Taken(t)', clients'[t].connId = Entry(i).connId
          PROVE  peer'[clients'[t].fd] = issued[Entry(i).id].by
      <4>1. t # s /\ Taken(t) /\ clients'[t] = clients[t]
        BY <3>2, <3>3, <1>2, <1>4, <1>9
      <4>2. clients[t].fd \in Fd \ {f}
        BY <4>1, <1>3, <1>7 DEF Taken
      <4> QED
        BY <3>1, <3>3, <4>1, <4>2, <1>4
    <3> QED
      BY <3>1, <3>2, <3>3
  <2>2. \A i, j \in Waiting : Entry(i).id = Entry(j).id => i = j
    BY DEF ControlInv, PendingKnown
  <2> QED
    BY <2>1, <2>2, <1>11 DEF PendingKnown
<1>13. RepliedKnown' /\ RepliesToIssuer'
  <2>1. RepliedKnown'
    BY <1>11 DEF ControlInv, RepliedKnown
  <2>2. RepliesToIssuer'
    BY <1>11 DEF ControlInv, RepliesToIssuer
  <2> QED
    BY <2>1, <2>2
<1>14. clients' \in [Slot -> [fd : Fd \cup {NoFd}, connId : 0 .. MaxConn,
                             parts : 0 .. LineMax - 1, oversize : BOOLEAN]]
  BY <1>1, <1>2, <1>3
<1> QED
  BY <1>8, <1>9, <1>10, <1>12, <1>13, <1>14 DEF Relations

LEMMA AcceptOneKeeps ==
  ASSUME ControlInv, AcceptOne
  PROVE  ControlInv'
<1>1. /\ backlog \in Seq(Conn) /\ backlog # <<>> /\ backlog' = Tail(backlog)
      /\ nextConn \in 1 .. MaxConn + 1 /\ made \in 0 .. MaxConn /\ phase = "accept"
      /\ nextConn + Len(backlog) <= made + 1
      /\ UNCHANGED <<ringVars, clientVars, replyVars, phase, cur, incoming, lineNo>>
  BY DEF AcceptOne, ControlInv, TypeOK, Bounds, AcceptedBound
<1>2. backlog' \in Seq(Conn) /\ Len(backlog') = Len(backlog) - 1 /\ Len(backlog) \in Nat \ {0}
  BY <1>1
<1>3. nextConn <= MaxConn
  BY <1>1, <1>2, ControlAssumption
<1>4. PICK f \in Fd :
        /\ peer[f] = NoConn
        /\ IF \E s \in Slot : clients[s].fd = NoFd THEN Register(f) ELSE Refuse(f)
  BY DEF AcceptOne
<1>5. /\ Relations' /\ nextConn' \in {nextConn, nextConn + 1}
      /\ clients' \in [Slot -> [fd : Fd \cup {NoFd}, connId : 0 .. MaxConn,
                                parts : 0 .. LineMax - 1, oversize : BOOLEAN]]
      /\ peer' \in [Fd -> Conn \cup {NoConn}] /\ watched' \in [Fd -> Slot \cup {NoSlot}]
  <2>1. CASE UNCHANGED <<clients, peer, watched, nextConn>>
    BY <2>1, <1>1, QuietStep DEF ringVars, replyVars, ControlInv, TypeOK
  <2>2. CASE Register(f) /\ \E s \in Slot : clients[s].fd = NoFd
    <3> DEFINE first == CHOOSE s \in Slot : /\ clients[s].fd = NoFd
                                            /\ \A t \in 1 .. s - 1 : clients[t].fd # NoFd
    <3>1. first \in Slot /\ clients[first].fd = NoFd
      <4> DEFINE free == {s \in Slot : clients[s].fd = NoFd}
      <4>1. \E s \in free : \A t \in 1 .. s - 1 : t \notin free
        <5>1. free \in SUBSET Slot /\ free # {}
          BY <2>2
        <5> HIDE DEF free
        <5> QED
          BY <5>1, FirstFreeSlot
      <4>2. \A s \in Slot : 1 .. s - 1 \subseteq Slot
        BY ControlAssumption DEF Slot
      <4>3. \E s \in Slot : clients[s].fd = NoFd /\ \A t \in 1 .. s - 1 : clients[t].fd # NoFd
        BY <4>1, <4>2
      <4> QED
        BY <4>3
    <3>2. /\ nextConn' = nextConn + 1
          /\ \/ /\ clients' = [clients EXCEPT ![first] =
                     [fd |-> f, connId |-> nextConn, parts |-> 0, oversize |-> FALSE]]
                /\ peer' = [peer EXCEPT ![f] = Head(backlog)]
                /\ watched' = [watched EXCEPT ![f] = first]
             \/ UNCHANGED <<clients, peer, watched>>
      BY <2>2 DEF Register
    <3> HIDE DEF first
    <3>3. CASE UNCHANGED <<clients, peer, watched>>
      <4>1. SlotsOwnDescriptors' /\ RepliesToIssuer'
        <5>1. SlotsOwnDescriptors'
          BY <3>3 DEF ControlInv, SlotsOwnDescriptors
        <5>2. issued' = issued /\ replies' = replies
          BY <1>1 DEF replyVars
        <5>3. RepliesToIssuer'
          BY <5>2 DEF ControlInv, RepliesToIssuer
        <5> QED
          BY <5>1, <5>3
      <4>2. /\ (\A i : Entry(i)' = Entry(i)) /\ Waiting' = Waiting /\ \A s : Taken(s)' = Taken(s)
            /\ 1 .. nextConn - 1 \subseteq 1 .. nextConn' - 1
        BY <1>1, <3>2, <3>3 DEF Entry, Waiting, Taken, ringVars
      <4>3. IdsGivenOnce'
        BY <4>2, <3>3 DEF ControlInv, IdsGivenOnce
      <4>4. PendingKnown' /\ RepliedKnown'
        BY <4>2, <3>3, <1>1 DEF ControlInv, PendingKnown, RepliedKnown, replyVars
      <4> QED
        BY <3>2, <3>3, <4>1, <4>3, <4>4 DEF Relations, ControlInv, TypeOK
    <3>4. CASE /\ clients' = [clients EXCEPT ![first] =
                    [fd |-> f, connId |-> nextConn, parts |-> 0, oversize |-> FALSE]]
               /\ peer' = [peer EXCEPT ![f] = Head(backlog)]
               /\ watched' = [watched EXCEPT ![f] = first]
      <4>1. /\ Relations'
            /\ clients' \in [Slot -> [fd : Fd \cup {NoFd}, connId : 0 .. MaxConn,
                                      parts : 0 .. LineMax - 1, oversize : BOOLEAN]]
        BY <1>1, <1>3, <1>4, <3>1, <3>2, <3>4, RegisterKeeps DEF Taken, ringVars, replyVars
      <4>2. Head(backlog) \in Conn
        BY <1>1
      <4> QED
        BY <3>1, <3>2, <3>4, <4>1, <4>2 DEF ControlInv, TypeOK
    <3> QED
      BY <3>2, <3>3, <3>4
  <2> QED
    BY <1>4, <2>1, <2>2 DEF Refuse
<1>6. nextConn' \in 1 .. MaxConn + 1 /\ nextConn' + Len(backlog') <= made + 1
  BY <1>1, <1>2, <1>3, <1>5, ControlAssumption
<1>7. TypeOK'
  BY <1>1, <1>2, <1>5, <1>6 DEF ringVars, clientVars, replyVars, ControlInv, TypeOK
<1>8. Bounds'
  BY <1>1, <1>6 DEF clientVars, ControlInv, Bounds, AcceptedBound, UnitsBound, ReadsTaken
<1> QED
  BY <1>5, <1>7, <1>8 DEF ControlInv, Relations

-----------------------------------------------------------------------------
(* A connection ends                                                       *)

LEMMA ReadEndsKeeps ==
  ASSUME ControlInv, ReadEnds
  PROVE  ControlInv'
<1> DEFINE f == clients[cur].fd
<1>1. /\ phase = "read" /\ cur \in Slot /\ phase' = "pump" /\ cur' = NoSlot
      /\ peer' = [peer EXCEPT ![f] = NoConn] /\ watched' = [watched EXCEPT ![f] = NoSlot]
      /\ clients' = [clients EXCEPT ![cur] = FreeSlot]
      /\ UNCHANGED <<ringVars, clientVars, nextConn, backlog, replyVars, incoming, lineNo>>
  BY DEF ReadEnds, CloseClient, ControlInv, TypeOK, NoSlot
<1>2. Taken(cur)
  BY <1>1 DEF ControlInv, Bounds, ReadsTaken
<1>3. f \in Fd /\ \A t \in Slot : clients[t].fd = f => t = cur
  BY <1>1, <1>2, TakenSlot DEF ControlInv
<1>4. FreeSlot \in [fd : Fd \cup {NoFd}, connId : 0 .. MaxConn,
                    parts : 0 .. LineMax - 1, oversize : BOOLEAN] /\ FreeSlot.fd = NoFd
  BY ControlAssumption DEF FreeSlot
<1>5. /\ clients \in [Slot -> [fd : Fd \cup {NoFd}, connId : 0 .. MaxConn,
                              parts : 0 .. LineMax - 1, oversize : BOOLEAN]]
      /\ peer \in [Fd -> Conn \cup {NoConn}] /\ watched \in [Fd -> Slot \cup {NoSlot}]
  BY DEF ControlInv, TypeOK
<1>6. /\ clients'[cur] = FreeSlot /\ \A t \in Slot \ {cur} : clients'[t] = clients[t]
      /\ peer'[f] = NoConn /\ \A g \in Fd \ {f} : peer'[g] = peer[g]
      /\ watched'[f] = NoSlot /\ \A g \in Fd \ {f} : watched'[g] = watched[g]
  BY <1>1, <1>3, <1>5
<1>7. TypeOK'
  <2>1. /\ clients' \in [Slot -> [fd : Fd \cup {NoFd}, connId : 0 .. MaxConn,
                                 parts : 0 .. LineMax - 1, oversize : BOOLEAN]]
        /\ peer' \in [Fd -> Conn \cup {NoConn}] /\ watched' \in [Fd -> Slot \cup {NoSlot}]
    BY <1>1, <1>4, <1>5
  <2> QED
    BY <1>1, <2>1 DEF ringVars, clientVars, replyVars, ControlInv, TypeOK
<1>8. \A t \in Slot : Taken(t)' <=> (t # cur /\ Taken(t))
  BY <1>4, <1>6 DEF Taken
<1>9. SlotsOwnDescriptors'
  <2>1. ASSUME NEW g \in Fd
        PROVE  IF peer'[g] = NoConn
                 THEN {t \in Slot : clients'[t].fd = g} = {} /\ watched'[g] = NoSlot
                 ELSE {t \in Slot : clients'[t].fd = g} = {watched'[g]}
    <3>1. CASE g = f
      BY <3>1, <1>3, <1>4, <1>6, ControlAssumption
    <3>2. CASE g # f
      <4>1. {t \in Slot : clients'[t].fd = g} = {t \in Slot : clients[t].fd = g}
        BY <3>2, <1>4, <1>6, ControlAssumption
      <4>2. peer'[g] = peer[g] /\ watched'[g] = watched[g]
        BY <3>2, <1>6
      <4> QED
        BY <4>1, <4>2 DEF ControlInv, SlotsOwnDescriptors
    <3> QED
      BY <3>1, <3>2
  <2> QED
    BY <2>1 DEF SlotsOwnDescriptors
<1>10. IdsGivenOnce'
  BY <1>1, <1>6, <1>8 DEF ControlInv, IdsGivenOnce
<1>11. /\ (\A i : Entry(i)' = Entry(i)) /\ Waiting' = Waiting
       /\ UNCHANGED <<issued, replies, nextConn>>
  BY <1>1 DEF Entry, Waiting, ringVars, replyVars
<1>12. PendingKnown'
  <2>1. ASSUME NEW i \in Waiting, NEW t \in Slot, Taken(t)', clients'[t].connId = Entry(i).connId
        PROVE  peer'[clients'[t].fd] = issued[Entry(i).id].by
    <3>1. t # cur /\ Taken(t) /\ clients'[t] = clients[t]
      BY <2>1, <1>6, <1>8
    <3>2. clients[t].fd \in Fd \ {f}
      BY <3>1, <1>3, <1>5 DEF Taken
    <3>3. peer[clients[t].fd] = issued[Entry(i).id].by
      BY <2>1, <3>1 DEF ControlInv, PendingKnown
    <3> QED
      BY <3>1, <3>2, <3>3, <1>6
  <2> QED
    BY <2>1, <1>11 DEF ControlInv, PendingKnown
<1>13. RepliedKnown' /\ RepliesToIssuer'
  <2>1. RepliedKnown'
    BY <1>11 DEF ControlInv, RepliedKnown
  <2>2. RepliesToIssuer'
    BY <1>11 DEF ControlInv, RepliesToIssuer
  <2> QED
    BY <2>1, <2>2
<1>14. Bounds'
  BY <1>1 DEF clientVars, ControlInv, Bounds, AcceptedBound, UnitsBound, ReadsTaken
<1> QED
  BY <1>7, <1>9, <1>10, <1>12, <1>13, <1>14 DEF ControlInv

LEMMA ShutdownKeeps ==
  ASSUME ControlInv, Shutdown
  PROVE  ControlInv'
<1>1. /\ phase = "pump" /\ phase' = "halt" /\ cur' = cur /\ count' = 0 /\ backlog' = <<>>
      /\ clients' = [s \in Slot |-> FreeSlot] /\ head' = (head + count) % DeferMax
      /\ peer' = [f \in Fd |-> NoConn] /\ watched' = [f \in Fd |-> NoSlot]
      /\ UNCHANGED <<ring, ran, clientVars, nextConn, replyVars, incoming, lineNo>>
  BY DEF Shutdown
<1>2. FreeSlot \in [fd : Fd \cup {NoFd}, connId : 0 .. MaxConn,
                    parts : 0 .. LineMax - 1, oversize : BOOLEAN] /\ FreeSlot.fd = NoFd
  BY ControlAssumption DEF FreeSlot
<1>3. head' \in 0 .. DeferMax - 1
  <2>1. head \in 0 .. DeferMax - 1 /\ count \in 0 .. DeferMax /\ DeferMax \in Nat \ {0}
    BY ControlAssumption DEF ControlInv, TypeOK
  <2> QED
    BY <1>1, <2>1, PlacesInRing
<1>4. TypeOK'
  <2>1. /\ clients' \in [Slot -> [fd : Fd \cup {NoFd}, connId : 0 .. MaxConn,
                                 parts : 0 .. LineMax - 1, oversize : BOOLEAN]]
        /\ peer' \in [Fd -> Conn \cup {NoConn}] /\ watched' \in [Fd -> Slot \cup {NoSlot}]
    BY <1>1, <1>2
  <2>2. count' \in 0 .. DeferMax /\ backlog' \in Seq(Conn)
    BY <1>1, ControlAssumption
  <2>3. phase' \in {"pump", "accept", "read", "drain", "halt"} /\ (phase' = "read" <=> cur' # NoSlot)
    BY <1>1 DEF ControlInv, TypeOK
  <2> QED
    BY <1>1, <1>3, <2>1, <2>2, <2>3 DEF clientVars, replyVars, ControlInv, TypeOK
<1>5. \A s \in Slot : clients'[s].fd = NoFd
  BY <1>1, <1>2
<1>6. Waiting' = {}
  BY <1>1 DEF Waiting
<1>7. SlotsOwnDescriptors'
  BY <1>1, <1>5, ControlAssumption DEF SlotsOwnDescriptors
<1>8. IdsGivenOnce' /\ PendingKnown'
  BY <1>5, <1>6 DEF IdsGivenOnce, PendingKnown, Taken
<1>9. RepliedKnown' /\ RepliesToIssuer'
  <2>1. issued' = issued /\ replies' = replies
    BY <1>1 DEF replyVars
  <2>2. RepliedKnown'
    BY <2>1, <1>6 DEF ControlInv, RepliedKnown
  <2>3. RepliesToIssuer'
    BY <2>1 DEF ControlInv, RepliesToIssuer
  <2> QED
    BY <2>2, <2>3
<1>10. Bounds'
  <2>1. nextConn <= made + 1 /\ Len(backlog') = 0
    <3>1. nextConn + Len(backlog) <= made + 1 /\ Len(backlog) \in Nat /\ nextConn \in Nat
          /\ made \in Nat
      BY DEF ControlInv, TypeOK, Bounds, AcceptedBound
    <3> QED
      BY <1>1, <3>1
  <2>2. AcceptedBound'
    BY <1>1, <2>1 DEF AcceptedBound, clientVars, ControlInv, TypeOK
  <2> QED
    BY <1>1, <2>2 DEF clientVars, ControlInv, Bounds, UnitsBound, ReadsTaken
<1> QED
  BY <1>4, <1>7, <1>8, <1>9, <1>10 DEF ControlInv

-----------------------------------------------------------------------------
(* A request is answered                                                   *)

\* Every frame is an old one or the one that was just sent.
FrameAdded(p, id) ==
  \A c \in Conn : \A i \in 1 .. Len(replies'[c]) :
    \/ i \in 1 .. Len(replies[c]) /\ replies'[c][i] = replies[c][i]
    \/ c = p /\ i = Len(replies[p]) + 1 /\ replies'[c][i].id = id

LEMMA ReplyFrames ==
  ASSUME TypeOK, NEW f \in Fd, peer[f] \in Conn, NEW id \in Nat \ {0}, Reply(f, id)
  PROVE  FrameAdded(peer[f], id) /\ replies' \in [Conn -> Seq(Frame)]
<1> DEFINE p == peer[f]
<1>1. /\ replies' \in [Conn -> Seq(Frame)]
      /\ \A c \in Conn \ {p} : replies'[c] = replies[c]
      /\ \/ replies'[p] = replies[p]
         \/ /\ Len(replies'[p]) = Len(replies[p]) + 1
            /\ replies'[p][Len(replies[p]) + 1].id = id
            /\ \A i \in 1 .. Len(replies[p]) : replies'[p][i] = replies[p][i]
  BY ReplyAdds
<1>2. \A c \in Conn : Len(replies[c]) \in Nat
  BY DEF TypeOK
<1>3. p \in Conn
  OBVIOUS
<1> HIDE DEF p
<1>4. FrameAdded(p, id)
  BY <1>1, <1>2, <1>3 DEF FrameAdded
<1> QED
  BY <1>1, <1>4 DEF p

\* An answer with an id that nobody has seen, to the connection it was given
\* to, keeps every reply with its issuer and every id in one frame.
LEMMA NewReply ==
  ASSUME ControlInv, NEW p \in Conn, NEW id, FrameAdded(p, id),
         \A n \in 1 .. Len(issued) : issued'[n] = issued[n],
         issued'[id].by = p,
         \A c \in Conn : \A i \in 1 .. Len(replies[c]) : replies[c][i].id # id
  PROVE  RepliesToIssuer'
<1>1. \A c \in Conn : \A i \in 1 .. Len(replies[c]) :
        issued'[replies[c][i].id].by = c
  BY DEF ControlInv, RepliesToIssuer, RepliedKnown
<1>2. ASSUME NEW c \in Conn, NEW d \in Conn, NEW i \in 1 .. Len(replies'[c]),
             NEW j \in 1 .. Len(replies'[d])
      PROVE  /\ issued'[replies'[c][i].id].by = c
             /\ replies'[c][i].id = replies'[d][j].id => c = d /\ i = j
  <2>1. \/ i \in 1 .. Len(replies[c]) /\ replies'[c][i] = replies[c][i]
        \/ c = p /\ i = Len(replies[p]) + 1 /\ replies'[c][i].id = id
    BY DEF FrameAdded
  <2>2. \/ j \in 1 .. Len(replies[d]) /\ replies'[d][j] = replies[d][j]
        \/ d = p /\ j = Len(replies[p]) + 1 /\ replies'[d][j].id = id
    BY DEF FrameAdded
  <2>3. i \in 1 .. Len(replies[c]) /\ j \in 1 .. Len(replies[d])
          => (replies[c][i].id = replies[d][j].id => c = d /\ i = j)
    BY DEF ControlInv, RepliesToIssuer
  <2>4. issued'[replies'[c][i].id].by = c
    BY <1>1, <2>1
  <2>5. CASE i \in 1 .. Len(replies[c]) /\ replies'[c][i] = replies[c][i]
    BY <2>2, <2>3, <2>4, <2>5
  <2>6. CASE c = p /\ i = Len(replies[p]) + 1 /\ replies'[c][i].id = id
    BY <2>2, <2>4, <2>6
  <2> QED
    BY <2>1, <2>5, <2>6
<1> QED
  BY <1>2 DEF RepliesToIssuer

\* The ring, one place at a time.
LEMMA RingPlaces ==
  ASSUME TypeOK
  PROVE  /\ \A i \in Waiting : (head + i) % DeferMax \in 0 .. DeferMax - 1
         /\ \A i, j \in 0 .. DeferMax - 1 :
              (head + i) % DeferMax = (head + j) % DeferMax => i = j
         /\ \A i \in 0 .. DeferMax - 1 :
              (((head + 1) % DeferMax) + i) % DeferMax = (head + (i + 1)) % DeferMax
         /\ (head + 1) % DeferMax \in 0 .. DeferMax - 1
         /\ (head + count) % DeferMax \in 0 .. DeferMax - 1
         /\ (head + 0) % DeferMax = head
<1>1. /\ head \in 0 .. DeferMax - 1 /\ count \in 0 .. DeferMax /\ DeferMax \in Nat \ {0}
      /\ Waiting \subseteq 0 .. DeferMax - 1
  BY ControlAssumption DEF TypeOK, Waiting
<1>2. /\ \A i \in 0 .. DeferMax : (head + i) % DeferMax \in 0 .. DeferMax - 1
      /\ \A i, j \in 0 .. DeferMax - 1 :
           (head + i) % DeferMax = (head + j) % DeferMax => i = j
      /\ \A i \in 0 .. DeferMax - 1 :
           (((head + 1) % DeferMax) + i) % DeferMax = (head + (i + 1)) % DeferMax
  BY <1>1, PlacesInRing
<1>3. 1 \in 0 .. DeferMax /\ count \in 0 .. DeferMax /\ Waiting \subseteq 0 .. DeferMax
  BY <1>1
<1>4. (head + 0) % DeferMax = head
  <2>1. head + 0 = head /\ head \in 0 .. 2 * DeferMax - 1 /\ head < DeferMax
    BY <1>1
  <2> QED
    BY <1>1, <2>1, AroundRing
<1> QED
  BY <1>2, <1>3, <1>4

\* One place is given up at the head, and the others move up.
LEMMA DrainShifts ==
  ASSUME ControlInv, DrainOne
  PROVE  /\ ring[head] = Entry(0) /\ 0 \in Waiting
         /\ \A i \in Waiting' : i + 1 \in Waiting /\ Entry(i)' = Entry(i + 1)
<1>1. /\ count > 0 /\ count \in Nat /\ count <= DeferMax /\ ring' = ring
      /\ head' = (head + 1) % DeferMax /\ count' = count - 1
  BY ControlAssumption DEF DrainOne, ControlInv, TypeOK
<1>2. ring[head] = Entry(0) /\ 0 \in Waiting
  <2>1. ring[head] = Entry(0)
    BY RingPlaces DEF Entry, ControlInv
  <2>2. 0 \in Waiting
    BY <1>1 DEF Waiting
  <2> QED
    BY <2>1, <2>2
<1>3. /\ \A i \in Waiting' : i + 1 \in Waiting /\ Entry(i)' = Entry(i + 1)
  <2>1. ASSUME NEW i \in Waiting' PROVE i + 1 \in Waiting /\ Entry(i)' = Entry(i + 1)
    <3>1. i \in 0 .. count - 2 /\ i + 1 \in 0 .. count - 1 /\ i \in 0 .. DeferMax - 1
      BY <2>1, <1>1, ControlAssumption DEF Waiting
    <3>2. (head' + i) % DeferMax = (head + (i + 1)) % DeferMax
      BY <1>1, <3>1, RingPlaces DEF ControlInv
    <3>3. ring' = ring
      BY <1>1
    <3> QED
      BY <3>1, <3>2, <3>3 DEF Waiting, Entry
  <2> QED
    BY <2>1
<1> QED
  BY <1>2, <1>3

\* What the drain takes out is answered where it came from, or not at all.
LEMMA DrainOneKeeps ==
  ASSUME ControlInv, DrainOne
  PROVE  ControlInv'
<1> DEFINE e == ring[head]
<1>1. /\ count > 0 /\ count \in Nat /\ count <= DeferMax
      /\ head' = (head + 1) % DeferMax /\ count' = count - 1 /\ ran' = Append(ran, e.id)
      /\ IF \E s \in Slot : IsIssuer(s, e) THEN Reply(e.fd, e.id) ELSE UNCHANGED replies
      /\ UNCHANGED <<ring, clientVars, serverVars, nextReq, issued, phase, cur, incoming, lineNo>>
  BY ControlAssumption DEF DrainOne, ControlInv, TypeOK
<1>2. e = Entry(0) /\ 0 \in Waiting
  BY DrainShifts
<1>3. \A i \in Waiting' : i + 1 \in Waiting /\ Entry(i)' = Entry(i + 1)
  BY DrainShifts
<1>4. /\ e.id \in 1 .. Len(issued) /\ e.connId \in 1 .. nextConn - 1 /\ e.fd \in Fd
      /\ \A s \in Slot : Taken(s) /\ clients[s].connId = e.connId
           => peer[clients[s].fd] = issued[e.id].by
  BY <1>2 DEF ControlInv, PendingKnown
<1>5. /\ replies' \in [Conn -> Seq(Frame)] /\ RepliesToIssuer'
      /\ \A c \in Conn : \A i \in 1 .. Len(replies'[c]) :
           \/ i \in 1 .. Len(replies[c]) /\ replies'[c][i] = replies[c][i]
           \/ replies'[c][i].id = e.id
  <2>1. CASE \E s \in Slot : IsIssuer(s, e)
    <3>1. PICK s \in Slot : IsIssuer(s, e)
      BY <2>1
    <3>2. Taken(s) /\ clients[s].fd = e.fd
      BY <1>4, <3>1, ControlAssumption DEF IsIssuer, Taken
    <3>3. peer[e.fd] = issued[e.id].by
      BY <1>4, <3>1, <3>2 DEF IsIssuer
    <3>4. peer[e.fd] \in Conn
      BY <3>2, TakenSlot DEF ControlInv
    <3>5. Reply(e.fd, e.id) /\ e.id \in Nat \ {0}
      <4>1. Len(issued) \in Nat
        BY DEF ControlInv, TypeOK
      <4> QED
        BY <1>1, <1>4, <2>1, <4>1
    <3> HIDE DEF e
    <3>6. FrameAdded(peer[e.fd], e.id) /\ replies' \in [Conn -> Seq(Frame)]
      BY <1>4, <3>4, <3>5, ReplyFrames DEF ControlInv
    <3>7. \A c \in Conn : \A i \in 1 .. Len(replies[c]) : replies[c][i].id # e.id
      BY <1>2 DEF ControlInv, RepliedKnown
    <3>8. issued' = issued
      BY <1>1
    <3>9. RepliesToIssuer'
      BY <3>3, <3>4, <3>6, <3>7, <3>8, NewReply
    <3> QED
      BY <3>6, <3>9 DEF FrameAdded
  <2>2. CASE ~\E s \in Slot : IsIssuer(s, e)
    <3>1. replies' = replies /\ issued' = issued
      BY <1>1, <2>2
    <3> QED
      BY <3>1 DEF ControlInv, TypeOK, RepliesToIssuer
  <2> QED
    BY <2>1, <2>2
<1> HIDE DEF e
<1>6. PendingKnown'
  <2>1. ASSUME NEW i \in Waiting'
        PROVE  /\ Entry(i)'.id \in 1 .. Len(issued) /\ Entry(i)'.connId \in 1 .. nextConn - 1
               /\ Entry(i)'.fd \in Fd
               /\ \A s \in Slot : Taken(s) /\ clients[s].connId = Entry(i)'.connId
                    => peer[clients[s].fd] = issued[Entry(i)'.id].by
    BY <2>1, <1>3 DEF ControlInv, PendingKnown
  <2>2. \A i, j \in Waiting' : Entry(i)'.id = Entry(j)'.id => i = j
    <3>1. \A i, j \in Waiting' : Entry(i)'.id = Entry(j)'.id => i + 1 = j + 1
      BY <1>3 DEF ControlInv, PendingKnown
    <3>2. Waiting' \subseteq Nat
      BY <1>1 DEF Waiting
    <3> QED
      BY <3>1, <3>2
  <2>3. UNCHANGED <<issued, nextConn, clients, peer>> /\ \A s : Taken(s)' = Taken(s)
    BY <1>1 DEF serverVars, Taken
  <2> QED
    BY <2>1, <2>2, <2>3 DEF PendingKnown
<1>7. RepliedKnown'
  <2>1. issued' = issued
    BY <1>1
  <2>2. \A c \in Conn : \A i \in 1 .. Len(replies[c]) :
          /\ replies[c][i].id \in 1 .. Len(issued)
          /\ \A j \in Waiting' : Entry(j)'.id # replies[c][i].id
    BY <1>3 DEF ControlInv, RepliedKnown
  <2>3. \A j \in Waiting' : Entry(j)'.id # e.id
    <3>1. \A j \in Waiting' : j + 1 # 0
      BY <1>1 DEF Waiting
    <3> QED
      BY <1>2, <1>3, <3>1 DEF ControlInv, PendingKnown
  <2> QED
    BY <1>4, <1>5, <2>1, <2>2, <2>3 DEF RepliedKnown
<1>8. SlotsOwnDescriptors' /\ IdsGivenOnce'
  <2>1. UNCHANGED <<clients, peer, watched, nextConn>>
    BY <1>1 DEF serverVars
  <2> QED
    BY <2>1 DEF ControlInv, SlotsOwnDescriptors, IdsGivenOnce, Taken
<1>9. TypeOK'
  <2>1. ran' \in Seq(1 .. Len(issued)) /\ count' \in 0 .. DeferMax /\ head' \in 0 .. DeferMax - 1
    <3>1. ran \in Seq(1 .. Len(issued))
      BY DEF ControlInv, TypeOK
    <3>2. ran' \in Seq(1 .. Len(issued))
      BY <1>1, <1>4, <3>1 DEF e
    <3>3. count' \in 0 .. DeferMax
      BY <1>1, ControlAssumption
    <3> QED
      BY <1>1, <3>2, <3>3, RingPlaces DEF ControlInv
  <2> QED
    BY <1>1, <1>5, <2>1 DEF clientVars, serverVars, ControlInv, TypeOK
<1>10. Bounds'
  BY <1>1 DEF clientVars, serverVars, ControlInv, Bounds, AcceptedBound, UnitsBound,
       ReadsTaken, Taken
<1> QED
  BY <1>5, <1>6, <1>7, <1>8, <1>9, <1>10 DEF ControlInv

-----------------------------------------------------------------------------
(* A unit is read                                                          *)

\* Who has which descriptor and which connection id stays as it is.
SameOwners ==
  /\ \A s \in Slot : clients'[s].fd = clients[s].fd /\ clients'[s].connId = clients[s].connId
  /\ UNCHANGED <<peer, watched, nextConn>>

\* A client's buffer changes, and nothing else of its slot.
LEMMA BufferChanges ==
  ASSUME NEW s \in Slot, NEW r, clients' = [clients EXCEPT ![s] = r],
         r \in [fd : Fd \cup {NoFd}, connId : 0 .. MaxConn,
                parts : 0 .. LineMax - 1, oversize : BOOLEAN],
         r.fd = clients[s].fd, r.connId = clients[s].connId,
         clients \in [Slot -> [fd : Fd \cup {NoFd}, connId : 0 .. MaxConn,
                               parts : 0 .. LineMax - 1, oversize : BOOLEAN]],
         UNCHANGED <<peer, watched, nextConn>>
  PROVE  /\ clients' \in [Slot -> [fd : Fd \cup {NoFd}, connId : 0 .. MaxConn,
                                   parts : 0 .. LineMax - 1, oversize : BOOLEAN]]
         /\ SameOwners
<1>1. clients'[s] = r /\ \A t \in Slot \ {s} : clients'[t] = clients[t]
  OBVIOUS
<1>2. \A t \in Slot : clients'[t].fd = clients[t].fd /\ clients'[t].connId = clients[t].connId
  BY <1>1
<1> QED
  BY <1>2 DEF SameOwners

LEMMA OwnersKept ==
  ASSUME ControlInv, SameOwners
  PROVE  /\ SlotsOwnDescriptors' /\ IdsGivenOnce' /\ \A s \in Slot : Taken(s)' <=> Taken(s)
<1>1. \A s \in Slot : Taken(s)' <=> Taken(s)
  BY DEF SameOwners, Taken
<1>2. \A f : {s \in Slot : clients'[s].fd = f} = {s \in Slot : clients[s].fd = f}
  BY DEF SameOwners
<1>3. SlotsOwnDescriptors'
  BY <1>2 DEF SameOwners, ControlInv, SlotsOwnDescriptors
<1>4. IdsGivenOnce'
  BY <1>1 DEF SameOwners, ControlInv, IdsGivenOnce
<1> QED
  BY <1>1, <1>3, <1>4

\* Read without an answer.
LEMMA SilentRead ==
  ASSUME ControlInv, SameOwners, UNCHANGED <<ring, head, count, issued, replies>>
  PROVE  Relations'
<1>1. (\A i : Entry(i)' = Entry(i)) /\ Waiting' = Waiting
  BY DEF Entry, Waiting
<1>2. PendingKnown'
  BY <1>1, OwnersKept DEF SameOwners, ControlInv, PendingKnown
<1>3. RepliedKnown' /\ RepliesToIssuer'
  BY <1>1 DEF ControlInv, RepliedKnown, RepliesToIssuer
<1> QED
  BY <1>2, <1>3, OwnersKept DEF Relations

\* What was given before is known, and differs from the id given now.
StillKnown ==
  /\ \A i \in Waiting :
       /\ Entry(i).id \in 1 .. Len(issued') /\ Entry(i).id # nextReq
       /\ Entry(i).connId \in 1 .. nextConn' - 1 /\ Entry(i).fd \in Fd
       /\ \A s \in Slot : Taken(s)' /\ clients'[s].connId = Entry(i).connId
            => peer'[clients'[s].fd] = issued'[Entry(i).id].by
  /\ \A d \in Conn : \A i \in 1 .. Len(replies[d]) :
       replies[d][i].id \in 1 .. Len(issued') /\ replies[d][i].id # nextReq

LEMMA IdsGrow ==
  ASSUME ControlInv, SameOwners, NEW c \in Conn, TakeId(c)
  PROVE  StillKnown
<1>1. /\ Len(issued') = Len(issued) + 1 /\ nextReq = Len(issued') /\ Len(issued) \in Nat
      /\ \A n \in 1 .. Len(issued) : issued'[n] = issued[n]
  <2>1. Len(issued) \in Nat
    BY DEF ControlInv, TypeOK
  <2> QED
    BY <2>1, TakeIdAdds DEF ControlInv
<1>2. \A n \in 1 .. Len(issued) : n \in 1 .. Len(issued') /\ n # nextReq
  BY <1>1
<1>3. ASSUME NEW i \in Waiting
      PROVE  /\ Entry(i).id \in 1 .. Len(issued) /\ Entry(i).connId \in 1 .. nextConn' - 1
             /\ Entry(i).fd \in Fd
             /\ \A s \in Slot : Taken(s)' /\ clients'[s].connId = Entry(i).connId
                  => peer'[clients'[s].fd] = issued[Entry(i).id].by
  BY OwnersKept DEF SameOwners, ControlInv, PendingKnown
<1>4. \A d \in Conn : \A i \in 1 .. Len(replies[d]) : replies[d][i].id \in 1 .. Len(issued)
  BY DEF ControlInv, RepliedKnown
<1> QED
  BY <1>1, <1>2, <1>3, <1>4 DEF StillKnown

\* Answered at once.
LEMMA AnsweredRead ==
  ASSUME ControlInv, SameOwners, NEW s \in Slot, Taken(s), TakeId(peer[clients[s].fd]),
         Reply(clients[s].fd, nextReq), UNCHANGED <<ring, head, count>>
  PROVE  Relations' /\ replies' \in [Conn -> Seq(Frame)]
<1> DEFINE p == peer[clients[s].fd]
<1>1. p \in Conn /\ clients[s].fd \in Fd
  BY TakenSlot DEF ControlInv
<1>2. nextReq \in Nat \ {0}
  BY DEF ControlInv, TypeOK
<1>3. FrameAdded(p, nextReq) /\ replies' \in [Conn -> Seq(Frame)]
  BY <1>1, <1>2, ReplyFrames DEF ControlInv
<1>4. TakeId(p)
  OBVIOUS
<1> HIDE DEF p
<1>5. /\ nextReq \in 1 .. Len(issued') /\ issued'[nextReq].by = p
      /\ \A n \in 1 .. Len(issued) : issued'[n] = issued[n]
  BY <1>1, <1>2, <1>4, TakeIdAdds DEF ControlInv
<1>6. (\A i : Entry(i)' = Entry(i)) /\ Waiting' = Waiting
  BY DEF Entry, Waiting
<1> StillKnown
  BY <1>1, <1>4, IdsGrow
<1>7. PendingKnown'
  <2>1. \A i, j \in Waiting : Entry(i).id = Entry(j).id => i = j
    BY DEF ControlInv, PendingKnown
  <2> QED
    BY <1>6, <2>1 DEF StillKnown, PendingKnown
<1>8. RepliedKnown'
  <2>1. ASSUME NEW c \in Conn, NEW i \in 1 .. Len(replies'[c])
        PROVE  /\ replies'[c][i].id \in 1 .. Len(issued')
               /\ \A j \in Waiting : Entry(j).id # replies'[c][i].id
    <3>1. CASE i \in 1 .. Len(replies[c]) /\ replies'[c][i] = replies[c][i]
      BY <3>1 DEF StillKnown, ControlInv, RepliedKnown
    <3>2. CASE replies'[c][i].id = nextReq
      BY <3>2, <1>5 DEF StillKnown
    <3> QED
      BY <1>3, <3>1, <3>2 DEF FrameAdded
  <2> QED
    BY <2>1, <1>6 DEF RepliedKnown
<1>9. RepliesToIssuer'
  <2>1. \A c \in Conn : \A i \in 1 .. Len(replies[c]) : replies[c][i].id # nextReq
    BY DEF StillKnown
  <2> QED
    BY <1>1, <1>3, <1>5, <2>1, NewReply
<1> QED
  BY <1>3, <1>7, <1>8, <1>9, OwnersKept DEF Relations

\* A new place is taken at the tail, and the others stay.
LEMMA PushPlaces ==
  ASSUME ControlInv, NEW s \in Slot, Taken(s), DeferPush(s)
  PROVE  /\ Waiting' = Waiting \cup {count} /\ count \notin Waiting
         /\ \A i : i = count => Entry(i)' =
              [fd |-> clients[s].fd, connId |-> clients[s].connId, id |-> nextReq]
         /\ \A i \in Waiting : Entry(i)' = Entry(i)
<1> DEFINE new == [fd |-> clients[s].fd, connId |-> clients[s].connId, id |-> nextReq]
<1>1. clients[s].fd \in Fd
  BY TakenSlot DEF ControlInv
<1>2. new \in [fd : Fd \cup {NoFd}, connId : 0 .. MaxConn, id : Nat]
  <2>1. clients[s].connId \in 0 .. MaxConn /\ nextReq \in Nat
    BY DEF ControlInv, TypeOK
  <2> QED
    BY <1>1, <2>1
<1>3. /\ ring' = [ring EXCEPT ![PushSlot] = new] /\ count' = count + 1
      /\ UNCHANGED <<head, ran, replies>> /\ count < DeferMax
  BY DEF DeferPush
<1> HIDE DEF new
<1>5. /\ PushSlot \in 0 .. DeferMax - 1 /\ count \in Nat /\ head \in 0 .. DeferMax - 1
      /\ ring \in [0 .. DeferMax - 1 -> [fd : Fd \cup {NoFd}, connId : 0 .. MaxConn, id : Nat]]
  <2>1. PushSlot \in 0 .. DeferMax - 1
    BY RingPlaces DEF PushSlot, ControlInv
  <2> QED
    BY <2>1, ControlAssumption DEF ControlInv, TypeOK
<1>7. Waiting' = Waiting \cup {count} /\ count \notin Waiting
  BY <1>3, <1>5 DEF Waiting
<1>8. \A i : i = count => Entry(i)' = new
  <2>1. ring'[PushSlot] = new
    BY <1>3, <1>5
  <2> QED
    BY <2>1, <1>3 DEF Entry, PushSlot
<1>9. \A i \in Waiting : Entry(i)' = Entry(i)
  <2>1. ASSUME NEW i \in Waiting PROVE Entry(i)' = Entry(i)
    <3>1. i \in 0 .. DeferMax - 1 /\ count \in 0 .. DeferMax - 1 /\ i # count
      BY <1>3, <1>5, ControlAssumption DEF Waiting
    <3>2. (head + i) % DeferMax # PushSlot /\ (head + i) % DeferMax \in 0 .. DeferMax - 1
      BY <3>1, RingPlaces DEF PushSlot, ControlInv
    <3> QED
      BY <3>2, <1>3, <1>5 DEF Entry
  <2> QED
    BY <2>1
<1> QED
  BY <1>7, <1>8, <1>9 DEF new

\* Put off until the drain.
LEMMA DeferredRead ==
  ASSUME ControlInv, SameOwners, NEW s \in Slot, Taken(s), TakeId(peer[clients[s].fd]),
         DeferPush(s)
  PROVE  /\ Relations' /\ count' \in 0 .. DeferMax
         /\ ring' \in [0 .. DeferMax - 1 -> [fd : Fd \cup {NoFd}, connId : 0 .. MaxConn, id : Nat]]
<1> DEFINE p == peer[clients[s].fd]
           new == [fd |-> clients[s].fd, connId |-> clients[s].connId, id |-> nextReq]
<1>1. p \in Conn /\ clients[s].fd \in Fd
  BY TakenSlot DEF ControlInv
<1>2. /\ new.id = nextReq /\ new.connId = clients[s].connId /\ new.fd = clients[s].fd
      /\ new \in [fd : Fd \cup {NoFd}, connId : 0 .. MaxConn, id : Nat]
  <2>1. clients[s].connId \in 0 .. MaxConn /\ nextReq \in Nat
    BY DEF ControlInv, TypeOK
  <2> QED
    BY <1>1, <2>1
<1>3. /\ ring' = [ring EXCEPT ![PushSlot] = new] /\ count' = count + 1
      /\ UNCHANGED <<head, ran, replies>> /\ count < DeferMax
  BY DEF DeferPush
<1>4. TakeId(p)
  OBVIOUS
<1> HIDE DEF new, p
<1>5. /\ PushSlot \in 0 .. DeferMax - 1 /\ count \in Nat /\ head \in 0 .. DeferMax - 1
      /\ ring \in [0 .. DeferMax - 1 -> [fd : Fd \cup {NoFd}, connId : 0 .. MaxConn, id : Nat]]
  <2>1. PushSlot \in 0 .. DeferMax - 1
    BY RingPlaces DEF PushSlot, ControlInv
  <2> QED
    BY <2>1, ControlAssumption DEF ControlInv, TypeOK
<1> StillKnown
  BY <1>1, <1>4, IdsGrow
<1>6. ring' \in [0 .. DeferMax - 1 -> [fd : Fd \cup {NoFd}, connId : 0 .. MaxConn, id : Nat]]
      /\ count' \in 0 .. DeferMax
  BY <1>2, <1>3, <1>5, ControlAssumption
<1>7. Waiting' = Waiting \cup {count} /\ count \notin Waiting
  BY PushPlaces
<1>8. \A i : i = count => Entry(i)' = new
  BY PushPlaces DEF new
<1>9. \A i \in Waiting : Entry(i)' = Entry(i)
  BY PushPlaces
<1>10. /\ nextReq \in 1 .. Len(issued') /\ issued'[nextReq].by = p
  <2>1. nextReq \in Nat \ {0}
    BY DEF ControlInv, TypeOK
  <2> QED
    BY <1>1, <1>4, <2>1, TakeIdAdds DEF ControlInv
<1>11. PendingKnown'
  <2>1. ASSUME NEW i \in Waiting'
        PROVE  /\ Entry(i)'.id \in 1 .. Len(issued') /\ Entry(i)'.connId \in 1 .. nextConn' - 1
               /\ Entry(i)'.fd \in Fd
               /\ \A t \in Slot : Taken(t)' /\ clients'[t].connId = Entry(i)'.connId
                    => peer'[clients'[t].fd] = issued'[Entry(i)'.id].by
    <3>1. CASE i \in Waiting
      BY <3>1, <1>9 DEF StillKnown
    <3>2. CASE i = count
      <4>1. /\ Entry(i)'.id = nextReq /\ Entry(i)'.connId = clients[s].connId
            /\ Entry(i)'.fd = clients[s].fd
        BY <3>2, <1>2, <1>8
      <4>2. clients[s].connId \in 1 .. nextConn' - 1
        BY DEF SameOwners, ControlInv, IdsGivenOnce
      <4>3. \A t \in Slot : Taken(t)' /\ clients'[t].connId = clients[s].connId => t = s
        BY OwnersKept DEF SameOwners, ControlInv, IdsGivenOnce
      <4>4. peer'[clients'[s].fd] = p
        BY DEF SameOwners, p
      <4> QED
        BY <1>1, <1>10, <4>1, <4>2, <4>3, <4>4
    <3> QED
      BY <2>1, <3>1, <3>2, <1>7
  <2>2. \A i, j \in Waiting' : Entry(i)'.id = Entry(j)'.id => i = j
    <3>1. ASSUME NEW i \in Waiting PROVE Entry(i)'.id # nextReq
      BY <1>9 DEF StillKnown
    <3>2. \A i : i = count => Entry(i)'.id = nextReq
      BY <1>2, <1>8
    <3>3. \A i, j \in Waiting : Entry(i)'.id = Entry(j)'.id => i = j
      BY <1>9 DEF ControlInv, PendingKnown
    <3> QED
      BY <3>1, <3>2, <3>3, <1>7
  <2> QED
    BY <2>1, <2>2 DEF PendingKnown
<1>12. RepliedKnown'
  <2>1. ASSUME NEW c \in Conn, NEW i \in 1 .. Len(replies[c])
        PROVE  /\ replies[c][i].id \in 1 .. Len(issued')
               /\ \A j \in Waiting' : Entry(j)'.id # replies[c][i].id
    <3>1. /\ replies[c][i].id \in 1 .. Len(issued') /\ replies[c][i].id # nextReq
          /\ \A j \in Waiting : Entry(j)'.id # replies[c][i].id
      BY <1>9 DEF StillKnown, ControlInv, RepliedKnown
    <3>2. \A j : j = count => Entry(j)'.id = nextReq
      BY <1>2, <1>8
    <3> QED
      BY <3>1, <3>2, <1>7
  <2>2. replies' = replies
    BY <1>3
  <2> QED
    BY <2>1, <2>2 DEF RepliedKnown
<1>13. RepliesToIssuer'
  <2>1. replies' = replies /\ \A n \in 1 .. Len(issued) : issued'[n] = issued[n]
    BY <1>1, <1>3, <1>4, TakeIdAdds DEF ControlInv
  <2>2. ASSUME NEW c \in Conn, NEW i \in 1 .. Len(replies[c])
        PROVE  issued'[replies[c][i].id].by = c
    <3>1. replies[c][i].id \in 1 .. Len(issued)
      BY DEF ControlInv, RepliedKnown
    <3>2. issued[replies[c][i].id].by = c
      BY DEF ControlInv, RepliesToIssuer
    <3> QED
      BY <2>1, <3>1, <3>2
  <2>3. \A c, d \in Conn : \A i \in 1 .. Len(replies[c]), j \in 1 .. Len(replies[d]) :
          replies[c][i].id = replies[d][j].id => c = d /\ i = j
    BY DEF ControlInv, RepliesToIssuer
  <2> QED
    BY SMTT(30), <2>1, <2>2, <2>3 DEF RepliesToIssuer
<1> QED
  BY <1>6, <1>11, <1>12, <1>13, OwnersKept DEF Relations

LEMMA ReadUnitKeeps ==
  ASSUME ControlInv, ReadUnit
  PROVE  ControlInv'
<1> DEFINE c == peer[clients[cur].fd]
           line == Head(incoming[c]) # "part"
<1>1. /\ phase = "read" /\ cur \in Slot /\ incoming[c] # <<>>
      /\ incoming' = [incoming EXCEPT ![c] = Tail(@)]
      /\ IF line THEN TakeLine(cur, Head(incoming[c])) ELSE TakePart(cur)
      /\ UNCHANGED <<clientVars, nextConn, peer, watched, backlog, phase, cur>>
  BY DEF ReadUnit, ControlInv, TypeOK, NoSlot
<1>2. Taken(cur)
  BY <1>1 DEF ControlInv, Bounds, ReadsTaken
<1>3. c \in Conn
  BY <1>1, <1>2, TakenSlot DEF ControlInv
<1>4. /\ incoming \in [Conn -> Seq(Lines \cup {"part"})] /\ lineNo \in [Conn -> 0 .. MaxSent]
      /\ clients \in [Slot -> [fd : Fd \cup {NoFd}, connId : 0 .. MaxConn,
                              parts : 0 .. LineMax - 1, oversize : BOOLEAN]]
      /\ issued \in Seq([by : Conn, line : 1 .. MaxSent + 1]) /\ nextReq = Len(issued) + 1
      /\ replies \in [Conn -> Seq(Frame)] /\ ran \in Seq(1 .. Len(issued))
      /\ ring \in [0 .. DeferMax - 1 -> [fd : Fd \cup {NoFd}, connId : 0 .. MaxConn, id : Nat]]
      /\ count \in 0 .. DeferMax
  BY DEF ControlInv, TypeOK
<1> HIDE DEF c, line
\* The buffer and the two counters
<1>5. /\ clients' \in [Slot -> [fd : Fd \cup {NoFd}, connId : 0 .. MaxConn,
                               parts : 0 .. LineMax - 1, oversize : BOOLEAN]]
      /\ SameOwners
  <2>1. CASE line
    <3> DEFINE r == [clients[cur] EXCEPT !.parts = 0, !.oversize = FALSE]
    <3>1. clients' = [clients EXCEPT ![cur] = r]
      BY <1>1, <1>4, <2>1 DEF TakeLine
    <3>2. /\ r \in [fd : Fd \cup {NoFd}, connId : 0 .. MaxConn,
                    parts : 0 .. LineMax - 1, oversize : BOOLEAN]
          /\ r.fd = clients[cur].fd /\ r.connId = clients[cur].connId
      <4>1. clients[cur] \in [fd : Fd \cup {NoFd}, connId : 0 .. MaxConn,
                              parts : 0 .. LineMax - 1, oversize : BOOLEAN]
            /\ 0 \in 0 .. LineMax - 1
        BY <1>1, <1>4, ControlAssumption
      <4> QED
        BY <4>1
    <3> HIDE DEF r
    <3> QED
      BY <1>1, <1>4, <3>1, <3>2, BufferChanges
  <2>2. CASE ~line /\ clients[cur].parts + 1 = LineMax
    <3> DEFINE r == [clients[cur] EXCEPT !.parts = 0, !.oversize = TRUE]
    <3>1. clients' = [clients EXCEPT ![cur] = r]
      BY <1>1, <1>4, <2>2 DEF TakePart
    <3>2. /\ r \in [fd : Fd \cup {NoFd}, connId : 0 .. MaxConn,
                    parts : 0 .. LineMax - 1, oversize : BOOLEAN]
          /\ r.fd = clients[cur].fd /\ r.connId = clients[cur].connId
      <4>1. clients[cur] \in [fd : Fd \cup {NoFd}, connId : 0 .. MaxConn,
                              parts : 0 .. LineMax - 1, oversize : BOOLEAN]
            /\ 0 \in 0 .. LineMax - 1
        BY <1>1, <1>4, ControlAssumption
      <4> QED
        BY <4>1
    <3> HIDE DEF r
    <3> QED
      BY <1>1, <1>4, <3>1, <3>2, BufferChanges
  <2>3. CASE ~line /\ clients[cur].parts + 1 # LineMax
    <3> DEFINE r == [clients[cur] EXCEPT !.parts = @ + 1]
    <3>1. clients' = [clients EXCEPT ![cur] = r]
      BY <1>1, <2>3 DEF TakePart
    <3>2. /\ r \in [fd : Fd \cup {NoFd}, connId : 0 .. MaxConn,
                    parts : 0 .. LineMax - 1, oversize : BOOLEAN]
          /\ r.fd = clients[cur].fd /\ r.connId = clients[cur].connId
      <4>1. clients[cur] \in [fd : Fd \cup {NoFd}, connId : 0 .. MaxConn,
                              parts : 0 .. LineMax - 1, oversize : BOOLEAN]
        BY <1>1, <1>4
      <4>2. clients[cur].parts + 1 \in 0 .. LineMax - 1
        BY <2>3, <4>1, ControlAssumption
      <4> QED
        BY <4>1, <4>2
    <3> HIDE DEF r
    <3> QED
      BY <1>1, <1>4, <3>1, <3>2, BufferChanges
  <2> QED
    BY <2>1, <2>2, <2>3
<1>6. /\ incoming' \in [Conn -> Seq(Lines \cup {"part"})]
      /\ Len(incoming'[c]) = Len(incoming[c]) - 1
      /\ \A d \in Conn \ {c} : incoming'[d] = incoming[d]
  <2>1. incoming[c] \in Seq(Lines \cup {"part"})
    BY <1>3, <1>4
  <2>2. Tail(incoming[c]) \in Seq(Lines \cup {"part"})
        /\ Len(Tail(incoming[c])) = Len(incoming[c]) - 1
    BY <1>1, <2>1
  <2> QED
    BY <1>1, <1>3, <1>4, <2>2
<1>7. /\ lineNo' \in {lineNo, [lineNo EXCEPT ![c] = @ + 1]}
      /\ sent[c] \in 0 .. MaxSent /\ lineNo[c] \in Nat
      /\ Len(incoming[c]) \in Nat \ {0} /\ lineNo[c] + Len(incoming[c]) <= sent[c]
  <2>1. lineNo' \in {lineNo, [lineNo EXCEPT ![c] = @ + 1]}
    <3>1. CASE line
      BY <1>1, <3>1 DEF TakeLine, c
    <3>2. CASE ~line
      BY <1>1, <3>2 DEF TakePart
    <3> QED
      BY <3>1, <3>2
  <2>2. sent[c] \in 0 .. MaxSent /\ lineNo[c] \in Nat /\ lineNo[c] + Len(incoming[c]) <= sent[c]
    BY <1>3, ControlAssumption DEF ControlInv, TypeOK, Bounds, UnitsBound
  <2>3. Len(incoming[c]) \in Nat \ {0}
    BY <1>1, <1>3, <1>4
  <2> QED
    BY <2>1, <2>2, <2>3
<1>8. /\ lineNo' \in [Conn -> 0 .. MaxSent] /\ UnitsBound'
  <2>1. lineNo'[c] \in {lineNo[c], lineNo[c] + 1} /\ \A d \in Conn \ {c} : lineNo'[d] = lineNo[d]
    BY <1>3, <1>4, <1>7
  <2>2. lineNo'[c] \in 0 .. MaxSent /\ lineNo'[c] + Len(incoming'[c]) <= sent[c]
    <3>1. Len(incoming'[c]) = Len(incoming[c]) - 1
      BY <1>6
    <3>2. lineNo'[c] \in Nat /\ lineNo'[c] <= lineNo[c] + 1
      BY <1>7, <2>1
    <3>3. lineNo'[c] + (Len(incoming[c]) - 1) <= sent[c] /\ lineNo'[c] <= sent[c]
      BY <1>7, <3>2
    <3> QED
      BY <1>7, <3>1, <3>2, <3>3, ControlAssumption
  <2>3. lineNo' \in [Conn -> 0 .. MaxSent]
    BY <1>3, <1>4, <1>7, <2>1, <2>2
  <2>4. \A d \in Conn : lineNo'[d] + Len(incoming'[d]) <= sent[d]
    BY <1>6, <2>1, <2>2 DEF ControlInv, Bounds, UnitsBound
  <2> QED
    BY <1>1, <2>3, <2>4 DEF UnitsBound, clientVars
\* The requests
<1>9. /\ Relations' /\ replies' \in [Conn -> Seq(Frame)] /\ head' = head /\ ran' = ran
      /\ count' \in 0 .. DeferMax
      /\ ring' \in [0 .. DeferMax - 1 -> [fd : Fd \cup {NoFd}, connId : 0 .. MaxConn, id : Nat]]
      /\ \/ UNCHANGED <<issued, nextReq>>
         \/ TakeId(c)
  <2>1. CASE UNCHANGED <<replyVars, ringVars>>
    BY <2>1, <1>4, <1>5, SilentRead DEF replyVars, ringVars
  <2>2. CASE TakeId(c) /\ Reply(clients[cur].fd, nextReq) /\ UNCHANGED ringVars
    BY <2>2, <1>1, <1>2, <1>4, <1>5, AnsweredRead DEF ringVars, c
  <2>3. CASE TakeId(c) /\ DeferPush(cur)
    <3>1. /\ Relations' /\ count' \in 0 .. DeferMax
          /\ ring' \in [0 .. DeferMax - 1 -> [fd : Fd \cup {NoFd}, connId : 0 .. MaxConn, id : Nat]]
      BY <2>3, <1>1, <1>2, <1>5, DeferredRead DEF c
    <3> QED
      BY <2>3, <3>1, <1>4 DEF DeferPush
  <2>4. \/ UNCHANGED <<replyVars, ringVars>>
        \/ TakeId(c) /\ Reply(clients[cur].fd, nextReq) /\ UNCHANGED ringVars
        \/ TakeId(c) /\ DeferPush(cur)
    BY <1>1 DEF TakeLine, TakePart, Dispatch, c
  <2> QED
    BY <2>1, <2>2, <2>3, <2>4
<1>10. /\ issued' \in Seq([by : Conn, line : 1 .. MaxSent + 1]) /\ nextReq' = Len(issued') + 1
       /\ Len(issued') >= Len(issued) /\ Len(issued) \in Nat /\ Len(issued') \in Nat
  <2>1. CASE UNCHANGED <<issued, nextReq>>
    BY <2>1, <1>4
  <2>2. CASE TakeId(c)
    <3>1. /\ issued' \in Seq([by : Conn, line : 1 .. MaxSent + 1])
          /\ Len(issued') = Len(issued) + 1 /\ nextReq' = Len(issued') + 1
      BY <2>2, <1>3, TakeIdAdds DEF ControlInv
    <3> QED
      BY <3>1, <1>4
  <2> QED
    BY <1>9, <2>1, <2>2
<1>11. ran' \in Seq(1 .. Len(issued'))
  <2>1. 1 .. Len(issued) \subseteq 1 .. Len(issued')
    BY <1>10
  <2> QED
    BY <1>4, <1>9, <2>1, WiderSeq
<1>12. TypeOK'
  BY <1>1, <1>5, <1>6, <1>8, <1>9, <1>10, <1>11 DEF clientVars, ControlInv, TypeOK
<1>13. Bounds'
  <2>1. ReadsTaken'
    BY <1>1, <1>2, <1>5, OwnersKept DEF ReadsTaken, Taken, SameOwners
  <2> QED
    BY <1>1, <1>8, <2>1 DEF clientVars, ControlInv, Bounds, AcceptedBound
<1> QED
  BY <1>9, <1>12, <1>13 DEF ControlInv, Relations

-----------------------------------------------------------------------------
(* The specification                                                       *)

LEMMA InitControlInv == Init => ControlInv
<1> SUFFICES ASSUME Init PROVE ControlInv
  OBVIOUS
<1>1. FreeSlot \in [fd : Fd \cup {NoFd}, connId : 0 .. MaxConn,
                    parts : 0 .. LineMax - 1, oversize : BOOLEAN] /\ FreeSlot.fd = NoFd
  BY ControlAssumption DEF FreeSlot
<1>2. /\ clients \in [Slot -> [fd : Fd \cup {NoFd}, connId : 0 .. MaxConn,
                              parts : 0 .. LineMax - 1, oversize : BOOLEAN]]
      /\ \A s \in Slot : clients[s].fd = NoFd
  BY <1>1 DEF Init
<1>3. /\ ring \in [0 .. DeferMax - 1 -> [fd : Fd \cup {NoFd}, connId : 0 .. MaxConn, id : Nat]]
      /\ head \in 0 .. DeferMax - 1 /\ count \in 0 .. DeferMax
  BY ControlAssumption DEF Init
<1>4. /\ issued = <<>> /\ nextReq = Len(issued) + 1 /\ nextConn \in 1 .. MaxConn + 1
      /\ issued \in Seq([by : Conn, line : 1 .. MaxSent + 1])
      /\ ran \in Seq(1 .. Len(issued)) /\ backlog \in Seq(Conn) /\ made \in 0 .. MaxConn
  BY ControlAssumption DEF Init
<1>5. /\ incoming \in [Conn -> Seq(Lines \cup {"part"})] /\ replies \in [Conn -> Seq(Frame)]
      /\ sent \in [Conn -> 0 .. MaxSent] /\ lineNo \in [Conn -> 0 .. MaxSent]
  BY ControlAssumption DEF Init
<1>6. TypeOK
  BY <1>2, <1>3, <1>4, <1>5 DEF Init, TypeOK
<1>7. Bounds
  <2>1. AcceptedBound
    BY DEF Init, AcceptedBound
  <2>2. UnitsBound
    BY DEF Init, UnitsBound
  <2> QED
    BY <2>1, <2>2 DEF Init, Bounds, ReadsTaken
<1>8. SlotsOwnDescriptors
  BY <1>2, ControlAssumption DEF Init, SlotsOwnDescriptors
<1>9. IdsGivenOnce /\ PendingKnown
  <2>1. Waiting = {}
    BY DEF Init, Waiting
  <2> QED
    BY <1>2, <2>1 DEF IdsGivenOnce, PendingKnown, Taken
<1>10. RepliedKnown /\ RepliesToIssuer
  BY DEF Init, RepliedKnown, RepliesToIssuer
<1> QED
  BY <1>6, <1>7, <1>8, <1>9, <1>10 DEF ControlInv

LEMMA NextControlInv == ControlInv /\ [Next]_vars => ControlInv'
<1> SUFFICES ASSUME ControlInv, [Next]_vars PROVE ControlInv'
  OBVIOUS
<1>1. CASE Connect
  BY <1>1, ConnectKeeps
<1>2. CASE \E c \in Conn : Send(c) \/ HangUp(c)
  BY <1>2, SendKeeps, HangUpKeeps
<1>3. CASE StartAccept \/ AcceptDone \/ (\E s \in Slot : StartRead(s)) \/ ReadDone
             \/ StartDrain \/ DrainDone
  BY <1>3, PhaseKeeps
<1>4. CASE AcceptOne
  BY <1>4, AcceptOneKeeps
<1>5. CASE ReadUnit
  BY <1>5, ReadUnitKeeps
<1>6. CASE ReadEnds
  BY <1>6, ReadEndsKeeps
<1>7. CASE DrainOne
  BY <1>7, DrainOneKeeps
<1>8. CASE Shutdown
  BY <1>8, ShutdownKeeps
<1>9. CASE UNCHANGED vars
  <2>1. Relations'
    BY <1>9, QuietStep DEF vars, serverVars, ringVars, replyVars
  <2>2. TypeOK' /\ Bounds'
    BY <1>9 DEF vars, serverVars, ringVars, replyVars, clientVars, ControlInv, TypeOK, Bounds,
         AcceptedBound, UnitsBound, ReadsTaken, Taken
  <2> QED
    BY <2>1, <2>2 DEF ControlInv, Relations
<1> QED
  BY <1>1, <1>2, <1>3, <1>4, <1>5, <1>6, <1>7, <1>8, <1>9 DEF Next, ClientNext, ServerNext

LEMMA ControlInvariant == Spec => []ControlInv
<1>1. Init => ControlInv
  BY InitControlInv
<1>2. ControlInv /\ [Next]_vars => ControlInv'
  BY NextControlInv
<1> QED
  BY <1>1, <1>2, PTL DEF Spec

\* control.c's state keeps its shape for any number of clients: ids stay below
\* the counters that give them, the ring's head and count inside the ring.
THEOREM TypeCorrect == Spec => []TypeOK
<1>1. ControlInv => TypeOK
  BY DEF ControlInv
<1> QED
  BY <1>1, ControlInvariant, PTL

\* client_alloc, client_close and the accept handler's error paths leave every
\* open descriptor with one slot and with that slot's handler.
THEOREM SlotsAgree == Spec => []SlotsOwnDescriptors
<1>1. ControlInv => SlotsOwnDescriptors
  BY DEF ControlInv
<1> QED
  BY <1>1, ControlInvariant, PTL

\* The conn_id test of control_drain_deferred is enough: no reply goes to the
\* new owner of a descriptor, and none is sent twice.
THEOREM RepliesReachIssuer == Spec => []RepliesToIssuer
<1>1. ControlInv => RepliesToIssuer
  BY DEF ControlInv
<1> QED
  BY <1>1, ControlInvariant, PTL

-----------------------------------------------------------------------------
(***************************************************************************)
(* The ring implements the queue of evals. A push is Submit, a round of    *)
(* the drain is Serve, the shutdown is Abandon, and no other step changes  *)
(* what waits, what has run, or which of the evals that ran was answered:  *)
(* an id that is answered at once never enters the ring.                   *)
(***************************************************************************)

\* Sequences that are written as functions on 1 .. n.
OnPlaces(f, n) == f = [i \in 1 .. n |-> f[i]]

LEMMA FunctionSeq ==
  ASSUME NEW n \in Nat, NEW f, OnPlaces(f, n)
  PROVE  f \in Seq({f[i] : i \in 1 .. n}) /\ Len(f) = n
<1> DEFINE S == {f[i] : i \in 1 .. n}
<1>1. f \in [1 .. n -> S]
  BY DEF OnPlaces
<1> HIDE DEF S
<1> QED
  BY <1>1 DEF S

LEMMA TailByPlace ==
  ASSUME NEW n \in Nat, n > 0, NEW f, OnPlaces(f, n),
         NEW g, OnPlaces(g, n - 1), \A i \in 1 .. n - 1 : g[i] = f[i + 1]
  PROVE  f # <<>> /\ g = Tail(f) /\ Head(f) = f[1]
<1> DEFINE S == {f[i] : i \in 1 .. n}
<1>1. f \in Seq(S) /\ Len(f) = n
  BY FunctionSeq
<1>2. g \in Seq({g[i] : i \in 1 .. n - 1}) /\ Len(g) = n - 1
  BY FunctionSeq
<1>3. {g[i] : i \in 1 .. n - 1} \subseteq S
  <2>1. \A i \in 1 .. n - 1 : i + 1 \in 1 .. n
    OBVIOUS
  <2> QED
    BY <2>1
<1> HIDE DEF S
<1>4. g \in Seq(S)
  BY <1>2, <1>3, WiderSeq
<1>5. f # <<>> /\ Head(f) = f[1]
  BY <1>1
<1>6. Tail(f) \in Seq(S) /\ Len(Tail(f)) = n - 1 /\ \A i \in 1 .. n - 1 : Tail(f)[i] = f[i + 1]
  BY <1>1, <1>5, HeadTailProperties
<1>7. g = Tail(f)
  BY <1>2, <1>4, <1>6, SeqEqual
<1> QED
  BY <1>5, <1>7

LEMMA FrontByPlace ==
  ASSUME NEW n \in Nat, NEW f, OnPlaces(f, n),
         NEW g, OnPlaces(g, n + 1), \A i \in 1 .. n : g[i] = f[i]
  PROVE  Len(f) = n /\ Len(g) = n + 1 /\ SubSeq(g, 1, n) = f
<1> DEFINE S == {g[i] : i \in 1 .. n + 1}
<1>1. g \in Seq(S) /\ Len(g) = n + 1
  BY FunctionSeq
<1>2. f \in Seq({f[i] : i \in 1 .. n}) /\ Len(f) = n
  BY FunctionSeq
<1>3. {f[i] : i \in 1 .. n} \subseteq S
  <2>1. \A i \in 1 .. n : i \in 1 .. n + 1
    OBVIOUS
  <2> QED
    BY <2>1
<1> HIDE DEF S
<1>4. f \in Seq(S)
  BY <1>2, <1>3, WiderSeq
<1>5. /\ SubSeq(g, 1, n) \in Seq(S) /\ Len(SubSeq(g, 1, n)) = n
      /\ \A i \in 1 .. n : SubSeq(g, 1, n)[i] = g[i]
  BY <1>1, SubSeqProperties
<1>6. SubSeq(g, 1, n) = f
  BY <1>2, <1>4, <1>5, SeqEqual
<1> QED
  BY <1>1, <1>2, <1>6

\* An eval in the ring, as the queue sees it.
Eval(i) == [by |-> issued[Entry(i).id].by, id |-> Entry(i).id]

LEMMA PendingPlaces ==
  /\ Pending = [i \in 1 .. count |-> Eval(i - 1)]
  /\ Pending' = [i \in 1 .. count' |-> Eval(i - 1)']
BY DEF Pending, Eval, Entry

\* Frames are only added, by Reply, and at most the one it was called for.
LEMMA FramesAfterReply ==
  ASSUME TypeOK, NEW f \in Fd, peer[f] \in Conn, NEW id \in Nat \ {0}, Reply(f, id)
  PROVE  \/ \A c \in Conn, x \in Nat : HasFrame(c, x)' <=> HasFrame(c, x)
         \/ \A c \in Conn, x \in Nat :
              HasFrame(c, x)' <=> HasFrame(c, x) \/ (c = peer[f] /\ x = id)
<1> DEFINE p == peer[f]
<1>1. /\ \A c \in Conn \ {p} : replies'[c] = replies[c]
      /\ \/ replies'[p] = replies[p]
         \/ /\ Len(replies'[p]) = Len(replies[p]) + 1
            /\ replies'[p][Len(replies[p]) + 1].id = id
            /\ \A i \in 1 .. Len(replies[p]) : replies'[p][i] = replies[p][i]
  BY ReplyAdds
<1>2. Len(replies[p]) \in Nat
  BY DEF TypeOK
<1> HIDE DEF p
<1>3. \A c \in Conn \ {p}, x \in Nat : HasFrame(c, x)' <=> HasFrame(c, x)
  BY <1>1 DEF HasFrame
<1>4. CASE replies'[p] = replies[p]
  <2>1. ASSUME NEW c \in Conn, c = p, NEW x \in Nat
        PROVE  HasFrame(c, x)' <=> HasFrame(c, x)
    BY <1>4, <2>1 DEF HasFrame
  <2> QED
    BY <1>3, <2>1
<1>5. CASE /\ Len(replies'[p]) = Len(replies[p]) + 1
           /\ replies'[p][Len(replies[p]) + 1].id = id
           /\ \A i \in 1 .. Len(replies[p]) : replies'[p][i] = replies[p][i]
  <2> DEFINE m == Len(replies[p])
  <2>1. \A x \in Nat : (\E i \in 1 .. m + 1 : replies'[p][i].id = x)
                          <=> (\E i \in 1 .. m : replies[p][i].id = x) \/ x = id
    <3>1. 1 .. m + 1 = (1 .. m) \cup {m + 1}
      BY <1>2
    <3> QED
      BY <1>5, <3>1
  <2>2. Len(replies'[p]) = m + 1
    BY <1>5
  <2> HIDE DEF m
  <2>3. ASSUME NEW c \in Conn, c = p, NEW x \in Nat
        PROVE  HasFrame(c, x)' <=> HasFrame(c, x) \/ x = id
    BY <2>1, <2>2, <2>3 DEF HasFrame, m
  <2> QED
    BY <1>3, <2>3 DEF p
<1> QED
  BY <1>1, <1>4, <1>5

\* A step that moves nothing in the ring, where ids of frames may be added that
\* no eval has had.
LEMMA QueueIdle ==
  ASSUME ControlInv, UNCHANGED <<ring, head, count, ran>>,
         (phase = "halt") = (phase' = "halt"),
         \A i \in 1 .. Len(issued) : issued'[i] = issued[i],
         \A c \in Conn : \A x \in 1 .. Len(issued) : HasFrame(c, x)' <=> HasFrame(c, x)
  PROVE  UNCHANGED Evals!queueVars
<1>1. ran \in Seq(1 .. Len(issued))
  BY DEF ControlInv, TypeOK
<1>2. ToSet(ran) \subseteq 1 .. Len(issued) /\ ToSet(ran)' = ToSet(ran)
  BY <1>1 DEF ToSet
<1>3. Answered' = Answered
  BY <1>2 DEF Answered
<1>4. Pending' = Pending
  <2>1. \A i \in 1 .. count : i - 1 \in Waiting
    BY DEF Waiting, ControlInv, TypeOK
  <2>2. \A i \in Waiting : Entry(i)' = Entry(i) /\ Entry(i).id \in 1 .. Len(issued)
    BY DEF ControlInv, PendingKnown, Entry
  <2>3. \A i \in Waiting : Eval(i)' = Eval(i)
    BY <2>2 DEF Eval
  <2>4. \A i \in 1 .. count : Eval(i - 1)' = Eval(i - 1)
    BY <2>1, <2>3
  <2> QED
    BY <2>4, PendingPlaces
<1> QED
  BY <1>3, <1>4 DEF Evals!queueVars

\* One round of control_drain_deferred serves the oldest eval.
LEMMA DrainServes ==
  ASSUME ControlInv, DrainOne
  PROVE  Evals!Serve
<1> DEFINE e == ring[head]
           by == issued[e.id].by
<1>1. /\ phase = "drain" /\ phase' = phase /\ count > 0 /\ count \in Nat /\ count' = count - 1
      /\ ran' = Append(ran, e.id) /\ issued' = issued
      /\ IF \E s \in Slot : IsIssuer(s, e) THEN Reply(e.fd, e.id) ELSE UNCHANGED replies
  BY ControlAssumption DEF DrainOne, ControlInv, TypeOK
<1>2. /\ e = Entry(0) /\ 0 \in Waiting
      /\ \A i \in Waiting' : i + 1 \in Waiting /\ Entry(i)' = Entry(i + 1)
  BY DrainShifts
<1>3. /\ e.id \in 1 .. Len(issued) /\ Len(issued) \in Nat /\ e.fd \in Fd /\ by \in Conn
      /\ \A s \in Slot : Taken(s) /\ clients[s].connId = e.connId
           => peer[clients[s].fd] = by
  <2>1. /\ e.id \in 1 .. Len(issued) /\ e.fd \in Fd
        /\ \A s \in Slot : Taken(s) /\ clients[s].connId = e.connId
             => peer[clients[s].fd] = by
    BY <1>2 DEF ControlInv, PendingKnown
  <2>2. issued \in Seq([by : Conn, line : 1 .. MaxSent + 1])
    BY DEF ControlInv, TypeOK
  <2>3. \A n \in 1 .. Len(issued) : issued[n].by \in Conn
    <3>1. ASSUME NEW n \in 1 .. Len(issued) PROVE issued[n].by \in Conn
      <4>1. issued[n] \in [by : Conn, line : 1 .. MaxSent + 1]
        BY <2>2, ElementOfSeq
      <4> QED
        BY <4>1
    <3> QED
      BY <3>1
  <2> QED
    BY <2>1, <2>2, <2>3
<1>4. Pending # <<>> /\ Pending' = Tail(Pending) /\ Head(Pending) = Eval(0)
  <2>1. \A i \in 1 .. count - 1 : Eval(i - 1)' = Eval(i)
    <3>1. ASSUME NEW i \in 1 .. count - 1 PROVE Eval(i - 1)' = Eval(i)
      <4>1. i - 1 \in Waiting' /\ (i - 1) + 1 = i
        BY <1>1 DEF Waiting
      <4>2. Entry(i - 1)' = Entry(i)
        BY <1>2, <4>1
      <4> QED
        BY <1>1, <4>2 DEF Eval
    <3> QED
      BY <3>1
  <2>2. Pending = [i \in 1 .. count |-> Eval(i - 1)] /\ Pending' = [i \in 1 .. count - 1 |-> Eval(i - 1)']
    BY <1>1, PendingPlaces
  <2>3. OnPlaces(Pending, count) /\ OnPlaces(Pending', count - 1)
    BY <2>2 DEF OnPlaces
  <2>4. /\ \A i \in 1 .. count - 1 : Pending'[i] = Pending[i + 1]
        /\ Pending[1] = Eval(0)
    <3>1. \A i \in 1 .. count - 1 : i + 1 \in 1 .. count /\ (i + 1) - 1 = i
      BY <1>1
    <3>2. 1 \in 1 .. count /\ 1 - 1 = 0
      BY <1>1
    <3> QED
      BY <2>1, <2>2, <3>1, <3>2
  <2> QED
    BY <1>1, <2>3, <2>4, TailByPlace
<1>5. Head(Pending).id = e.id /\ Head(Pending).by = by
  BY <1>2, <1>4 DEF Eval
<1>6. ToSet(ran') = ToSet(ran) \cup {e.id} /\ ToSet(ran) \subseteq Nat /\ e.id \in Nat \ {0}
  <2>1. ran \in Seq(1 .. Len(issued)) /\ e.id \in Nat \ {0}
    <3>1. ran \in Seq(1 .. Len(issued))
      BY DEF ControlInv, TypeOK
    <3> HIDE DEF e
    <3>2. e.id \in Nat \ {0}
      BY <1>3
    <3> QED
      BY <3>1, <3>2
  <2>2. ran \in Seq(Nat)
    BY <2>1, WiderSeq
  <2> HIDE DEF e
  <2>3. /\ Len(ran') = Len(ran) + 1 /\ ran'[Len(ran) + 1] = e.id /\ Len(ran) \in Nat
        /\ \A i \in 1 .. Len(ran) : ran'[i] = ran[i] /\ ran[i] \in Nat
        /\ DOMAIN ran = 1 .. Len(ran) /\ DOMAIN ran' = 1 .. Len(ran) + 1
    BY <1>1, <2>1, <2>2
  <2> QED
    BY <2>1, <2>3 DEF ToSet
<1>7. \A c \in Conn : ~HasFrame(c, e.id)
  BY <1>2 DEF ControlInv, RepliedKnown, HasFrame
<1>8. \/ \A c \in Conn, x \in Nat : HasFrame(c, x)' <=> HasFrame(c, x)
      \/ \A c \in Conn, x \in Nat :
           HasFrame(c, x)' <=> HasFrame(c, x) \/ (c = by /\ x = e.id)
  <2>1. CASE \E s \in Slot : IsIssuer(s, e)
    <3>1. PICK s \in Slot : IsIssuer(s, e)
      BY <2>1
    <3>2. Taken(s) /\ clients[s].fd = e.fd /\ clients[s].connId = e.connId
      BY <1>3, <3>1, ControlAssumption DEF IsIssuer, Taken
    <3>3. peer[e.fd] = by
      BY <1>3, <3>2
    <3>4. Reply(e.fd, e.id) /\ e.fd \in Fd /\ by \in Conn
      BY <1>1, <1>3, <2>1
    <3> HIDE DEF e, by
    <3> QED
      BY <1>6, <3>3, <3>4, FramesAfterReply DEF ControlInv
  <2>2. CASE ~\E s \in Slot : IsIssuer(s, e)
    BY <1>1, <2>2 DEF HasFrame
  <2> QED
    BY <2>1, <2>2
<1> HIDE DEF e, by
<1>9. \/ Answered' = Answered
      \/ Answered' = Answered \cup {<<by, e.id>>}
  <2>1. CASE \A c \in Conn, x \in Nat : HasFrame(c, x)' <=> HasFrame(c, x)
    BY <1>6, <1>7, <2>1 DEF Answered
  <2>2. CASE \A c \in Conn, x \in Nat :
               HasFrame(c, x)' <=> HasFrame(c, x) \/ (c = by /\ x = e.id)
    BY <1>3, <1>6, <1>7, <2>2 DEF Answered
  <2> QED
    BY <1>8, <2>1, <2>2
<1> QED
  BY <1>1, <1>4, <1>5, <1>9 DEF Evals!Serve

\* What ReadUnit does to the ring and the replies.
LEMMA UnitRequests ==
  ASSUME ControlInv, ReadUnit
  PROVE  /\ phase = "read" /\ phase' = phase /\ cur \in Slot /\ Taken(cur)
         /\ peer[clients[cur].fd] \in Conn /\ clients[cur].fd \in Fd
         /\ \/ UNCHANGED <<replyVars, ringVars>>
            \/ /\ TakeId(peer[clients[cur].fd])
               /\ \/ Reply(clients[cur].fd, nextReq) /\ UNCHANGED ringVars
                  \/ DeferPush(cur)
<1>1. /\ phase = "read" /\ phase' = phase /\ cur \in Slot
      /\ TakeLine(cur, Head(incoming[peer[clients[cur].fd]])) \/ TakePart(cur)
  BY DEF ReadUnit, ControlInv, TypeOK, NoSlot
<1>2. Taken(cur)
  BY <1>1 DEF ControlInv, Bounds, ReadsTaken
<1>3. peer[clients[cur].fd] \in Conn /\ clients[cur].fd \in Fd
  BY <1>1, <1>2, TakenSlot DEF ControlInv
<1> QED
  BY <1>1, <1>2, <1>3 DEF TakeLine, TakePart, Dispatch

\* An eval that finds room is submitted.
LEMMA PushSubmits ==
  ASSUME ControlInv, phase # "halt", phase' # "halt", NEW s \in Slot, Taken(s),
         TakeId(peer[clients[s].fd]), DeferPush(s)
  PROVE  \E c \in Conn : Evals!Submit(c)
<1> DEFINE c == peer[clients[s].fd]
<1>1. c \in Conn
  BY TakenSlot DEF ControlInv
<1>2. /\ count' = count + 1 /\ count < DeferMax /\ count \in Nat /\ UNCHANGED <<ran, replies>>
  BY ControlAssumption DEF DeferPush, ControlInv, TypeOK
<1>3. /\ nextReq = Len(issued) + 1 /\ Len(issued) \in Nat
      /\ issued'[nextReq].by = c /\ \A n \in 1 .. Len(issued) : issued'[n] = issued[n]
  <2>1. nextReq = Len(issued) + 1 /\ Len(issued) \in Nat
    BY DEF ControlInv, TypeOK
  <2> QED
    BY <1>1, <2>1, TakeIdAdds DEF ControlInv
<1>4. /\ \A i : i = count => Entry(i)' =
           [fd |-> clients[s].fd, connId |-> clients[s].connId, id |-> nextReq]
      /\ \A i \in Waiting : Entry(i)' = Entry(i)
  BY PushPlaces
<1>5. \A i \in Waiting : Entry(i).id \in 1 .. Len(issued)
  BY DEF ControlInv, PendingKnown
<1> HIDE DEF c
<1>6. \A i \in Waiting : Eval(i)' = Eval(i)
  BY <1>3, <1>4, <1>5 DEF Eval
<1>7. \A i : i = count => Eval(i)'.by = c /\ Eval(i)'.id = nextReq
  <2>1. \A i : i = count => Entry(i)'.id = nextReq
    BY <1>4
  <2> QED
    BY <1>3, <2>1 DEF Eval
<1>8. /\ OnPlaces(Pending, count) /\ OnPlaces(Pending', count + 1)
      /\ \A i \in 1 .. count : Pending[i] = Eval(i - 1) /\ Pending'[i] = Pending[i]
      /\ Pending'[count + 1].by = c /\ Pending'[count + 1].id = nextReq
  <2>1. Pending = [i \in 1 .. count |-> Eval(i - 1)] /\ Pending' = [i \in 1 .. count + 1 |-> Eval(i - 1)']
    BY <1>2, PendingPlaces
  <2>2. \A i \in 1 .. count : i - 1 \in Waiting /\ Eval(i - 1)' = Eval(i - 1)
    BY <1>2, <1>6 DEF Waiting
  <2>3. \A i \in 1 .. count + 1 : Pending'[i] = Eval(i - 1)'
    BY <2>1
  <2>4. Pending'[count + 1].by = c /\ Pending'[count + 1].id = nextReq
    <3>1. count + 1 \in 1 .. count + 1 /\ (count + 1) - 1 = count
      BY <1>2
    <3> QED
      BY <1>7, <2>3, <3>1
  <2> QED
    <3>1. OnPlaces(Pending, count) /\ OnPlaces(Pending', count + 1)
      BY <2>1 DEF OnPlaces
    <3>2. \A i \in 1 .. count : i \in 1 .. count + 1 /\ Pending[i] = Eval(i - 1)
      BY <1>2, <2>1
    <3> QED
      BY <2>2, <2>3, <2>4, <3>1, <3>2
<1>9. /\ Len(Pending) = count /\ Len(Pending') = count + 1
      /\ SubSeq(Pending', 1, count) = Pending
  BY <1>2, <1>8, FrontByPlace
<1>10. /\ Evals!Front(Pending') = Pending
       /\ Evals!Last(Pending').by = c /\ Evals!Last(Pending').id = nextReq
  <2>1. (count + 1) - 1 = count
    BY <1>2
  <2> QED
    BY <1>8, <1>9, <2>1 DEF Evals!Front, Evals!Last
<1>11. \A id \in {e.id : e \in Evals!ToSet(Pending)} \cup Evals!ToSet(ran) : id < nextReq
  <2>1. \A e \in Evals!ToSet(Pending) : e.id < nextReq
    <3>1. DOMAIN Pending = 1 .. count /\ \A i \in 1 .. count : Pending[i].id \in 1 .. Len(issued)
      <4>1. \A i \in 1 .. count : i - 1 \in Waiting
        BY <1>2 DEF Waiting
      <4>2. \A i \in Waiting : Eval(i).id \in 1 .. Len(issued)
        BY <1>5 DEF Eval
      <4>3. DOMAIN Pending = 1 .. count
        BY PendingPlaces
      <4> QED
        BY <1>8, <4>1, <4>2, <4>3
    <3> QED
      BY <1>3, <3>1 DEF Evals!ToSet
  <2>2. ran \in Seq(1 .. Len(issued))
    BY DEF ControlInv, TypeOK
  <2>3. \A id \in Evals!ToSet(ran) : id < nextReq
    BY <1>3, <2>2 DEF Evals!ToSet
  <2> QED
    BY <2>1, <2>3
<1>12. Answered' = Answered
  BY <1>2 DEF Answered, HasFrame
<1>13. Evals!Submit(c)
  BY <1>2, <1>9, <1>10, <1>11, <1>12 DEF Evals!Submit
<1> QED
  BY <1>1, <1>13

\* The end of the application drops what waits.
LEMMA ShutdownAbandons ==
  ASSUME ControlInv, Shutdown
  PROVE  Evals!Abandon
<1>1. phase = "pump" /\ phase' = "halt" /\ count' = 0 /\ UNCHANGED <<ran, replies>>
  BY DEF Shutdown, replyVars
<1>2. Answered' = Answered
  BY <1>1 DEF Answered, HasFrame
<1>3. Pending' = <<>>
  <2>1. Pending' = [i \in 1 .. 0 |-> Eval(i - 1)']
    BY <1>1, PendingPlaces
  <2> QED
    BY <2>1
<1> QED
  BY <1>1, <1>2, <1>3 DEF Evals!Abandon

LEMMA NextEvals ==
  ASSUME ControlInv, [Next]_vars
  PROVE  [Evals!EvalQueueNext]_(Evals!queueVars)
<1>0. Len(issued) \in Nat /\ nextReq = Len(issued) + 1
  BY DEF ControlInv, TypeOK
<1>1. CASE ReadUnit
  <2> DEFINE c == peer[clients[cur].fd]
  <2>1. /\ phase = "read" /\ phase' = phase /\ cur \in Slot /\ Taken(cur)
        /\ c \in Conn /\ clients[cur].fd \in Fd
        /\ \/ UNCHANGED <<replyVars, ringVars>>
           \/ /\ TakeId(c)
              /\ \/ Reply(clients[cur].fd, nextReq) /\ UNCHANGED ringVars
                 \/ DeferPush(cur)
    BY <1>1, UnitRequests
  <2>2. CASE UNCHANGED <<replyVars, ringVars>>
    BY <2>1, <2>2, QueueIdle DEF replyVars, ringVars, HasFrame
  <2>3. CASE TakeId(c) /\ Reply(clients[cur].fd, nextReq) /\ UNCHANGED ringVars
    <3>1. \A n \in 1 .. Len(issued) : issued'[n] = issued[n]
      BY <2>1, <2>3, TakeIdAdds DEF ControlInv
    <3>2. \/ \A d \in Conn, x \in Nat : HasFrame(d, x)' <=> HasFrame(d, x)
          \/ \A d \in Conn, x \in Nat :
               HasFrame(d, x)' <=> HasFrame(d, x) \/ (d = c /\ x = nextReq)
      BY <1>0, <2>1, <2>3, FramesAfterReply DEF ControlInv
    <3>3. \A d \in Conn : \A x \in 1 .. Len(issued) : HasFrame(d, x)' <=> HasFrame(d, x)
      BY <1>0, <3>2
    <3> QED
      BY <2>1, <2>3, <3>1, <3>3, QueueIdle DEF ringVars
  <2>4. CASE TakeId(c) /\ DeferPush(cur)
    BY <2>1, <2>4, PushSubmits DEF Evals!EvalQueueNext
  <2> QED
    BY <2>1, <2>2, <2>3, <2>4
<1>2. CASE DrainOne
  BY <1>2, DrainServes DEF Evals!EvalQueueNext
<1>3. CASE Shutdown
  BY <1>3, ShutdownAbandons DEF Evals!EvalQueueNext
<1>4. CASE ClientNext \/ StartAccept \/ AcceptOne \/ AcceptDone \/ ReadDone \/ ReadEnds
             \/ StartDrain \/ DrainDone \/ (\E s \in Slot : StartRead(s)) \/ UNCHANGED vars
  <2>1. UNCHANGED <<ringVars, replyVars>> /\ (phase = "halt") = (phase' = "halt")
    BY <1>4 DEF ClientNext, Connect, Send, HangUp, StartAccept, AcceptOne, AcceptDone, ReadDone,
         ReadEnds, StartDrain, DrainDone, StartRead, vars
  <2> QED
    BY <2>1, QueueIdle DEF ringVars, replyVars, HasFrame
<1> QED
  BY <1>1, <1>2, <1>3, <1>4 DEF Next, ServerNext

LEMMA InitEvals == Init => Evals!EvalQueueInit
<1> SUFFICES ASSUME Init PROVE Evals!EvalQueueInit
  OBVIOUS
<1>1. Pending = <<>>
  <2>1. Pending = [i \in 1 .. 0 |-> Eval(i - 1)]
    BY PendingPlaces DEF Init
  <2> QED
    BY <2>1
<1>2. Answered = {}
  BY DEF Init, Answered, HasFrame
<1> QED
  BY <1>1, <1>2 DEF Init, Evals!EvalQueueInit

\* The ring with its modulo arithmetic, the slots that come and go and the
\* conn_id test serve evals in the order they came in, each once, to the
\* connection that asked or to nobody.
THEOREM RingRefinesQueue == Spec => ServesEvalQueue
<1>1. ControlInv /\ [Next]_vars => [Evals!EvalQueueNext]_(Evals!queueVars)
  BY NextEvals
<1> QED
  BY InitEvals, <1>1, ControlInvariant, PTL DEF Spec, ServesEvalQueue, Evals!EvalQueueSpec
=============================================================================
