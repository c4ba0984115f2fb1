--------------------------- MODULE ControlSocket ---------------------------
(***************************************************************************)
(* The control socket (control.c): accepting, reading and splitting of     *)
(* lines, the dispatcher, the ring of deferred evals and its drain.        *)
(*                                                                         *)
(* Handlers do not interleave with each other, but clients connect, send   *)
(* and hang up between any two system calls, so a handler is cut at each   *)
(* accept, read and reply. A line is a sequence of parts closed by a unit  *)
(* that stands for its newline and says what the line amounts to:          *)
(* "cmd" is answered at once, "eval" is deferred, "blank" has no word.     *)
(* Reading unit by unit is what consume_lines does whatever the size of    *)
(* each read: a line is taken when its newline is seen, and a line without *)
(* one is rejected when the buffer is full.                                *)
(***************************************************************************)
EXTENDS Integers, SequencesExt

CONSTANTS
  MaxClients,    \* CTL_MAX_CLIENTS
  DeferMax,      \* CTL_DEFER_MAX
  LineMax,       \* CTL_LINE_MAX, in parts
  Fd,            \* descriptor numbers an accepted connection may get
  NoFd,          \* -1
  MaxConn,       \* bound of the model: connections made in a run
  MaxSent,       \* bound of the model: units a client sends
  Lines,         \* kinds of line the clients send
  WriteMayBlock  \* a client may be slow to read its replies

ASSUME ControlAssumption ==
  /\ MaxClients \in Nat \ {0} /\ DeferMax \in Nat \ {0} /\ LineMax \in Nat \ {0}
  /\ MaxConn \in Nat /\ MaxSent \in Nat
  /\ NoFd \notin Fd
  /\ Lines \subseteq {"cmd", "eval", "blank"}
  /\ WriteMayBlock \in BOOLEAN

Slot   == 1 .. MaxClients
Conn   == 1 .. MaxConn      \* connections, in the order they are made
NoConn == 0
NoSlot == 0

VARIABLES
  clients,   \* g_clients: fd, conn_id, number of parts buffered, oversize
  nextReq,   \* g_next_reqid
  nextConn,  \* g_next_conn
  ring,      \* g_defer: fd, conn_id and reqid by index from 0
  head,      \* g_defer_head
  count,     \* g_defer_count
  phase,     \* what the pump thread is in
  cur,       \* the slot whose handler runs
  made,      \* how many connections have been made
  backlog,   \* connections that wait for accept
  peer,      \* kernel: descriptor -> connection
  watched,   \* BPS: descriptor -> slot its handler is given
  incoming,  \* connection -> units sent and not read
  sent,      \* connection -> units sent in all
  hungUp,    \* connections whose client has closed its end
  replies,   \* connection -> frames written to it
  lineNo,    \* connection -> lines the server has seen the end of
  issued,    \* request id -> connection and line it was given for
  ran        \* ids of the evals that have run, in order

ringVars   == <<ring, head, count, ran>>
clientVars == <<made, sent, hungUp>>
serverVars == <<clients, nextConn, peer, watched, backlog>>
replyVars  == <<nextReq, issued, replies>>
vars == <<ringVars, clientVars, serverVars, replyVars, phase, cur, incoming, lineNo>>

FreeSlot == [fd |-> NoFd, connId |-> 0, parts |-> 0, oversize |-> FALSE]

-----------------------------------------------------------------------------
(***************************************************************************)
(* The clients                                                             *)
(***************************************************************************)

Connect ==
  /\ made < MaxConn /\ phase # "halt"
  /\ made' = made + 1
  /\ backlog' = Append(backlog, made + 1)
  /\ UNCHANGED <<ringVars, sent, hungUp, clients, nextConn, peer, watched,
                 replyVars, phase, cur, incoming, lineNo>>

Send(c) ==
  /\ c <= made /\ c \notin hungUp /\ sent[c] < MaxSent
  /\ \E u \in Lines \cup {"part"} : incoming' = [incoming EXCEPT ![c] = Append(@, u)]
  /\ sent' = [sent EXCEPT ![c] = @ + 1]
  /\ UNCHANGED <<ringVars, made, hungUp, serverVars, replyVars, phase, cur, lineNo>>

HangUp(c) ==
  /\ c <= made /\ c \notin hungUp
  /\ hungUp' = hungUp \cup {c}
  /\ UNCHANGED <<ringVars, made, sent, serverVars, replyVars, phase, cur,
                 incoming, lineNo>>

-----------------------------------------------------------------------------
(***************************************************************************)
(* Replies                                                                 *)
(***************************************************************************)

\* ctl_reply_fd and write_all: a frame goes out whole, or breaks off where
\* the client's socket takes no more. Nobody looks at the result.
Reply(fd, id) ==
  \E whole \in IF WriteMayBlock THEN BOOLEAN ELSE {TRUE} :
    replies' = IF peer[fd] \in hungUp THEN replies
               ELSE [replies EXCEPT ![peer[fd]] =
                       Append(@, [id |-> id, whole |-> whole])]

\* Every request takes the next id.
TakeId(c) ==
  /\ nextReq' = nextReq + 1
  /\ issued' = Append(issued, [by |-> c, line |-> lineNo[c] + 1])

-----------------------------------------------------------------------------
(***************************************************************************)
(* The ring of deferred evals                                              *)
(***************************************************************************)

PushSlot == (head + count) % DeferMax

\* defer_push
DeferPush(s) ==
  /\ count < DeferMax
  /\ ring' = [ring EXCEPT ![PushSlot] =
       [fd |-> clients[s].fd, connId |-> clients[s].connId, id |-> nextReq]]
  /\ count' = count + 1
  /\ UNCHANGED <<head, ran, replies>>

\* Faulty variant: the descriptor alone says who asked.
SameDescriptor(s, d) == clients[s].fd = d.fd

\* The slot's connection is the one that issued the deferred eval.
IsIssuer(s, d) == clients[s].fd = d.fd /\ clients[s].connId = d.connId

StartDrain ==
  /\ phase = "pump" /\ count > 0
  /\ phase' = "drain"
  /\ UNCHANGED <<ringVars, clientVars, serverVars, replyVars, cur, incoming, lineNo>>

\* Faulty variant: the head does not wrap around.
DrainOffTheEnd ==
  /\ phase = "drain" /\ count > 0
  /\ head' = head + 1 /\ count' = count - 1
  /\ ran' = Append(ran, ring[head].id)
  /\ UNCHANGED <<ring, clientVars, serverVars, replyVars, phase, cur, incoming, lineNo>>

\* Faulty variant: the newest eval first.
DrainNewest ==
  LET d == ring[(head + count - 1) % DeferMax]
  IN /\ phase = "drain" /\ count > 0
     /\ count' = count - 1
     /\ ran' = Append(ran, d.id)
     /\ IF \E s \in Slot : IsIssuer(s, d) THEN Reply(d.fd, d.id) ELSE UNCHANGED replies
     /\ UNCHANGED <<ring, head, clientVars, serverVars, nextReq, issued, phase, cur,
                    incoming, lineNo>>

\* One round of control_drain_deferred: pop, run, answer whoever asked.
DrainOne ==
  /\ phase = "drain" /\ count > 0
  /\ head' = (head + 1) % DeferMax
  /\ count' = count - 1
  /\ ran' = Append(ran, ring[head].id)
  /\ IF \E s \in Slot : IsIssuer(s, ring[head])
       THEN Reply(ring[head].fd, ring[head].id)
       ELSE UNCHANGED replies
  /\ UNCHANGED <<ring, clientVars, serverVars, nextReq, issued, phase, cur,
                 incoming, lineNo>>

DrainDone ==
  /\ phase = "drain" /\ count = 0
  /\ phase' = "pump"
  /\ UNCHANGED <<ringVars, clientVars, serverVars, replyVars, cur, incoming, lineNo>>

-----------------------------------------------------------------------------
(***************************************************************************)
(* Connections                                                             *)
(***************************************************************************)

StartAccept ==
  /\ phase = "pump" /\ backlog # <<>>
  /\ phase' = "accept"
  /\ UNCHANGED <<ringVars, clientVars, serverVars, replyVars, cur, incoming, lineNo>>

\* Faulty variant: a connection beyond capacity is left open.
AcceptBeyond(f) ==
  /\ peer' = [peer EXCEPT ![f] = Head(backlog)]
  /\ UNCHANGED <<clients, nextConn, watched>>

\* At capacity: closed as soon as accepted.
Refuse(f) == UNCHANGED <<clients, nextConn, peer, watched>>

\* client_alloc takes the first free slot and the next connection id. A
\* descriptor the pump does not take is closed and its slot cleared; the id is
\* used up.
Register(f) ==
  LET s == CHOOSE s \in Slot : /\ clients[s].fd = NoFd
                               /\ \A t \in 1 .. s - 1 : clients[t].fd # NoFd
  IN /\ nextConn' = nextConn + 1
     /\ \/ /\ clients' = [clients EXCEPT ![s] =
                [fd |-> f, connId |-> nextConn, parts |-> 0, oversize |-> FALSE]]
           /\ peer' = [peer EXCEPT ![f] = Head(backlog)]
           /\ watched' = [watched EXCEPT ![f] = s]
        \/ UNCHANGED <<clients, peer, watched>>

\* One round of control_accept_handler.
AcceptOne ==
  /\ phase = "accept" /\ backlog # <<>>
  /\ \E f \in Fd :
       /\ peer[f] = NoConn
       /\ IF \E s \in Slot : clients[s].fd = NoFd THEN Register(f) ELSE Refuse(f)
  /\ backlog' = Tail(backlog)
  /\ UNCHANGED <<ringVars, clientVars, replyVars, phase, cur, incoming, lineNo>>

AcceptDone ==
  /\ phase = "accept" /\ backlog = <<>>
  /\ phase' = "pump"
  /\ UNCHANGED <<ringVars, clientVars, serverVars, replyVars, cur, incoming, lineNo>>

\* client_close
CloseClient(s) ==
  /\ peer' = [peer EXCEPT ![clients[s].fd] = NoConn]
  /\ watched' = [watched EXCEPT ![clients[s].fd] = NoSlot]
  /\ clients' = [clients EXCEPT ![s] = FreeSlot]

-----------------------------------------------------------------------------
(***************************************************************************)
(* control_client_handler and consume_lines                                *)
(***************************************************************************)

Readable(s) ==
  LET c == peer[clients[s].fd]
  IN clients[s].fd # NoFd /\ (incoming[c] # <<>> \/ c \in hungUp)

\* The pump calls the handler of a readable descriptor.
StartRead(s) ==
  /\ phase = "pump" /\ Readable(s)
  /\ watched[clients[s].fd] = s
  /\ phase' = "read" /\ cur' = s
  /\ UNCHANGED <<ringVars, clientVars, serverVars, replyVars, incoming, lineNo>>

\* An unfinished line grows; a buffer without a newline is rejected when full.
TakePart(s) ==
  /\ IF clients[s].parts + 1 = LineMax
       THEN /\ TakeId(peer[clients[s].fd])
            /\ Reply(clients[s].fd, nextReq)
            /\ clients' = [clients EXCEPT ![s].parts = 0, ![s].oversize = TRUE]
       ELSE /\ clients' = [clients EXCEPT ![s].parts = @ + 1]
            /\ UNCHANGED replyVars
  /\ UNCHANGED <<ringVars, lineNo>>

\* Faulty variant: nobody hears that the ring was full.
DispatchSilently(s, u) ==
  /\ TakeId(peer[clients[s].fd])
  /\ \/ u = "eval" /\ DeferPush(s)
     \/ u = "eval" /\ count = DeferMax /\ UNCHANGED <<ringVars, replies>>
     \/ u = "cmd" /\ Reply(clients[s].fd, nextReq) /\ UNCHANGED ringVars

\* dispatch: an id for every command, an eval into the ring, everything else
\* and an eval the ring or the heap has no room for answered at once.
Dispatch(s, u) ==
  /\ TakeId(peer[clients[s].fd])
  /\ \/ u = "eval" /\ DeferPush(s)
     \/ Reply(clients[s].fd, nextReq) /\ UNCHANGED ringVars

\* A line ends: the tail of a rejected one and a blank one pass in silence.
TakeLine(s, u) ==
  /\ clients' = [clients EXCEPT ![s].parts = 0, ![s].oversize = FALSE]
  /\ lineNo' = [lineNo EXCEPT ![peer[clients[s].fd]] = @ + 1]
  /\ IF clients[s].oversize \/ u = "blank"
       THEN UNCHANGED <<replyVars, ringVars>>
       ELSE Dispatch(s, u)

ReadUnit ==
  /\ phase = "read"
  /\ LET c == peer[clients[cur].fd]
     IN /\ incoming[c] # <<>>
        /\ incoming' = [incoming EXCEPT ![c] = Tail(@)]
        /\ IF Head(incoming[c]) = "part" THEN TakePart(cur)
                                         ELSE TakeLine(cur, Head(incoming[c]))
  /\ UNCHANGED <<clientVars, nextConn, peer, watched, backlog, phase, cur>>

\* EAGAIN
ReadDone ==
  /\ phase = "read"
  /\ LET c == peer[clients[cur].fd] IN incoming[c] = <<>> /\ c \notin hungUp
  /\ phase' = "pump" /\ cur' = NoSlot
  /\ UNCHANGED <<ringVars, clientVars, serverVars, replyVars, incoming, lineNo>>

\* End of file, or a reset connection, which may cost units not read yet.
ReadEnds ==
  /\ phase = "read" /\ peer[clients[cur].fd] \in hungUp
  /\ CloseClient(cur)
  /\ phase' = "pump" /\ cur' = NoSlot
  /\ UNCHANGED <<ringVars, clientVars, nextConn, backlog, replyVars, incoming, lineNo>>

\* control_shutdown: every client, the listener and the ring.
Shutdown ==
  /\ phase = "pump"
  /\ clients' = [s \in Slot |-> FreeSlot]
  /\ peer' = [f \in Fd |-> NoConn]
  /\ watched' = [f \in Fd |-> NoSlot]
  /\ backlog' = <<>>
  /\ head' = (head + count) % DeferMax /\ count' = 0
  /\ phase' = "halt"
  /\ UNCHANGED <<ring, ran, clientVars, nextConn, replyVars, cur, incoming, lineNo>>

-----------------------------------------------------------------------------
Init ==
  /\ clients = [s \in Slot |-> FreeSlot]
  /\ nextReq = 1 /\ nextConn = 1
  /\ ring = [i \in 0 .. DeferMax - 1 |-> [fd |-> NoFd, connId |-> 0, id |-> 0]]
  /\ head = 0 /\ count = 0 /\ ran = <<>>
  /\ phase = "pump" /\ cur = NoSlot
  /\ made = 0 /\ backlog = <<>> /\ hungUp = {}
  /\ peer = [f \in Fd |-> NoConn]
  /\ watched = [f \in Fd |-> NoSlot]
  /\ incoming = [c \in Conn |-> <<>>]
  /\ sent = [c \in Conn |-> 0]
  /\ replies = [c \in Conn |-> <<>>]
  /\ lineNo = [c \in Conn |-> 0]
  /\ issued = <<>>

ClientNext == Connect \/ \E c \in Conn : Send(c) \/ HangUp(c)

ServerNext ==
  \/ StartAccept \/ AcceptOne \/ AcceptDone
  \/ (\E s \in Slot : StartRead(s)) \/ ReadUnit \/ ReadDone \/ ReadEnds
  \/ StartDrain \/ DrainOne \/ DrainDone

Next == ClientNext \/ ServerNext \/ Shutdown

(***************************************************************************)
(* A handler runs on once it has started, the pump serves every descriptor *)
(* that stays readable (it may do others first, again and again, but not   *)
(* for ever), and the loop reaches the drain after each round of the pump, *)
(* since every handler posts a wake event. Nothing is assumed of clients.  *)
(***************************************************************************)
Fairness ==
  /\ WF_vars(AcceptOne \/ AcceptDone \/ ReadUnit \/ ReadDone \/ ReadEnds \/ DrainOne \/ DrainDone)
  /\ SF_vars(StartAccept) /\ SF_vars(StartDrain)
  /\ \A s \in Slot : SF_vars(StartRead(s))

Spec     == Init /\ [][Next]_vars
FairSpec == Spec /\ Fairness

-----------------------------------------------------------------------------
(***************************************************************************)
(* Invariants                                                              *)
(***************************************************************************)

Frame == [id : Nat \ {0}, whole : BOOLEAN]

TypeOK ==
  /\ clients \in [Slot -> [fd : Fd \cup {NoFd}, connId : 0 .. MaxConn,
                          parts : 0 .. LineMax - 1, oversize : BOOLEAN]]
  /\ nextReq = Len(issued) + 1 /\ nextConn \in 1 .. MaxConn + 1
  /\ ring \in [0 .. DeferMax - 1 -> [fd : Fd \cup {NoFd}, connId : 0 .. MaxConn, id : Nat]]
  /\ head \in 0 .. DeferMax - 1 /\ count \in 0 .. DeferMax
  /\ ran \in Seq(1 .. Len(issued))
  /\ phase \in {"pump", "accept", "read", "drain", "halt"}
  /\ cur \in Slot \cup {NoSlot} /\ (phase = "read" <=> cur # NoSlot)
  /\ made \in 0 .. MaxConn /\ backlog \in Seq(Conn) /\ hungUp \subseteq Conn
  /\ peer \in [Fd -> Conn \cup {NoConn}]
  /\ watched \in [Fd -> Slot \cup {NoSlot}]
  /\ incoming \in [Conn -> Seq(Lines \cup {"part"})]
  /\ sent \in [Conn -> 0 .. MaxSent]
  /\ replies \in [Conn -> Seq(Frame)]
  /\ lineNo \in [Conn -> 0 .. MaxSent]
  /\ issued \in Seq([by : Conn, line : 1 .. MaxSent + 1])

\* An accepted descriptor is open exactly as long as one slot owns it, and
\* the pump hands it to that slot's handler and no other: refused, failed and
\* closed connections leak nothing and leave no stale registration behind.
SlotsOwnDescriptors ==
  \A f \in Fd :
    LET owners == {s \in Slot : clients[s].fd = f}
    IN IF peer[f] = NoConn THEN owners = {} /\ watched[f] = NoSlot
                           ELSE owners = {watched[f]}

\* A reply reaches the connection whose request it answers, though evals are
\* answered after their client may have gone and its descriptor and slot have
\* a new owner (the purpose of conn_id); and no request is answered twice, at
\* once and by the drain or on two streams.
RepliesToIssuer ==
  \A c, d \in Conn : \A i \in 1 .. Len(replies[c]), j \in 1 .. Len(replies[d]) :
    /\ issued[replies[c][i].id].by = c
    /\ replies[c][i].id = replies[d][j].id => c = d /\ i = j

-----------------------------------------------------------------------------
(***************************************************************************)
(* What must happen, and the abstract specification                        *)
(***************************************************************************)

Newlines(c) == lineNo[c] + Len(SelectSeq(incoming[c], LAMBDA u : u # "part"))

Served(c) == \/ c \in ToSet(backlog)
             \/ \E f \in Fd : peer[f] = c

\* A client that sends a command and waits gets a frame for it, or is
\* disconnected, whatever the others do: at once, after the drain, or as a
\* rejection, also for the lines that follow an overlong one.  A blank line is
\* no command and gets none: the property is for Lines without "blank".
RequestsAnswered ==
  \A c \in Conn : \A n \in 1 .. MaxSent :
    (Served(c) /\ Newlines(c) >= n) ~> (Len(replies[c]) >= n \/ ~Served(c) \/ c \in hungUp)

\* The evals in the ring, oldest first, with the connections they came from.
Pending ==
  [i \in 1 .. count |->
     LET d == ring[(head + (i - 1)) % DeferMax]
     IN [by |-> issued[d.id].by, id |-> d.id]]

\* The evals that have run and whose frame was written, and to whom.
HasFrame(c, id) == \E i \in 1 .. Len(replies[c]) : replies[c][i].id = id

Answered ==
  {p \in Conn \X ToSet(ran) : HasFrame(p[1], p[2])}

Evals == INSTANCE EvalQueue WITH
  Client     <- Conn,
  MaxPending <- DeferMax,
  pending    <- Pending,
  ran        <- ran,
  answered   <- Answered,
  over       <- (phase = "halt")

\* The ring, its modulo arithmetic and the conn_id guard implement a queue of
\* evals served in order and once.
ServesEvalQueue == Evals!EvalQueueSpec
=============================================================================
