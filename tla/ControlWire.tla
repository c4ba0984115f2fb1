---------------------------- MODULE ControlWire ----------------------------
(***************************************************************************)
(* One command of termctl (tools/termctl/main.c) over the control socket,  *)
(* byte by byte: the line that control_proto.c joins and splits, the frame *)
(* that control.c answers with, and the reader at the other end. Either    *)
(* side reads what it gets in pieces cut anywhere; the answer may break    *)
(* off, and the application may end at any time.                           *)
(*                                                                         *)
(* A byte is a member of a small set. "begin" and "end0", "end1" stand for *)
(* the words of a marker line after its percent sign, with which a line of *)
(* a body may begin, too.                                                  *)
(***************************************************************************)
EXTENDS Integers, SequencesExt

CONSTANTS
  Commands,      \* arguments that termctl is called with
  Bodies,        \* what the dispatcher may answer
  MaxArgv,       \* CTL_MAX_ARGV
  LineMax,       \* CTL_LINE_MAX
  ClientMax,     \* LINE_MAX_ of termctl
  ReplyMax,      \* CTL_REPLY_MAX
  TailReserve,   \* tail_reserve
  WriteMayBlock  \* the client may be slow to read

Byte == {"x", "n", " ", "\\", "\n", "\r", "%", "begin", "end0", "end1"}
Header == <<"%", "begin", "\n">>
Marker(flag) == <<"%", IF flag = 0 THEN "end0" ELSE "end1", "\n">>

TooMany == <<"x", "n">>          \* "too many arguments"
TooLong == <<"x", "x">>          \* "line too long"
None == <<"none">>               \* no line dispatched yet

\* A body is written to half a reply; the reserve has room for the end line,
\* and the client's buffer for any frame.
ASSUME WireAssumption ==
  /\ MaxArgv \in Nat \ {0} /\ LineMax \in Nat \ {0}
  /\ \A c \in Commands : c # <<>> /\ c \in Seq(Seq(Byte))
  /\ \A b \in Bodies \cup {TooMany, TooLong} : b \in Seq(Byte) /\ 2 * Len(b) < ReplyMax
  /\ TailReserve \in Nat /\ Len(Marker(0)) < TailReserve
  /\ ReplyMax \in Nat /\ 4 * (Len(Header) + TailReserve + 1) <= ReplyMax
  /\ ClientMax \in Nat /\ ReplyMax <= ClientMax
  /\ WriteMayBlock \in BOOLEAN

VARIABLES
  command,   \* argv of termctl, without its name
  status,    \* "none" while it runs, then what it exits with
  toServer,  \* bytes on their way
  inbuf,     \* c->inbuf
  oversize,  \* c->oversize
  got,       \* history: the argv that was dispatched
  answer,    \* history: body and flag of the first reply
  whole,     \* history: a reply went out whole
  closed,    \* the application has closed its end
  toClient,  \* bytes on their way back
  buf,       \* buf of read_response
  inFrame,   \* in_frame
  out        \* what termctl has printed

clientVars == <<buf, inFrame, out>>
serverVars == <<inbuf, oversize, got, answer, whole, closed>>
vars == <<command, status, toServer, toClient, clientVars, serverVars>>

-----------------------------------------------------------------------------
(***************************************************************************)
(* control_proto.c                                                         *)
(***************************************************************************)

EscapeSpacesOnly(b) == IF b \in {" ", "\n"} THEN <<"\\", b>> ELSE <<b>>   \* Faulty variant
Escape(b) == CASE b \in {"\\", " "} -> <<"\\", b>>
               [] b = "\n"          -> <<"\\", "n">>
               [] OTHER             -> <<b>>

EscapeAll(arg) == FlattenSeq([i \in DOMAIN arg |-> Escape(arg[i])])

\* proto_argv_join
Join(argv) ==
  FlattenSeq([i \in DOMAIN argv |-> (IF i = 1 THEN <<>> ELSE <<" ">>) \o EscapeAll(argv[i])])

\* LINE_MAX_ is twice CTL_LINE_MAX: what termctl sends overflows the server's
\* buffer once at most.
ASSUME OneRejection ==
  \A c \in Commands : Len(Join(c)) < 2 * LineMax \/ Len(Join(c)) >= ClientMax - 1

Unescape(b) == IF b = "n" THEN "\n" ELSE b

\* proto_argv_split one byte at a time: the tokens so far, whether the last
\* one is still open, and whether a backslash waits for its byte.
StartToken(s) == IF s.open THEN s ELSE [s EXCEPT !.open = TRUE, !.argv = Append(@, <<>>)]
Put(s, b) == [s EXCEPT !.argv[Len(s.argv)] = Append(@, b)]
SplitByte(s, b) ==
  IF s.escaped THEN [Put(s, Unescape(b)) EXCEPT !.escaped = FALSE]
  ELSE IF b = " " THEN [s EXCEPT !.open = FALSE]
  ELSE IF b = "\\" THEN [StartToken(s) EXCEPT !.escaped = TRUE]
  ELSE Put(StartToken(s), b)
SplitEnd(s) == IF s.escaped THEN Put(s, "\\") ELSE s
Split(line) ==
  SplitEnd(FoldLeft(SplitByte, [argv |-> <<>>, open |-> FALSE, escaped |-> FALSE], line)).argv

-----------------------------------------------------------------------------
(***************************************************************************)
(* The server's end                                                        *)
(***************************************************************************)

Cap == ReplyMax - TailReserve

\* ctl_reply_fd: the copy loop, which doubles a percent sign at the start of
\* a line and stops at the cap.
CopyAsItIs(s, b) == IF Len(s.buf) >= Cap THEN s ELSE [s EXCEPT !.buf = Append(@, b)]   \* Faulty variant
CopyByte(s, b) ==
  LET doubled == s.atStart /\ b = "%"
      room    == IF doubled THEN Len(s.buf) + 1 < Cap ELSE Len(s.buf) < Cap
  IN IF s.full \/ ~room THEN [s EXCEPT !.full = TRUE]
     ELSE [s EXCEPT !.buf = @ \o (IF doubled THEN <<"%", b>> ELSE <<b>>), !.atStart = (b = "\n")]

Closed(text) == IF Len(text) < Cap THEN Append(text, "\n") ELSE text

Frame(body, flag) ==
  LET copied == FoldLeft(CopyByte, [buf |-> Header, atStart |-> TRUE, full |-> FALSE], body).buf
      text   == IF body = <<>> THEN Header ELSE Closed(copied)
  IN IF Len(text) + Len(Marker(flag)) >= ReplyMax THEN <<>> ELSE text \o Marker(flag)

\* write_all gives up where the socket takes no more, and a client that is
\* gone gets nothing; nobody looks at the result.
Reply(body, flag) ==
  /\ answer' = IF answer = <<>> THEN <<[body |-> body, flag |-> flag]>> ELSE answer
  /\ \E n \in IF WriteMayBlock THEN 0 .. Len(Frame(body, flag)) ELSE {Len(Frame(body, flag))} :
       /\ toClient' = toClient \o SubSeq(Frame(body, flag), 1, n)
       /\ whole' = (whole \/ n = Len(Frame(body, flag)))

NoReply == UNCHANGED <<answer, toClient, whole>>

StripCr(line) == IF line # <<>> /\ Last(line) = "\r" THEN Front(line) ELSE line

\* consume_lines on a whole line: split, dispatched and answered.
TakeLine(line) ==
  LET argv == Split(StripCr(line))
  IN IF Len(argv) > MaxArgv THEN Reply(TooMany, 1) /\ UNCHANGED got
     ELSE IF argv = <<>> THEN NoReply /\ UNCHANGED got
     ELSE /\ got' = argv
          /\ \E b \in Bodies, flag \in {0, 1} : Reply(b, flag)

PastTheEnd(text) == Len(text) > LineMax    \* Faulty variant
Filled(text) == Len(text) = LineMax

\* One read of control_client_handler and the lines in it.
ServerRead ==
  /\ ~closed /\ toServer # <<>>
  /\ \E n \in 1 .. Len(toServer) :
       LET text == inbuf \o SubSeq(toServer, 1, n)
       IN /\ Len(text) <= LineMax
          /\ toServer' = SubSeq(toServer, n + 1, Len(toServer))
          /\ IF Last(text) = "\n"
               THEN /\ inbuf' = <<>> /\ oversize' = FALSE
                    /\ IF oversize THEN NoReply /\ UNCHANGED got ELSE TakeLine(Front(text))
             ELSE IF Filled(text)
               THEN inbuf' = <<>> /\ oversize' = TRUE /\ Reply(TooLong, 1) /\ UNCHANGED got
             ELSE inbuf' = text /\ NoReply /\ UNCHANGED <<oversize, got>>
  /\ UNCHANGED <<command, status, clientVars, closed>>

\* The application ends.
ServerCloses ==
  /\ ~closed /\ closed' = TRUE
  /\ UNCHANGED <<command, status, toServer, toClient, clientVars, inbuf, oversize, got, answer, whole>>

-----------------------------------------------------------------------------
(***************************************************************************)
(* termctl                                                                 *)
(***************************************************************************)

Fresh   == -2     \* not yet connected
Waiting == -1

\* main: the arguments are joined, the socket connected, the line written; a
\* command that is too long and an application that is not there end it.
Send ==
  /\ status = Fresh
  /\ IF closed \/ Len(Join(command)) >= ClientMax - 1
       THEN status' = 2 /\ UNCHANGED toServer
       ELSE status' = Waiting /\ toServer' = Append(Join(command), "\n")
  /\ UNCHANGED <<command, toClient, clientVars, serverVars>>

Starts(line, word) == Len(line) >= 2 /\ line[1] = "%" /\ line[2] = word

\* proto_unescape_line
UnescapeLine(line) == IF line # <<>> /\ line[1] = "%" THEN Tail(line) ELSE line

\* What read_response does at a newline, and with any byte before it. The
\* flag is negative until an end line is seen, and nothing is read after it.
EndOfLine(s) ==
  LET next == [s EXCEPT !.line = <<>>]
  IN CASE Starts(s.line, "begin") -> [next EXCEPT !.inFrame = TRUE]
       [] Starts(s.line, "end0")  -> [next EXCEPT !.flag = 0]
       [] Starts(s.line, "end1")  -> [next EXCEPT !.flag = 1]
       [] OTHER -> IF s.inFrame THEN [next EXCEPT !.out = @ \o Append(UnescapeLine(s.line), "\n")]
                   ELSE next
ReadByte(s, b) ==
  IF s.flag >= 0 THEN s
  ELSE IF b = "\n" THEN EndOfLine(s) ELSE [s EXCEPT !.line = Append(@, b)]

\* One read of read_response.
ClientRead ==
  /\ status = Waiting /\ toClient # <<>>
  /\ \E n \in 1 .. Len(toClient) :
       /\ Len(buf) + n <= ClientMax
       /\ LET s == FoldLeft(ReadByte, [line |-> buf, inFrame |-> inFrame, out |-> out, flag |-> -1],
                            SubSeq(toClient, 1, n))
          IN /\ buf' = s.line /\ inFrame' = s.inFrame /\ out' = s.out
             /\ status' = IF s.flag >= 0 THEN s.flag
                          ELSE IF Len(s.line) = ClientMax THEN 2 ELSE Waiting
       /\ toClient' = SubSeq(toClient, n + 1, Len(toClient))
  /\ UNCHANGED <<command, toServer, serverVars>>

EofTriedAgain ==                       \* Faulty variant
  status = Waiting /\ toClient = <<>> /\ closed /\ UNCHANGED vars

\* read returns 0: no end line came.
ClientEof ==
  /\ status = Waiting /\ toClient = <<>> /\ closed
  /\ status' = 2
  /\ UNCHANGED <<command, toServer, toClient, clientVars, serverVars>>

-----------------------------------------------------------------------------

Init ==
  /\ command \in Commands /\ status = Fresh
  /\ toServer = <<>> /\ toClient = <<>>
  /\ inbuf = <<>> /\ oversize = FALSE /\ got = None /\ answer = <<>> /\ whole = FALSE
  /\ closed \in BOOLEAN
  /\ buf = <<>> /\ inFrame = FALSE /\ out = <<>>

Client == Send \/ ClientRead \/ ClientEof

Next == Client \/ ServerRead \/ ServerCloses

Spec == Init /\ [][Next]_vars

(***************************************************************************)
(* termctl does not stop by itself. Nothing is assumed of the application. *)
(***************************************************************************)
FairSpec == Spec /\ WF_vars(Client)

-----------------------------------------------------------------------------
(***************************************************************************)
(* Properties                                                              *)
(***************************************************************************)

\* The type invariant.
TypeOK ==
  /\ command \in Commands /\ status \in -2 .. 2
  /\ \A s \in {toServer, toClient, inbuf, buf, out} : s \in Seq(Byte)
  /\ Len(inbuf) < LineMax /\ Len(buf) <= ClientMax
  /\ {oversize, whole, closed, inFrame} \subseteq BOOLEAN
  /\ Len(answer) <= 1

\* An argument of no bytes is lost, and so is a carriage return at the end of
\* the last one.
Faithful(argv) ==
  (\A i \in DOMAIN argv : argv[i] # <<>>) /\ Last(Last(argv)) # "\r"

\* "proto_argv_split and proto_argv_join are exact inverses": what is called
\* is what is dispatched, wherever the reads cut the line, but for the two
\* losses above.
ArgumentsArrive ==
  got # None /\ Faithful(command) => got = command

\* What termctl has printed is a beginning of the first answer, and it ends
\* with the answer's flag only after all of it: no body can pass for a marker,
\* no piece for the whole.
OutputIsReply ==
  /\ answer # <<>> =>
       LET text == IF answer[1].body = <<>> THEN <<>> ELSE Append(answer[1].body, "\n")
       IN /\ IsPrefix(out, text)
          /\ status \in {0, 1} => out = text /\ status = answer[1].flag
  /\ answer = <<>> => out = <<>> /\ status \notin {0, 1}

\* A reply that went out whole, and a socket that is closed, end termctl: no
\* body makes it wait on.
TermctlEnds == (whole \/ closed) ~> status >= 0
=============================================================================
