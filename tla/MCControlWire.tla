--------------------------- MODULE MCControlWire ---------------------------
(***************************************************************************)
(* Instances of ControlWire for TLC: one argument of up to two bytes, two  *)
(* of up to one, too many, too long for the server, too long for termctl;  *)
(* bodies with lines that look like the frame's own.                       *)
(***************************************************************************)
EXTENDS ControlWire, TLC

MCByte == {"x", "n", " ", "\\", "\n", "\r"}
MCShort == {<<>>} \cup {<<b>> : b \in MCByte}
MCCommands ==
  {<<a>> : a \in MCShort \cup {<<b, c>> : b, c \in MCByte}}
    \cup {<<a, b>> : a, b \in MCShort}
    \cup {<<<<"x">>, <<"x">>, <<"x">>>>, <<[i \in 1 .. 9 |-> "x"]>>, <<[i \in 1 .. 40 |-> "x"]>>}

MCBodies ==
  {<<>>, <<"x", "\n", "%", "end0">>, <<"%", "end1", "\n", "x">>, <<"%", "%", "begin">>,
   <<"\n", "\n">>, <<"%", "\n", "%", "\n", "%", "\n">>}
=============================================================================
